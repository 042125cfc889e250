---------------------------- MODULE Pairing_proofs ----------------------------
(***************************************************************************)
(* Proofs about Pairing: its type invariant, that the two sides of a       *)
(* connection stay together, and that an abandoned pairing takes no        *)
(* working connection with it.                                             *)
(***************************************************************************)
EXTENDS Pairing, TLAPS

(* Steps taken under the lifecycle lock. *)
Writing == {"writeConfig", "writeSources", "unlinkJournal"}
Cancelling == {"cancelOld", "disconnect", "add", "remove", "reset"}
LockPCs == Writing \cup Cancelling \cup
  {"record", "unlinkAttempt", "hooks", "revoke", "disable", "addSource", "deleteSource",
   "writeWithout", "dropSource", "resetLocal"}
(* Under the lock with no connect attempt on disk. *)
Attemptless == Cancelling \cup
  {"revoke", "disable", "addSource", "deleteSource", "writeWithout", "dropSource", "resetLocal"}

(* The tokens in the row of an installation, and the rows they may be in. *)
Columns(i) == {inst[i].code, inst[i].poll, inst[i].pend, inst[i].device} \ {None}
Belongs(t, i) == \A j \in Inst \ {i} : t \notin Columns(j)
Spent(t) == \A i \in Inst : inst[i].pend # t

(* A token that authorises a device, or that an approval makes do so. *)
Alive(t) == \E i \in Inst : inst[i].pend = t \/ inst[i].device = t

(* The columns of a row go together. *)
RowOK(i) ==
  /\ inst[i].device # None <=> inst[i].status = "active"
  /\ inst[i].pend # None => inst[i].code = inst[i].pend /\ inst[i].poll = inst[i].pend
  /\ inst[i].code # None => inst[i].pend = inst[i].code
  /\ inst[i].device \in shown \cup {None}
  /\ Columns(i) \subseteq drawn

(* The rows of the server are in order, and no two of them share a         *)
(* token.                                                                  *)
ServerInv ==
  /\ shown \subseteq drawn
  /\ \A i \in Inst : RowOK(i)
  /\ \A i, j \in Inst : i # j => Columns(i) \cap Columns(j) = {}

(* The configuration holds a token that is no longer awaiting approval. *)
TokenOf(t, i) == t \in drawn /\ Spent(t) /\ Belongs(t, i)
ConfigIs(t) == config # None /\ config.token = t
Replaced(t) == config = None \/ config.token = t \/ ~Alive(config.token)

(* The three files of the connector agree. *)
FilesInv ==
  /\ attempt # None => identity = attempt.inst /\ attempt.poll \in shown \cup {None}
  /\ config # None => TokenOf(config.token, config.inst)
  /\ ConfigIsUsable

(* A commit that is under way, or waits for recovery. *)
JournalInv ==
  journal # None =>
    LET p == journal.attempt.by
        t == journal.config.token
        i == journal.config.inst
    IN  /\ attempt = journal.attempt /\ i = attempt.inst /\ t = attempt.poll
        /\ TokenOf(t, i) /\ Replaced(t)
        /\ journal.config.srcs \subseteq journal.registry
        /\ \/ lock = p /\ pc[p] \in Writing
           \/ lock = None /\ pc[p] = "off"
        /\ pc[p] \in {"writeSources", "unlinkJournal"} => config = journal.config
        /\ pc[p] = "unlinkJournal" => registry = journal.registry

(* Who is at a step of the locked section holds the lock, and the files    *)
(* are as that step needs them.                                            *)
LockInv ==
  /\ \A p \in Proc : pc[p] \in LockPCs <=> lock = p
  /\ \A p \in Proc : pc[p] \in Attemptless => attempt = None
  /\ \A p \in Proc : pc[p] \in Writing => journal # None /\ SameAttempt(journal.attempt, p)

(* A connect that has an installation identity. *)
Started ==
  {"start", "record", "poll", "commit", "unlinkAttempt", "hooks", "abort", "clear"} \cup Writing

(* What a connect relies on at each of its steps, although others act      *)
(* between them: its token is its own, what it commits is approved, what   *)
(* it clears is settled.                                                   *)
ConnOK(p) ==
  /\ my[p].want \subseteq my[p].local
  /\ pc[p] \in {"begin"} \cup Started => my[p].id \in Inst
  /\ pc[p] \in {"identify", "begin", "start"} => my[p].tok = None
  /\ pc[p] \in {"record", "poll", "commit"} => my[p].tok # None
  /\ pc[p] \in Started /\ my[p].tok # None => my[p].tok \in drawn /\ Belongs(my[p].tok, my[p].id)
  /\ pc[p] = "commit" => Spent(my[p].tok) /\ (SameAttempt(attempt, p) => Replaced(my[p].tok))
  /\ pc[p] = "unlinkAttempt" => SameAttempt(attempt, p) /\ ConfigIs(my[p].tok)
  /\ pc[p] = "clear" /\ my[p].tok # None =>
       ~Alive(my[p].tok) \/ my[p].tok \in unsure \/ ConfigIs(my[p].tok)

ConnInv == \A p \in Conn : ConnOK(p)

(* What the other commands rely on. *)
CmdOK(p) ==
  /\ pc[p] = "disable" /\ config # None => config.token \in unsure \/ ~Alive(config.token)
  /\ pc[p] \in {"add", "addSource"} => my[p].which \in Client
  /\ pc[p] = "dropSource" /\ config # None => my[p].which \notin config.srcs

CmdInv == \A p \in Proc : CmdOK(p)

(* Who can still use or revoke a token that was shown. *)
Kept(t) ==
  \/ t \in unsure \/ ConfigIs(t)
  \/ attempt # None /\ attempt.poll = t
  \/ \E p \in Proc : pc[p] \in Cancelling /\ my[p].tok = t

(* Every live token that was shown is kept, and so is a device token       *)
(* beside which another pairing was started. It is what keeps              *)
(* ActiveIsReachable: the property alone is not inductive, since a step    *)
(* may delete the last copy of a token that only a later approval would    *)
(* make active.                                                            *)
KeptInv ==
  /\ \A t \in shown : Alive(t) => Kept(t)
  /\ \A i \in Inst : inst[i].device # None /\ inst[i].poll # inst[i].device =>
       inst[i].device \in unsure \/ ConfigIs(inst[i].device)
-----------------------------------------------------------------------------
(* Types *)

(* A row of the server, put together from its columns. *)
LEMMA InstRows ==
  ASSUME NEW row \in InstRow
  PROVE  /\ row.status \in {"none", "pending", "active", "revoked"} /\ row.code \in TokenOr
         /\ row.poll \in TokenOr /\ row.pend \in TokenOr /\ row.device \in TokenOr
         /\ row.fresh \in BOOLEAN
BY DEF InstRow

(* A start writes its token into the row of its installation, and deletes  *)
(* expired rows.                                                           *)
LEMMA StartFields ==
  ASSUME PairingTypeOK, NEW i \in Inst, NEW t \in Token, NEW want, NEW dropped,
         StartRoute(i, t, want, dropped)
  PROVE  /\ inst' \in [Inst -> InstRow] /\ source' \in [Inst -> [Client -> SourceRow]]
         /\ inst'[i].code = t /\ inst'[i].poll = t /\ inst'[i].pend = t
         /\ inst'[i].device \in {inst[i].device, None} /\ inst'[i].status \in {"active", "pending"}
         /\ inst[i].status = "active" => inst'[i].device = inst[i].device
         /\ inst'[i].status = "active" <=> inst[i].status = "active"
         /\ \A j \in Inst \ {i} :
              inst'[j] = inst[j] \/ (inst'[j] = NoInst /\ inst[j].status = "pending")
         /\ \A j \in Inst, c \in Client : source'[j][c].code # None =>
              (j = i /\ source'[j][c].code = t) \/ (j # i /\ inst'[j] = inst[j] /\ source'[j][c] = source[j][c])
<1>1. NoInst \in InstRow /\ NoSource \in SourceRow
  BY DEF InstRow, SourceRow, NoInst, NoSource, TokenOr
<1>2. inst \in [Inst -> InstRow] /\ source \in [Inst -> [Client -> SourceRow]]
  BY DEF PairingTypeOK
<1>3. /\ Purged \in [Inst -> InstRow]
      /\ \A j \in Inst : Purged[j] = inst[j] \/ (Purged[j] = NoInst /\ inst[j].status = "pending")
  BY <1>1, <1>2 DEF Purged
<1>4. inst' = [Purged EXCEPT ![i] =
                [status |-> IF Purged[i].status = "active" THEN "active" ELSE "pending",
                 code |-> t, poll |-> t, pend |-> t, device |-> Purged[i].device, fresh |-> TRUE]]
  BY DEF StartRoute
<1> DEFINE row == [status |-> IF Purged[i].status = "active" THEN "active" ELSE "pending",
                   code |-> t, poll |-> t, pend |-> t, device |-> Purged[i].device, fresh |-> TRUE]
<1>5. row \in InstRow
  BY <1>3, InstRows DEF InstRow, TokenOr
<1>6. inst' \in [Inst -> InstRow] /\ inst'[i] = row /\ \A j \in Inst \ {i} : inst'[j] = Purged[j]
  BY <1>3, <1>4, <1>5
<1>7. /\ row.code = t /\ row.poll = t /\ row.pend = t /\ row.device = Purged[i].device
      /\ row.status \in {"active", "pending"} /\ (row.status = "active" <=> Purged[i].status = "active")
  OBVIOUS
<1>8. NoInst.status = "none" /\ NoInst.device = None
  BY DEF NoInst
<1> HIDE DEF row
<1>9. /\ inst'[i].code = t /\ inst'[i].poll = t /\ inst'[i].pend = t
      /\ inst'[i].device \in {inst[i].device, None} /\ inst'[i].status \in {"active", "pending"}
      /\ inst[i].status = "active" => inst'[i].device = inst[i].device
      /\ inst'[i].status = "active" <=> inst[i].status = "active"
      /\ \A j \in Inst \ {i} :
           inst'[j] = inst[j] \/ (inst'[j] = NoInst /\ inst[j].status = "pending")
  BY <1>3, <1>6, <1>7, <1>8
<1>10. \A c \in Client : PairedRow(i, t, want, dropped, c) \in SourceRow
                         /\ PairedRow(i, t, want, dropped, c).code \in {t, None}
  <2> SUFFICES ASSUME NEW c \in Client
               PROVE  PairedRow(i, t, want, dropped, c) \in SourceRow
                      /\ PairedRow(i, t, want, dropped, c).code \in {t, None}
    OBVIOUS
  <2> DEFINE old == source[i][c]
             kept == IF old.status = "pending" \/ Purged[i].status = "none"
                     THEN NoSource ELSE Unpaired(old)
  <2>1. old \in SourceRow
    BY <1>2
  <2>2. kept \in SourceRow /\ kept.code = None
    BY <1>1, <2>1 DEF SourceRow, Unpaired, NoSource, TokenOr
  <2> HIDE DEF kept
  <2>3. [kept EXCEPT !.status = IF @ = "none" THEN "pending" ELSE @, !.code = t] \in SourceRow
        /\ [kept EXCEPT !.status = IF @ = "none" THEN "pending" ELSE @, !.code = t].code = t
        /\ [kept EXCEPT !.code = t, !.drop = TRUE] \in SourceRow
        /\ [kept EXCEPT !.code = t, !.drop = TRUE].code = t
    BY <2>2 DEF SourceRow, TokenOr
  <2>4. PairedRow(i, t, want, dropped, c) =
          CASE c \in want -> [kept EXCEPT !.status = IF @ = "none" THEN "pending" ELSE @, !.code = t]
            [] c \in dropped /\ kept.status = "active" -> [kept EXCEPT !.code = t, !.drop = TRUE]
            [] OTHER -> kept
    BY DEF PairedRow, kept
  <2> QED
    BY <2>2, <2>3, <2>4
<1>11. source' = [j \in Inst |-> [c \in Client |->
           IF j = i THEN PairedRow(i, t, want, dropped, c)
           ELSE IF Purged[j].status = "none" THEN NoSource ELSE source[j][c]]]
  BY DEF StartRoute
<1>12. source' \in [Inst -> [Client -> SourceRow]]
  BY <1>1, <1>2, <1>10, <1>11
<1>13. ASSUME NEW j \in Inst, NEW c \in Client, source'[j][c].code # None
       PROVE  \/ j = i /\ source'[j][c].code = t
              \/ j # i /\ inst'[j] = inst[j] /\ source'[j][c] = source[j][c]
  <2>1. source'[j][c] = IF j = i THEN PairedRow(i, t, want, dropped, c)
                        ELSE IF Purged[j].status = "none" THEN NoSource ELSE source[j][c]
    BY <1>11
  <2>2. NoSource.code = None
    BY DEF NoSource
  <2> QED
    BY <1>3, <1>6, <1>8, <1>10, <1>13, <2>1, <2>2
<1> QED
  BY <1>6, <1>9, <1>12, <1>13

(* An approval makes the awaited token the device token. *)
LEMMA ApproveFields ==
  ASSUME PairingTypeOK, NEW i \in Inst, NEW t \in Token, ApproveRoute(i, t)
  PROVE  /\ inst' \in [Inst -> InstRow] /\ source' \in [Inst -> [Client -> SourceRow]]
         /\ inst[i].code = t /\ inst'[i].code = None /\ inst'[i].pend = None
         /\ inst'[i].poll = inst[i].poll /\ inst'[i].device = inst[i].pend
         /\ inst'[i].status = "active"
         /\ \A j \in Inst \ {i} : inst'[j] = inst[j]
         /\ \A j \in Inst, c \in Client : source'[j][c].code # None =>
              source'[j][c] = source[j][c] /\ (j = i => source[j][c].code # t)
<1>1. inst \in [Inst -> InstRow] /\ source \in [Inst -> [Client -> SourceRow]]
  BY DEF PairingTypeOK
<1>2. /\ inst[i].code = t
      /\ inst' = [inst EXCEPT ![i].status = "active", ![i].device = inst[i].pend,
                              ![i].pend = None, ![i].code = None]
  BY DEF ApproveRoute
<1>3. inst' = [inst EXCEPT ![i] = [inst[i] EXCEPT !.status = "active", !.device = inst[i].pend,
                                                  !.pend = None, !.code = None]]
  BY <1>1, <1>2
<1> DEFINE row == [inst[i] EXCEPT !.status = "active", !.device = inst[i].pend,
                                  !.pend = None, !.code = None]
<1>4. /\ row \in InstRow /\ row.code = None /\ row.pend = None /\ row.poll = inst[i].poll
      /\ row.device = inst[i].pend /\ row.status = "active"
  BY <1>1 DEF InstRow, TokenOr
<1> HIDE DEF row
<1>5. inst' = [inst EXCEPT ![i] = row]
  BY <1>3 DEF row
<1> DEFINE After(r) == IF r.code # t THEN r
                       ELSE [status |-> IF r.drop THEN "disconnected" ELSE "active",
                             code |-> None, drop |-> FALSE, used |-> r.used /\ ~r.drop]
<1>6. source' = [source EXCEPT ![i] = [c \in Client |-> After(source[i][c])]]
  BY DEF ApproveRoute, SourcesAfter
<1>7. \A r \in SourceRow : After(r) \in SourceRow /\ (After(r).code # None => After(r) = r /\ r.code # t)
  BY DEF SourceRow, TokenOr
<1> HIDE DEF After
<1>8. [c \in Client |-> After(source[i][c])] \in [Client -> SourceRow]
  BY <1>1, <1>7
<1>9. source' \in [Inst -> [Client -> SourceRow]]
  BY <1>1, <1>6, <1>8
<1>10. ASSUME NEW j \in Inst, NEW c \in Client, source'[j][c].code # None
       PROVE  source'[j][c] = source[j][c] /\ (j = i => source[j][c].code # t)
  <2>1. CASE j = i
    BY <1>1, <1>6, <1>7, <1>10, <2>1
  <2>2. CASE j # i
    BY <1>1, <1>6, <2>2
  <2> QED
    BY <2>1, <2>2
<1>11. inst' \in [Inst -> InstRow] /\ inst'[i] = row /\ \A j \in Inst \ {i} : inst'[j] = inst[j]
  BY <1>1, <1>4, <1>5
<1> QED
  BY <1>2, <1>4, <1>9, <1>10, <1>11

(* A cancellation empties the columns of the pairing, and revokes the      *)
(* device that this very pairing authorised.                               *)
LEMMA CancelFields ==
  ASSUME PairingTypeOK, NEW i \in Inst, NEW t, CancelRoute(i, t)
  PROVE  /\ inst' \in [Inst -> InstRow] /\ source' \in [Inst -> [Client -> SourceRow]]
         /\ inst[i].poll = t
         /\ inst'[i].code = None /\ inst'[i].pend = None /\ inst'[i].poll = None
         /\ inst[i].status # "active" \/ inst[i].device = t =>
              inst'[i].device = None /\ inst'[i].status = "revoked"
         /\ inst[i].status = "active" /\ inst[i].device # t =>
              inst'[i].device = inst[i].device /\ inst'[i].status = "active"
         /\ \A j \in Inst \ {i} : inst'[j] = inst[j]
         /\ \A j \in Inst, c \in Client : source'[j][c].code # None =>
              j # i /\ source'[j][c] = source[j][c]
<1>1. inst \in [Inst -> InstRow] /\ source \in [Inst -> [Client -> SourceRow]]
  BY DEF PairingTypeOK
<1> DEFINE revoke == inst[i].status # "active" \/ inst[i].device = t
           row == [inst[i] EXCEPT !.status = IF revoke THEN "revoked" ELSE @,
                                  !.device = IF revoke THEN None ELSE @,
                                  !.code = None, !.poll = None, !.pend = None, !.fresh = FALSE]
           After(r) == IF r.status = "pending" THEN NoSource
                       ELSE IF revoke /\ r.status = "active"
                            THEN [Unpaired(r) EXCEPT !.status = "disconnected"]
                            ELSE Unpaired(r)
<1>2. inst[i].poll = t
  BY DEF CancelRoute
<1>a. inst' = [inst EXCEPT ![i] = row]
  BY <1>1 DEF CancelRoute
<1>b. source' = [source EXCEPT ![i] = [c \in Client |-> After(source[i][c])]]
  BY DEF CancelRoute, SourcesAfter
<1>3. /\ row \in InstRow /\ row.code = None /\ row.pend = None /\ row.poll = None
      /\ revoke => row.device = None /\ row.status = "revoked"
      /\ ~revoke => row.device = inst[i].device /\ row.status = inst[i].status
  BY <1>1 DEF InstRow, TokenOr
<1>4. \A r \in SourceRow : After(r) \in SourceRow /\ After(r).code = None
  BY DEF SourceRow, TokenOr, NoSource, Unpaired
<1> HIDE DEF row, After
<1>c. inst' \in [Inst -> InstRow] /\ inst'[i] = row /\ \A j \in Inst \ {i} : inst'[j] = inst[j]
  BY <1>1, <1>3, <1>a
<1>5. [c \in Client |-> After(source[i][c])] \in [Client -> SourceRow]
  BY <1>1, <1>4
<1>6. source' \in [Inst -> [Client -> SourceRow]]
  BY <1>1, <1>b, <1>5
<1>7. ASSUME NEW j \in Inst, NEW c \in Client, source'[j][c].code # None
      PROVE  j # i /\ source'[j][c] = source[j][c]
  <2>1. j # i
    BY <1>1, <1>b, <1>4, <1>7
  <2> QED
    BY <1>1, <1>b, <2>1
<1> QED
  BY <1>2, <1>3, <1>c, <1>6, <1>7

(* The holder of the device token revokes the installation. *)
LEMMA RevokeFields ==
  ASSUME PairingTypeOK, NEW i \in Inst, RevokeSelf(i)
  PROVE  /\ inst' \in [Inst -> InstRow] /\ source' \in [Inst -> [Client -> SourceRow]]
         /\ inst'[i].code = None /\ inst'[i].pend = None /\ inst'[i].poll = None
         /\ inst'[i].device = None /\ inst'[i].status = "revoked"
         /\ \A j \in Inst \ {i} : inst'[j] = inst[j]
         /\ \A j \in Inst, c \in Client : source'[j][c].code # None =>
              j # i /\ source'[j][c] = source[j][c]
<1>1. inst \in [Inst -> InstRow] /\ source \in [Inst -> [Client -> SourceRow]]
  BY DEF PairingTypeOK
<1> DEFINE row == [NoInst EXCEPT !.status = "revoked"]
           After(r) == IF r.status = "pending" THEN NoSource
                       ELSE IF r.status = "active"
                            THEN [Unpaired(r) EXCEPT !.status = "disconnected"]
                            ELSE Unpaired(r)
<1>2. /\ inst' = [inst EXCEPT ![i] = row]
      /\ source' = [source EXCEPT ![i] = [c \in Client |-> After(source[i][c])]]
  BY DEF RevokeSelf, SourcesAfter
<1>3. /\ row \in InstRow /\ row.code = None /\ row.pend = None /\ row.poll = None
      /\ row.device = None /\ row.status = "revoked"
  BY DEF InstRow, TokenOr, NoInst
<1>4. \A r \in SourceRow : After(r) \in SourceRow /\ After(r).code = None
  BY DEF SourceRow, TokenOr, NoSource, Unpaired
<1> HIDE DEF row, After
<1>5. [c \in Client |-> After(source[i][c])] \in [Client -> SourceRow]
  BY <1>1, <1>4
<1>6. source' \in [Inst -> [Client -> SourceRow]]
  BY <1>1, <1>2, <1>5
<1>7. ASSUME NEW j \in Inst, NEW c \in Client, source'[j][c].code # None
      PROVE  j # i /\ source'[j][c] = source[j][c]
  <2>1. j # i
    BY <1>1, <1>2, <1>4, <1>7
  <2> QED
    BY <1>1, <1>2, <2>1
<1> QED
  BY <1>1, <1>2, <1>3, <1>6, <1>7

-----------------------------------------------------------------------------
(* The server *)

(* Tokens only leave the columns they are in; the device token alone may   *)
(* come from the awaited one.                                              *)
Fades ==
  /\ drawn \subseteq drawn'
  /\ \A i \in Inst :
       /\ (Columns(i))' \cap drawn \subseteq Columns(i)
       /\ inst'[i].pend \in drawn => inst'[i].pend = inst[i].pend
       /\ inst'[i].device \in drawn => inst'[i].device \in {inst[i].device, inst[i].pend}

(* A device token beside which another pairing is shown, or none. *)
Ownerless(i) == inst[i].device # None /\ inst[i].poll # inst[i].device
NoneOwnerless == \A i \in Inst : (Ownerless(i))' => Ownerless(i) /\ inst'[i].device = inst[i].device

ServerKept == ServerInv' /\ PendingBelongs' /\ Fades /\ NoneOwnerless

(* What a step other than a start does to a row: its columns are kept or   *)
(* emptied, or the awaited token becomes the device token.                 *)
RowFades(i) ==
  /\ inst'[i].device # None <=> inst'[i].status = "active"
  /\ inst'[i].poll \in {inst[i].poll, None} /\ inst'[i].code \in {inst[i].code, None}
  /\ \/ /\ inst'[i].pend = inst[i].pend /\ inst'[i].code = inst[i].code
        /\ inst'[i].poll = inst[i].poll
     \/ inst'[i].pend = None /\ inst'[i].code = None
  /\ \/ inst'[i].device = None
     \/ inst'[i].device = inst[i].device
        /\ (inst'[i].poll # inst[i].poll => inst[i].poll # inst[i].device)
     \/ inst'[i].device = inst[i].pend /\ inst[i].pend \in shown /\ inst'[i].pend = None
        /\ inst'[i].poll = inst[i].poll

(* Rows whose tokens only fade stay in order: a fading row shares no       *)
(* token that it did not share before, and leaves no device token          *)
(* orphaned.                                                               *)
LEMMA RowsFade ==
  ASSUME PairingTypeOK, ServerInv, UNCHANGED <<shown, drawn>>, \A i \in Inst : RowFades(i)
  PROVE  ServerInv' /\ Fades /\ NoneOwnerless
<1>1. None \notin drawn /\ None \notin shown /\ shown \subseteq drawn
  BY PairingAssumption DEF PairingTypeOK, ServerInv
<1>2. ASSUME NEW i \in Inst
      PROVE  /\ (RowOK(i))' /\ (Columns(i))' \subseteq Columns(i)
             /\ inst'[i].pend \in drawn => inst'[i].pend = inst[i].pend
             /\ inst'[i].device \in drawn => inst'[i].device \in {inst[i].device, inst[i].pend}
             /\ (Ownerless(i))' => Ownerless(i) /\ inst'[i].device = inst[i].device
  <2>1. RowOK(i) /\ RowFades(i)
    BY DEF ServerInv
  <2>2. (Columns(i))' \subseteq Columns(i)
    BY <2>1 DEF RowFades, Columns
  <2>3. (RowOK(i))'
    BY <1>1, <2>1, <2>2 DEF RowFades, RowOK
  <2>4. (Ownerless(i))' => Ownerless(i) /\ inst'[i].device = inst[i].device
    BY <1>1, <2>1 DEF RowFades, RowOK, Ownerless
  <2> QED
    BY <1>1, <2>1, <2>2, <2>3, <2>4 DEF RowFades
<1>3. ServerInv'
  BY <1>1, <1>2 DEF ServerInv
<1>4. Fades
  BY <1>2 DEF Fades
<1> QED
  BY <1>2, <1>3, <1>4 DEF NoneOwnerless

(* An approval in the browser. *)
LEMMA ApproveKept ==
  ASSUME PairingTypeOK, ServerInv, PendingBelongs, UNCHANGED <<shown, drawn>>,
         NEW i \in Inst, NEW t \in shown, ApproveRoute(i, t)
  PROVE  ServerKept /\ inst' \in [Inst -> InstRow] /\ source' \in [Inst -> [Client -> SourceRow]]
<1>1. t \in Token /\ t # None
  BY PairingAssumption DEF PairingTypeOK
<1>2. /\ inst' \in [Inst -> InstRow] /\ source' \in [Inst -> [Client -> SourceRow]]
      /\ inst[i].code = t /\ inst'[i].code = None /\ inst'[i].pend = None
      /\ inst'[i].poll = inst[i].poll /\ inst'[i].device = inst[i].pend
      /\ inst'[i].status = "active"
      /\ \A j \in Inst \ {i} : inst'[j] = inst[j]
      /\ \A j \in Inst, c \in Client : source'[j][c].code # None =>
           source'[j][c] = source[j][c] /\ (j = i => source[j][c].code # t)
  BY <1>1, ApproveFields
<1>3. \A j \in Inst : RowOK(j)
  BY DEF ServerInv
<1>4. ASSUME NEW j \in Inst
      PROVE  RowFades(j)
  <2>1. CASE j = i
    BY <1>1, <1>2, <1>3, <2>1 DEF RowOK, RowFades
  <2>2. CASE j # i
    BY <1>2, <1>3, <2>2 DEF RowOK, RowFades
  <2> QED
    BY <2>1, <2>2
<1>5. PendingBelongs'
  BY <1>2 DEF PendingBelongs
<1> QED
  BY <1>2, <1>4, <1>5, RowsFade DEF ServerKept

(* A cancellation, also one the server knows nothing about. *)
LEMMA CancelKept ==
  ASSUME PairingTypeOK, ServerInv, PendingBelongs, UNCHANGED <<shown, drawn>>,
         NEW t \in Token, CancelOrIgnore(t)
  PROVE  /\ ServerKept /\ inst' \in [Inst -> InstRow]
         /\ source' \in [Inst -> [Client -> SourceRow]]
         /\ \A i \in Inst : inst'[i].poll # t /\ (inst[i].poll = t => inst'[i].device # t)
         /\ \A i \in Inst : inst'[i].device = None \/ inst'[i].device = inst[i].device
<1>1. \A j \in Inst : RowOK(j)
  BY DEF ServerInv
<1>2. t # None
  BY PairingAssumption
<1>3. CASE \E i \in Inst : inst[i].poll = t
  <2>1. PICK i \in Inst : CancelRoute(i, t)
    BY <1>3 DEF CancelOrIgnore
  <2>2. /\ inst' \in [Inst -> InstRow] /\ source' \in [Inst -> [Client -> SourceRow]]
        /\ inst[i].poll = t
        /\ inst'[i].code = None /\ inst'[i].pend = None /\ inst'[i].poll = None
        /\ inst[i].status # "active" \/ inst[i].device = t =>
             inst'[i].device = None /\ inst'[i].status = "revoked"
        /\ inst[i].status = "active" /\ inst[i].device # t =>
             inst'[i].device = inst[i].device /\ inst'[i].status = "active"
        /\ \A j \in Inst \ {i} : inst'[j] = inst[j]
        /\ \A j \in Inst, c \in Client : source'[j][c].code # None =>
             j # i /\ source'[j][c] = source[j][c]
    BY <2>1, CancelFields
  <2>3. ASSUME NEW j \in Inst
        PROVE  RowFades(j)
    <3>1. CASE j = i
      BY <1>1, <1>2, <2>2, <3>1 DEF RowOK, RowFades
    <3>2. CASE j # i
      BY <1>1, <2>2, <3>2 DEF RowOK, RowFades
    <3> QED
      BY <3>1, <3>2
  <2>4. PendingBelongs'
    BY <2>2 DEF PendingBelongs
  <2>5. ASSUME NEW j \in Inst, j # i
        PROVE  inst[j].poll # t
    <3>1. t \in Columns(i) /\ Columns(i) \cap Columns(j) = {}
      BY <1>2, <2>2, <2>5 DEF ServerInv, Columns
    <3> QED
      BY <1>2, <3>1 DEF Columns
  <2> QED
    BY <1>1, <1>2, <2>2, <2>3, <2>4, <2>5, RowsFade DEF ServerKept
<1>4. CASE ~\E i \in Inst : inst[i].poll = t
  <2>1. UNCHANGED <<inst, source>>
    BY <1>4 DEF CancelOrIgnore, server
  <2>2. \A j \in Inst : RowFades(j)
    BY <1>1, <2>1 DEF RowOK, RowFades
  <2> QED
    BY <1>4, <2>1, <2>2, RowsFade DEF ServerKept, PendingBelongs, PairingTypeOK
<1> QED
  BY <1>3, <1>4

(* A revocation by the holder of the device token. *)
LEMMA RevokeKept ==
  ASSUME PairingTypeOK, ServerInv, PendingBelongs, UNCHANGED <<shown, drawn>>,
         NEW i \in Inst, RevokeSelf(i)
  PROVE  /\ ServerKept /\ inst' \in [Inst -> InstRow]
         /\ source' \in [Inst -> [Client -> SourceRow]]
         /\ inst'[i].pend = None /\ inst'[i].device = None
<1>1. \A j \in Inst : RowOK(j)
  BY DEF ServerInv
<1>2. /\ inst' \in [Inst -> InstRow] /\ source' \in [Inst -> [Client -> SourceRow]]
      /\ inst'[i].code = None /\ inst'[i].pend = None /\ inst'[i].poll = None
      /\ inst'[i].device = None /\ inst'[i].status = "revoked"
      /\ \A j \in Inst \ {i} : inst'[j] = inst[j]
      /\ \A j \in Inst, c \in Client : source'[j][c].code # None =>
           j # i /\ source'[j][c] = source[j][c]
  BY RevokeFields
<1>3. ASSUME NEW j \in Inst
      PROVE  RowFades(j)
  <2>1. CASE j = i
    BY <1>2, <2>1 DEF RowFades
  <2>2. CASE j # i
    BY <1>1, <1>2, <2>2 DEF RowOK, RowFades
  <2> QED
    BY <2>1, <2>2
<1>4. PendingBelongs'
  BY <1>2 DEF PendingBelongs
<1> QED
  BY <1>2, <1>3, <1>4, RowsFade DEF ServerKept

(* A revocation in the browser leaves the pairing columns as they are. *)
LEMMA BrowserKept ==
  ASSUME PairingTypeOK, ServerInv, PendingBelongs, RevokeInBrowser
  PROVE  ServerKept /\ inst' \in [Inst -> InstRow] /\ source' \in [Inst -> [Client -> SourceRow]]
<1>1. \A j \in Inst : RowOK(j)
  BY DEF ServerInv
<1>2. inst \in [Inst -> InstRow] /\ source \in [Inst -> [Client -> SourceRow]]
  BY DEF PairingTypeOK
<1>3. PICK i \in Inst :
        /\ inst' = [inst EXCEPT ![i].status = "revoked", ![i].device = None]
        /\ source' = [source EXCEPT ![i] = [c \in Client |->
             IF source[i][c].status = "active"
             THEN [source[i][c] EXCEPT !.status = "disconnected"] ELSE source[i][c]]]
  BY DEF RevokeInBrowser, SourcesAfter
<1> DEFINE row == [inst[i] EXCEPT !.status = "revoked", !.device = None]
           After(r) == IF r.status = "active" THEN [r EXCEPT !.status = "disconnected"] ELSE r
<1>4. inst' = [inst EXCEPT ![i] = row]
  BY <1>2, <1>3
<1>5. /\ row \in InstRow /\ row.code = inst[i].code /\ row.pend = inst[i].pend
      /\ row.poll = inst[i].poll /\ row.device = None /\ row.status = "revoked"
  BY <1>2 DEF InstRow, TokenOr
<1>6. source' = [source EXCEPT ![i] = [c \in Client |-> After(source[i][c])]]
  BY <1>3
<1>7. \A r \in SourceRow : After(r) \in SourceRow /\ After(r).code = r.code
  BY DEF SourceRow
<1> HIDE DEF row, After
<1>8. inst' \in [Inst -> InstRow] /\ inst'[i] = row /\ \A j \in Inst \ {i} : inst'[j] = inst[j]
  BY <1>2, <1>4, <1>5
<1>9. [c \in Client |-> After(source[i][c])] \in [Client -> SourceRow]
  BY <1>2, <1>7
<1>10. source' \in [Inst -> [Client -> SourceRow]]
  BY <1>2, <1>6, <1>9
<1>11. \A j \in Inst, c \in Client : source'[j][c].code = source[j][c].code
  <2>1. ASSUME NEW j \in Inst, NEW c \in Client
        PROVE  source'[j][c].code = source[j][c].code
    <3>1. CASE j = i
      BY <1>2, <1>6, <1>7, <3>1
    <3>2. CASE j # i
      BY <1>2, <1>6, <3>2
    <3> QED
      BY <3>1, <3>2
  <2> QED
    BY <2>1
<1>12. ASSUME NEW j \in Inst
       PROVE  RowFades(j) /\ inst'[j].code = inst[j].code
  <2>1. CASE j = i
    BY <1>5, <1>8, <2>1 DEF RowFades
  <2>2. CASE j # i
    BY <1>1, <1>8, <2>2 DEF RowOK, RowFades
  <2> QED
    BY <2>1, <2>2
<1>13. PendingBelongs'
  BY <1>11, <1>12 DEF PendingBelongs
<1>14. UNCHANGED <<shown, drawn>>
  BY DEF RevokeInBrowser
<1> QED
  BY <1>8, <1>10, <1>12, <1>13, <1>14, RowsFade DEF ServerKept

(* The ten minutes of a pairing pass. *)
LEMMA ExpireKept ==
  ASSUME PairingTypeOK, ServerInv, PendingBelongs, Expire
  PROVE  ServerKept /\ inst' \in [Inst -> InstRow]
<1>1. \A j \in Inst : RowOK(j)
  BY DEF ServerInv
<1>2. inst \in [Inst -> InstRow]
  BY DEF PairingTypeOK
<1>3. PICK i \in Inst : inst' = [inst EXCEPT ![i].fresh = FALSE]
  BY DEF Expire
<1> DEFINE row == [inst[i] EXCEPT !.fresh = FALSE]
<1>4. inst' = [inst EXCEPT ![i] = row]
  BY <1>2, <1>3
<1>5. /\ row \in InstRow /\ row.code = inst[i].code /\ row.pend = inst[i].pend
      /\ row.poll = inst[i].poll /\ row.device = inst[i].device /\ row.status = inst[i].status
  BY <1>2 DEF InstRow
<1> HIDE DEF row
<1>6. inst' \in [Inst -> InstRow] /\ inst'[i] = row /\ \A j \in Inst \ {i} : inst'[j] = inst[j]
  BY <1>2, <1>4, <1>5
<1>7. ASSUME NEW j \in Inst
      PROVE  RowFades(j) /\ inst'[j].code = inst[j].code
  <2>1. CASE j = i
    BY <1>1, <1>5, <1>6, <2>1 DEF RowOK, RowFades
  <2>2. CASE j # i
    BY <1>1, <1>6, <2>2 DEF RowOK, RowFades
  <2> QED
    BY <2>1, <2>2
<1>8. UNCHANGED <<source, shown, drawn>>
  BY DEF Expire
<1>9. PendingBelongs'
  BY <1>7, <1>8 DEF PendingBelongs
<1> QED
  BY <1>6, <1>7, <1>8, <1>9, RowsFade DEF ServerKept

(* A step that leaves the rows of the installations alone, and the codes   *)
(* of the sources.                                                         *)
LEMMA RestKept ==
  ASSUME PairingTypeOK, ServerInv, PendingBelongs, UNCHANGED <<inst, shown, drawn>>,
         \A i \in Inst, c \in Client : source'[i][c].code = source[i][c].code
  PROVE  ServerKept
<1>1. \A j \in Inst : RowFades(j)
  BY DEF ServerInv, RowOK, RowFades
<1> QED
  BY <1>1, RowsFade DEF ServerKept, PendingBelongs

(* Deleting a source and uploading touch no installation and no approval   *)
(* code of a source.                                                       *)
LEMMA SourceKept ==
  ASSUME PairingTypeOK, NEW i \in Inst, NEW c \in Client,
         DeleteSource(i, c) \/ UploadRoute(i, c)
  PROVE  /\ inst' = inst /\ source' \in [Inst -> [Client -> SourceRow]]
         /\ \A j \in Inst, d \in Client : source'[j][d].code = source[j][d].code
<1>1. source \in [Inst -> [Client -> SourceRow]] /\ inst' = inst
  BY DEF PairingTypeOK, DeleteSource, UploadRoute
<1>2. PICK row \in SourceRow : row.code = source[i][c].code
                               /\ source' = [source EXCEPT ![i][c] = row]
  <2>1. source[i][c] \in SourceRow
    BY <1>1
  <2> DEFINE gone == [source[i][c] EXCEPT !.status = "disconnected"]
             used == [source[i][c] EXCEPT !.used = TRUE]
  <2>2. gone \in SourceRow /\ used \in SourceRow /\ gone.code = source[i][c].code
        /\ used.code = source[i][c].code
    BY <2>1 DEF SourceRow
  <2>3. source' \in {source, [source EXCEPT ![i][c] = gone], [source EXCEPT ![i][c] = used]}
    BY <1>1 DEF DeleteSource, UploadRoute
  <2>4. source = [source EXCEPT ![i][c] = source[i][c]]
    BY <1>1
  <2> HIDE DEF gone, used
  <2> QED
    BY <2>1, <2>2, <2>3, <2>4
<1> QED
  BY <1>1, <1>2
(* A start draws a fresh token and writes it over the pairing before it.   *)
LEMMA StartKept ==
  ASSUME PairingTypeOK, ServerInv, PendingBelongs, NEW i \in Inst, NEW t \in Token \ drawn,
         NEW want, NEW dropped, StartRoute(i, t, want, dropped),
         drawn' = drawn \cup {t}, shown' = shown
  PROVE  /\ ServerInv' /\ PendingBelongs' /\ Fades
         /\ inst' \in [Inst -> InstRow] /\ source' \in [Inst -> [Client -> SourceRow]]
         /\ \A j \in Inst \ {i} : t \notin (Columns(j))'
         /\ inst'[i].device = inst[i].device /\ inst'[i].poll = t
         /\ \A j \in Inst \ {i} : inst'[j] = inst[j] \/ inst'[j].device = None
<1>1. /\ inst' \in [Inst -> InstRow] /\ source' \in [Inst -> [Client -> SourceRow]]
      /\ inst'[i].code = t /\ inst'[i].poll = t /\ inst'[i].pend = t
      /\ inst'[i].device \in {inst[i].device, None} /\ inst'[i].status \in {"active", "pending"}
      /\ inst[i].status = "active" => inst'[i].device = inst[i].device
      /\ inst'[i].status = "active" <=> inst[i].status = "active"
      /\ \A j \in Inst \ {i} :
           inst'[j] = inst[j] \/ (inst'[j] = NoInst /\ inst[j].status = "pending")
      /\ \A j \in Inst, c \in Client : source'[j][c].code # None =>
           (j = i /\ source'[j][c].code = t) \/ (j # i /\ inst'[j] = inst[j] /\ source'[j][c] = source[j][c])
  BY StartFields
<1>2. t # None /\ None \notin drawn /\ None \notin shown
  BY PairingAssumption DEF PairingTypeOK
<1>3. \A j \in Inst : RowOK(j)
  BY DEF ServerInv
<1>4. inst'[i].device = inst[i].device /\ (inst'[i].device # None <=> inst'[i].status = "active")
  BY <1>1, <1>3 DEF RowOK
<1>5. (Columns(i))' \subseteq {t} \cup Columns(i)
  BY <1>1, <1>4 DEF Columns
<1>6. (RowOK(i))'
  BY <1>1, <1>3, <1>4, <1>5 DEF RowOK
<1>7. ASSUME NEW j \in Inst, j # i
      PROVE  (RowOK(j))' /\ (Columns(j))' \subseteq Columns(j) /\ t \notin (Columns(j))'
             /\ (inst'[j] = inst[j] \/ (inst'[j].device = None /\ inst'[j].pend = None))
  <2>1. CASE inst'[j] = inst[j]
    BY <1>3, <2>1 DEF RowOK, Columns
  <2>2. CASE inst'[j] = NoInst
    BY <1>2, <2>2 DEF RowOK, Columns, NoInst
  <2> QED
    BY <1>1, <1>7, <2>1, <2>2
<1>8. ServerInv'
  <2>1. ASSUME NEW j \in Inst, NEW k \in Inst, j # k
        PROVE  (Columns(j))' \cap (Columns(k))' = {}
    <3>1. Columns(j) \cap Columns(k) = {} /\ t \notin Columns(j) /\ t \notin Columns(k)
      BY <1>3, <2>1 DEF ServerInv, RowOK
    <3>2. CASE j = i
      BY <1>5, <1>7, <2>1, <3>1, <3>2
    <3>3. CASE k = i
      BY <1>5, <1>7, <2>1, <3>1, <3>3
    <3>4. CASE j # i /\ k # i
      BY <1>7, <3>1, <3>4
    <3> QED
      BY <3>2, <3>3, <3>4
  <2>2. \A j \in Inst : (RowOK(j))'
    BY <1>6, <1>7
  <2>3. shown' \subseteq drawn'
    BY DEF ServerInv
  <2> QED
    BY <2>1, <2>2, <2>3 DEF ServerInv
<1>9. Fades
  <2>1. ASSUME NEW j \in Inst
        PROVE  /\ (Columns(j))' \cap drawn \subseteq Columns(j)
               /\ inst'[j].pend \in drawn => inst'[j].pend = inst[j].pend
               /\ inst'[j].device \in drawn => inst'[j].device \in {inst[j].device, inst[j].pend}
    <3>1. CASE j = i
      BY <1>1, <1>4, <1>5, <3>1
    <3>2. CASE j # i
      BY <1>2, <1>7, <3>2
    <3> QED
      BY <3>1, <3>2
  <2> QED
    BY <2>1 DEF Fades
<1>10. PendingBelongs'
  <2>1. ASSUME NEW j \in Inst, NEW c \in Client, source'[j][c].code # None
        PROVE  source'[j][c].code = inst'[j].code
    BY <1>1, <2>1 DEF PendingBelongs
  <2> QED
    BY <2>1 DEF PendingBelongs
<1>11. \A j \in Inst \ {i} : inst'[j] = inst[j] \/ inst'[j].device = None
  BY <1>7
<1> QED
  BY <1>1, <1>4, <1>7, <1>8, <1>9, <1>10, <1>11

(* What is true of a drawn token once stays so. *)
LEMMA Stable ==
  ASSUME PairingTypeOK, Fades, NEW t \in drawn
  PROVE  /\ t \in drawn'
         /\ Spent(t) => (Spent(t))'
         /\ ~Alive(t) => ~(Alive(t))'
         /\ \A i \in Inst : Belongs(t, i) => (Belongs(t, i))'
         /\ \A i \in Inst : TokenOf(t, i) => (TokenOf(t, i))'
<1>1. Spent(t) => (Spent(t))'
  BY DEF Fades, Spent
<1>2. ~Alive(t) => ~(Alive(t))'
  BY DEF Fades, Alive
<1>3. \A i \in Inst : Belongs(t, i) => (Belongs(t, i))'
  BY DEF Fades, Belongs
<1>4. t \in drawn'
  BY DEF Fades
<1> QED
  BY <1>1, <1>2, <1>3, <1>4 DEF TokenOf
(* The answered or unanswered cancellation of a token. *)
LEMMA SendCancelKept ==
  ASSUME PairingTypeOK, ServerInv, PendingBelongs, UNCHANGED <<shown, drawn>>,
         NEW t \in TokenOr, SendCancel(t)
  PROVE  /\ ServerKept /\ inst' \in [Inst -> InstRow]
         /\ source' \in [Inst -> [Client -> SourceRow]]
         /\ unsure' \in {unsure, unsure \cup {t}} /\ unsure' \subseteq Token
         /\ \A i \in Inst : inst'[i].device \in {None, inst[i].device}
         /\ t # None => t \in unsure' \/ \A i \in Inst : inst'[i].poll # t
<1>1. CASE t = None
  <2>1. UNCHANGED <<inst, source, unsure>>
    BY <1>1 DEF SendCancel, server
  <2> QED
    BY <1>1, <2>1, RestKept DEF PairingTypeOK
<1>2. CASE t # None
  <2>1. t \in Token
    BY <1>2 DEF TokenOr
  <2>2. CASE CancelOrIgnore(t) /\ UNCHANGED unsure
    BY <2>1, <2>2, CancelKept DEF PairingTypeOK
  <2>3. CASE unsure' = unsure \cup {t} /\ UNCHANGED server
    <3>1. UNCHANGED <<inst, source>>
      BY <2>3 DEF server
    <3> QED
      BY <2>1, <2>3, <3>1, RestKept DEF PairingTypeOK
  <2> QED
    BY <1>2, <2>2, <2>3 DEF SendCancel
<1> QED
  BY <1>1, <1>2

Quiet == UNCHANGED <<inst, source, shown, drawn>>

(* The steps that concern the computer alone. *)
LEMMA QuietSteps ==
  ASSUME NEW p,
         \/ RecoverCommit \/ Rejected
         \/ Reconcile(p) \/ Detect(p) \/ Prepare(p) \/ Identify(p) \/ Begin(p) \/ BeginStale(p)
         \/ PollActive(p) \/ PollFails(p) \/ Commit(p) \/ WriteConfig(p) \/ WriteSources(p)
         \/ UnlinkJournal(p) \/ UnlinkAttempt(p) \/ Hooks(p) \/ Clear(p)
         \/ Command(p) \/ Disable(p) \/ ResetLocal(p) \/ AddSource(p) \/ WriteWithout(p)
         \/ DropSource(p) \/ Crash(p)
  PROVE  Quiet
<1>1. CASE RecoverCommit \/ Rejected
  BY <1>1 DEF RecoverCommit, Rejected, Quiet, server
<1>2. CASE \/ Reconcile(p) \/ Detect(p) \/ Prepare(p) \/ Identify(p) \/ Begin(p) \/ BeginStale(p)
           \/ PollActive(p) \/ PollFails(p) \/ Commit(p) \/ WriteConfig(p) \/ WriteSources(p)
           \/ UnlinkJournal(p) \/ UnlinkAttempt(p) \/ Hooks(p) \/ Clear(p)
  BY <1>2 DEF Reconcile, Detect, Prepare, Identify, Begin, BeginStale, PollActive, PollFails,
              Commit, WriteConfig, WriteSources, UnlinkJournal, UnlinkAttempt, Hooks, Clear,
              Quiet, server
<1>3. CASE \/ Command(p) \/ Disable(p) \/ ResetLocal(p) \/ AddSource(p) \/ WriteWithout(p)
           \/ DropSource(p) \/ Crash(p)
  BY <1>3 DEF Command, Disable, ResetLocal, AddSource, WriteWithout, DropSource, Crash,
              Quiet, server
<1> QED
  BY <1>1, <1>2, <1>3

(* Each step keeps the rows of the server in order, and its tokens fade. *)
ServerGoes ==
  /\ ServerInv' /\ PendingBelongs' /\ Fades
  /\ inst' \in [Inst -> InstRow] /\ source' \in [Inst -> [Client -> SourceRow]]

(* A step of the computer alone leaves the server in order. *)
LEMMA QuietGoes ==
  ASSUME PairingTypeOK, ServerInv, PendingBelongs, Quiet
  PROVE  ServerGoes /\ NoneOwnerless
<1>1. UNCHANGED <<inst, source, shown, drawn>>
  BY DEF Quiet
<1> QED
  BY <1>1, RestKept DEF ServerGoes, ServerKept, PairingTypeOK

(* A request with the token of the configuration. *)
LEMMA SendKept ==
  ASSUME PairingTypeOK, ServerInv, PendingBelongs, UNCHANGED <<shown, drawn>>,
         NEW p \in Cmd,
         \/ Send(RevokeSelf)
         \/ UNCHANGED <<server, unsure>>
         \/ my[p].which \in Client /\ Send(LAMBDA i : DeleteSource(i, my[p].which))
  PROVE  ServerGoes /\ NoneOwnerless /\ unsure' \subseteq Token /\ unsure \subseteq unsure'
<1>1. CASE UNCHANGED <<inst, source>> /\ unsure' \subseteq Token /\ unsure \subseteq unsure'
  BY <1>1, RestKept DEF ServerGoes, ServerKept, PairingTypeOK
<1>2. CASE Send(RevokeSelf)
  <2>1. CASE UNCHANGED <<server, unsure>>
    BY <1>1, <2>1 DEF server, PairingTypeOK
  <2>2. CASE config # None /\ RevokeSelf(config.inst) /\ UNCHANGED unsure
    <3>1. config.inst \in Inst
      BY <2>2 DEF PairingTypeOK, Config
    <3> QED
      BY <2>2, <3>1, RevokeKept DEF ServerGoes, ServerKept, PairingTypeOK
  <2>3. CASE config # None /\ unsure' = unsure \cup {config.token} /\ UNCHANGED server
    BY <1>1, <2>3 DEF server, PairingTypeOK, Config
  <2> QED
    BY <1>2, <2>1, <2>2, <2>3 DEF Send
<1>3. CASE my[p].which \in Client /\ Send(LAMBDA i : DeleteSource(i, my[p].which))
  <2>1. CASE UNCHANGED <<server, unsure>>
    BY <1>1, <2>1 DEF server, PairingTypeOK
  <2>2. CASE config # None /\ DeleteSource(config.inst, my[p].which) /\ UNCHANGED unsure
    <3>1. config.inst \in Inst
      BY <2>2 DEF PairingTypeOK, Config
    <3> QED
      BY <1>3, <2>2, <3>1, SourceKept, RestKept DEF ServerGoes, ServerKept, PairingTypeOK
  <2>3. CASE config # None /\ unsure' = unsure \cup {config.token} /\ UNCHANGED server
    BY <1>1, <2>3 DEF server, PairingTypeOK, Config
  <2> QED
    BY <1>3, <2>1, <2>2, <2>3 DEF Send
<1>4. CASE UNCHANGED <<server, unsure>>
  BY <1>1, <1>4 DEF server, PairingTypeOK
<1> QED
  BY <1>2, <1>3, <1>4

(* Only a start puts another pairing beside a device token.                *)
Restarted ==
  \E p \in Conn, t \in Token : (Start(p) \/ StartFails(p)) /\ RequestStart(p, t)

(* Every step leaves the server in order, and one after which a device     *)
(* token stands beside another pairing is a restart of that pairing.       *)
LEMMA ServerStep ==
  ASSUME PairingTypeOK, ServerInv, PendingBelongs, ConnInv, PairingNext
  PROVE  ServerGoes /\ (NoneOwnerless \/ Restarted)
<1>1. CASE Approve \/ RevokeInBrowser \/ Expire
  <2>1. CASE Approve
    <3>1. PICK i \in Inst, t \in shown : ApproveRoute(i, t)
      BY <2>1 DEF Approve
    <3> QED
      BY <2>1, <3>1, ApproveKept DEF Approve, ServerGoes, ServerKept
  <2>2. CASE RevokeInBrowser
    BY <2>2, BrowserKept DEF ServerGoes, ServerKept
  <2>3. CASE Expire
    BY <2>3, ExpireKept DEF ServerGoes, ServerKept, Expire, PairingTypeOK
  <2> QED
    BY <1>1, <2>1, <2>2, <2>3
<1>2. CASE DisconnectInBrowser \/ Sync
  <2>1. PICK i \in Inst, c \in Client : DeleteSource(i, c) \/ UploadRoute(i, c)
    BY <1>2 DEF DisconnectInBrowser, Sync, PairingTypeOK, Config
  <2>2. UNCHANGED <<shown, drawn>>
    BY <1>2 DEF DisconnectInBrowser, Sync
  <2>3. /\ inst' = inst /\ source' \in [Inst -> [Client -> SourceRow]]
        /\ \A j \in Inst, d \in Client : source'[j][d].code = source[j][d].code
    BY <2>1, SourceKept
  <2> QED
    BY <2>2, <2>3, RestKept DEF ServerGoes, ServerKept, PairingTypeOK
<1>3. CASE RecoverCommit \/ Rejected
  BY <1>3, QuietSteps, QuietGoes
<1>4. ASSUME NEW p \in Conn, ConnectStep(p)
      PROVE  ServerGoes /\ (NoneOwnerless \/ Restarted)
  <2>1. /\ my[p] \in Memory /\ my[p].tok \in TokenOr
        /\ (pc[p] = "start" => my[p].id \in Inst)
        /\ (pc[p] = "record" => my[p].tok \in drawn)
    BY <1>4 DEF PairingTypeOK, Proc, Memory, ConnInv, ConnOK, Started
  <2>2. CASE CancelOld(p) \/ Abort(p)
    <3>1. SendCancel(my[p].tok) /\ UNCHANGED <<shown, drawn>>
      BY <2>2 DEF CancelOld, Abort
    <3> QED
      BY <2>1, <3>1, SendCancelKept DEF ServerGoes, ServerKept
  <2>3. CASE Start(p) \/ StartFails(p)
    <3>1. pc[p] = "start" /\ shown' = shown
      BY <2>3 DEF Start, StartFails, Goto
    <3>2. CASE Quiet
      BY <3>2, QuietGoes
    <3>3. CASE \E t \in Token : RequestStart(p, t)
      <4>1. PICK t \in Token \ drawn :
              /\ RequestStart(p, t) /\ drawn' = drawn \cup {t}
              /\ StartRoute(my[p].id, t, my[p].want, my[p].expected \ my[p].local)
        BY <3>3 DEF RequestStart
      <4> QED
        BY <2>1, <2>3, <3>1, <4>1, StartKept DEF ServerGoes, Restarted
    <3> QED
      BY <2>3, <3>1, <3>2, <3>3 DEF Start, StartFails, Quiet, server
  <2>4. CASE Record(p)
    <3>1. UNCHANGED <<inst, source, drawn>> /\ (shown' = shown \/ shown' = shown \cup {my[p].tok})
          /\ pc[p] = "record"
      BY <2>4 DEF Record, server
    <3>2. shown \subseteq shown' /\ shown' \subseteq drawn'
      BY <2>1, <3>1 DEF ServerInv
    <3>3. ServerInv'
      BY <3>1, <3>2 DEF ServerInv, RowOK, Columns
    <3> QED
      BY <3>1, <3>3
         DEF ServerGoes, PendingBelongs, PairingTypeOK, Fades, Columns, NoneOwnerless, Ownerless
  <2> QED
    BY <1>4, <2>2, <2>3, <2>4, QuietSteps, QuietGoes DEF ConnectStep
<1>5. ASSUME NEW p \in Cmd, CommandStep(p)
      PROVE  ServerGoes /\ (NoneOwnerless \/ Restarted)
  <2>1. my[p].tok \in TokenOr
    BY DEF PairingTypeOK, Proc, Memory
  <2>2. CASE CancelFirst(p)
    <3>1. SendCancel(my[p].tok) /\ UNCHANGED <<shown, drawn>>
      BY <2>2 DEF CancelFirst
    <3> QED
      BY <2>1, <3>1, SendCancelKept DEF ServerGoes, ServerKept
  <2>3. CASE Revoke(p)
    BY <2>3, SendKept DEF Revoke
  <2>4. CASE RemoveRemote(p)
    <3>1. UNCHANGED <<shown, drawn>>
      BY <2>4 DEF RemoveRemote
    <3>2. \/ UNCHANGED <<server, unsure>>
          \/ my[p].which \in Client /\ Send(LAMBDA i : DeleteSource(i, my[p].which))
      BY <2>4 DEF RemoveRemote, PairingTypeOK, Config
    <3> QED
      BY <3>1, <3>2, SendKept
  <2> QED
    BY <1>5, <2>2, <2>3, <2>4, QuietSteps, QuietGoes DEF CommandStep
<1>6. ASSUME NEW p \in Proc, Crash(p)
      PROVE  ServerGoes /\ (NoneOwnerless \/ Restarted)
  BY <1>6, QuietSteps, QuietGoes
<1> QED
  BY <1>1, <1>2, <1>3, <1>4, <1>5, <1>6 DEF PairingNext, PairingStep
-----------------------------------------------------------------------------
(* Every step is well typed. *)

(* What a process remembers stays well typed when one of its fields is     *)
(* set.                                                                    *)
LEMMA Memories ==
  ASSUME NEW m \in Memory
  PROVE  /\ Blank \in Memory
         /\ \A t \in TokenOr : [m EXCEPT !.tok = t] \in Memory
         /\ \A i \in Inst : [m EXCEPT !.id = i] \in Memory
         /\ [m EXCEPT !.began = TRUE] \in Memory
         /\ \A e, l, w \in SUBSET Client :
              [m EXCEPT !.expected = e, !.local = l, !.want = w] \in Memory
         /\ \A c \in Config, i \in Inst \cup {None} :
              [Blank EXCEPT !.snap = c, !.id = i] \in Memory
         /\ \A c \in Client, t \in TokenOr : [Blank EXCEPT !.which = c, !.tok = t] \in Memory
<1>1. Blank \in Memory
  BY DEF Blank, Memory, TokenOr
<1>2. /\ \A t \in TokenOr : [m EXCEPT !.tok = t] \in Memory
      /\ \A i \in Inst : [m EXCEPT !.id = i] \in Memory
      /\ [m EXCEPT !.began = TRUE] \in Memory
  BY DEF Memory
<1>3. \A e, l, w \in SUBSET Client :
        [m EXCEPT !.expected = e, !.local = l, !.want = w] \in Memory
  BY DEF Memory
<1>4. /\ \A c \in Config, i \in Inst \cup {None} : [Blank EXCEPT !.snap = c, !.id = i] \in Memory
      /\ \A c \in Client, t \in TokenOr : [Blank EXCEPT !.which = c, !.tok = t] \in Memory
  BY <1>1 DEF Memory
<1> QED
  BY <1>1, <1>2, <1>3, <1>4

(* The variables of the connector, apart from what each process knows. *)
DiskOK ==
  /\ identity \in Inst \cup {None} /\ config \in Config \cup {None}
  /\ journal \in Journal \cup {None} /\ attempt \in Attempt \cup {None}
  /\ registry \subseteq Client /\ lock \in Proc \cup {None} /\ unsure \subseteq Token
  /\ cmds \in 0 .. MaxCmds

(* The journal of a commit is a file's contents. *)
LEMMA CommitWrites ==
  ASSUME PairingTypeOK, ConnInv, NEW p \in Conn, Commit(p), CurrentAttempt(p)
  PROVE  journal' \in Journal /\ journal' # None
<1>1. my[p] \in Memory /\ attempt \in Attempt \cup {None}
  BY DEF PairingTypeOK, Proc
<1>2. /\ attempt \in Attempt /\ my[p].local \in SUBSET Client
      /\ my[p].id \in Inst /\ my[p].tok \in Token
  BY <1>1 DEF CurrentAttempt, SameAttempt, ConnInv, ConnOK, Started, Commit, Memory, TokenOr
<1>3. Pairable(p) \in SUBSET Client
  BY <1>1 DEF Pairable, Memory, Config
<1>4. [inst |-> my[p].id, token |-> my[p].tok, srcs |-> Pairable(p)] \in Config
  BY <1>2, <1>3 DEF Config
<1>5. journal' \in Journal
  BY <1>2, <1>4 DEF Commit, Journal
<1> QED
  BY <1>5, AbsentAssumption

(* Every step keeps the types. Tokens of an attempt, a journal or a        *)
(* memory are the tokens of a row the server has, or none.                 *)
LEMMA TypeStep ==
  ASSUME PairingTypeOK, ServerInv, PendingBelongs, ConnInv, CmdInv, LockInv,
         ServerGoes, PairingNext
  PROVE  PairingTypeOK'
<1>1. ServerInv' /\ inst' \in [Inst -> InstRow] /\ source' \in [Inst -> [Client -> SourceRow]]
  BY DEF ServerGoes
<1> SUFFICES /\ DiskOK' /\ pc' \in [Proc -> PCs] /\ my' \in [Proc -> Memory]
             /\ drawn' \subseteq Token
  BY <1>1 DEF PairingTypeOK, DiskOK, ServerInv
<1>2. /\ DiskOK /\ pc \in [Proc -> PCs] /\ my \in [Proc -> Memory] /\ drawn \subseteq Token
      /\ shown \subseteq Token
  BY DEF PairingTypeOK, DiskOK
<1>3. ASSUME NEW p \in Conn, ConnectStep(p)
      PROVE  DiskOK' /\ pc' \in [Proc -> PCs] /\ my' \in [Proc -> Memory] /\ drawn' \subseteq Token
  <2>0. p \in Proc /\ my[p] \in Memory
    BY <1>2 DEF Proc
  <2>m. /\ Blank \in Memory
        /\ \A t \in TokenOr : [my[p] EXCEPT !.tok = t] \in Memory
        /\ \A i \in Inst : [my[p] EXCEPT !.id = i] \in Memory
        /\ [my[p] EXCEPT !.began = TRUE] \in Memory
        /\ \A e, l, w \in SUBSET Client :
             [my[p] EXCEPT !.expected = e, !.local = l, !.want = w] \in Memory
        /\ \A c \in Config, i \in Inst \cup {None} :
             [Blank EXCEPT !.snap = c, !.id = i] \in Memory
    BY <2>0, Memories
  <2>1. CASE Reconcile(p)
    <3>1. pc' \in [Proc -> PCs] /\ drawn' \subseteq Token
      BY <1>2, <2>0, <2>1 DEF Reconcile, Goto, PCs
    <3>2. Dropped \subseteq Token
      BY <1>2 DEF DiskOK, Dropped, Attempt, TokenOr
    <3>3. CASE config = None \/ ~Authorized(config.inst, config.token)
      BY <1>2, <2>0, <2>m, <2>1, <3>1, <3>2, <3>3
         DEF Reconcile, DiskOK, Block, Remember, files, DisableLocal, RemoveConfig
    <3>4. CASE config # None /\ Authorized(config.inst, config.token)
      <4> DEFINE kept == {c \in config.srcs : source[config.inst][c].status # "disconnected"}
                 next == [config EXCEPT !.srcs = kept]
      <4>1. next \in Config
        BY <1>2, <3>4 DEF DiskOK, Config
      <4>2. /\ identity = config.inst /\ config' = next
            /\ attempt' \in {attempt, None} /\ unsure' \in {unsure, unsure \cup Dropped}
            /\ my' = [my EXCEPT ![p] = [Blank EXCEPT !.snap = next, !.id = identity]]
            /\ UNCHANGED <<identity, journal, registry, lock, cmds>>
        BY <2>1, <3>4 DEF Reconcile, Block, Remember
      <4> HIDE DEF next
      <4> QED
        BY <1>2, <2>0, <2>m, <3>1, <3>2, <4>1, <4>2 DEF DiskOK
    <3> QED
      BY <3>3, <3>4
  <2>2. CASE Detect(p)
    <3>1. PICK local \in SUBSET Client, exact \in SUBSET Client :
            my' = [my EXCEPT ![p] = [my[p] EXCEPT !.expected = registry, !.local = local,
                                                  !.want = exact]]
      BY <2>2 DEF Detect, Remember
    <3>2. my' \in [Proc -> Memory]
      BY <1>2, <2>0, <2>m, <3>1 DEF DiskOK
    <3> QED
      BY <1>2, <2>0, <2>2, <3>2 DEF Detect, DiskOK, Goto, PCs, files
  <2>3. CASE Prepare(p)
    <3>1. PICK t \in TokenOr : my' = [my EXCEPT ![p] = [my[p] EXCEPT !.tok = t]]
      BY <1>2, <2>0, <2>3 DEF Prepare, Invalidate, DiskOK, Attempt, TokenOr
    <3>2. my' \in [Proc -> Memory]
      BY <1>2, <2>0, <2>m, <3>1
    <3> QED
      BY <1>2, <2>0, <2>3, <3>2 DEF Prepare, Invalidate, Enter, DiskOK, Goto, PCs
  <2>4. CASE CancelOld(p) \/ Abort(p)
    <3>1. my[p].tok \in TokenOr /\ SendCancel(my[p].tok) /\ UNCHANGED <<shown, drawn>>
      BY <2>0, <2>4 DEF CancelOld, Abort, Memory
    <3>2. unsure' \subseteq Token
      BY <3>1, SendCancelKept
    <3>3. my' \in {my, [my EXCEPT ![p] = [my[p] EXCEPT !.tok = None]]}
      BY <1>2, <2>0, <2>4 DEF CancelOld, Abort
    <3>4. my' \in [Proc -> Memory]
      BY <1>2, <2>0, <2>m, <3>3 DEF TokenOr
    <3> QED
      BY <1>2, <2>0, <2>4, <3>2, <3>4 DEF CancelOld, Abort, Leave, DiskOK, Goto, PCs, files
  <2>5. CASE Identify(p)
    <3>1. PICK i \in Inst : /\ my' \in {my, [my EXCEPT ![p] = [my[p] EXCEPT !.id = i]]}
                            /\ identity' \in {i, identity}
      BY <1>2, <2>0, <2>5 DEF Identify, DiskOK, Memory
    <3>2. my' \in [Proc -> Memory]
      BY <1>2, <2>0, <2>m, <3>1
    <3> QED
      BY <1>2, <2>0, <2>5, <3>1, <3>2 DEF Identify, Block, DiskOK, Goto, PCs
  <2>6. CASE Begin(p)
    <3>1. my' = [my EXCEPT ![p] = [my[p] EXCEPT !.began = TRUE]]
      BY <1>2, <2>0, <2>6 DEF Begin
    <3>2. my' \in [Proc -> Memory]
      BY <1>2, <2>0, <2>m, <3>1
    <3>3. identity \in Inst
      BY <2>6 DEF Begin, AsRead, ConnInv, ConnOK, Goto
    <3>4. attempt' \in Attempt /\ unsure' \subseteq Token
      BY <1>2, <2>6, <3>3 DEF Begin, DiskOK, Dropped, Attempt, TokenOr
    <3> QED
      BY <1>2, <2>0, <2>6, <3>2, <3>4 DEF Begin, Block, DiskOK, Goto, PCs
  <2>7. CASE BeginStale(p)
    BY <1>2, <2>0, <2>m, <2>7 DEF BeginStale, Block, DiskOK, Goto, PCs, files
  <2>8. CASE Start(p) \/ StartFails(p)
    <3>1. unsure' \subseteq Token /\ drawn' \subseteq Token
      <4>1. inst[my[p].id].poll \in TokenOr
        BY <2>8 DEF Start, StartFails, Goto, ConnInv, ConnOK, Started, PairingTypeOK, InstRow
      <4>2. CASE UNCHANGED <<drawn, unsure>>
        BY <1>2, <4>2 DEF DiskOK
      <4>3. CASE \E t \in Token : RequestStart(p, t)
        BY <1>2, <4>1, <4>3 DEF DiskOK, RequestStart, TokenOr
      <4> QED
        BY <2>8, <4>2, <4>3 DEF Start, StartFails
    <3>2. PICK t \in TokenOr : my' \in {my, [my EXCEPT ![p] = [my[p] EXCEPT !.tok = t]]}
      BY <1>2, <2>0, <2>8 DEF Start, StartFails, TokenOr
    <3>3. my' \in [Proc -> Memory]
      BY <1>2, <2>0, <2>m, <3>2 DEF TokenOr
    <3> QED
      BY <1>2, <2>0, <2>8, <3>1, <3>3
         DEF Start, StartFails, Enter, Block, DiskOK, Goto, PCs, files
  <2>10. CASE Record(p)
    <3>1. my[p].tok \in TokenOr
      BY <2>0 DEF Memory
    <3>2. attempt' \in Attempt \cup {None}
      BY <1>2, <2>10, <3>1 DEF Record, DiskOK, Attempt
    <3>3. my' \in {my, [my EXCEPT ![p] = [my[p] EXCEPT !.tok = None]]}
      BY <1>2, <2>0, <2>10 DEF Record
    <3>4. my' \in [Proc -> Memory]
      BY <1>2, <2>0, <2>m, <3>3 DEF TokenOr
    <3> QED
      BY <1>2, <2>0, <2>10, <3>2, <3>4 DEF Record, Leave, DiskOK, PCs
  <2>11. CASE PollActive(p) \/ PollFails(p)
    BY <1>2, <2>0, <2>11 DEF PollActive, PollFails, DiskOK, Goto, files, server, PCs
  <2>12. CASE Commit(p)
    <3>1. pc' \in [Proc -> PCs] /\ lock' \in Proc \cup {None}
      BY <1>2, <2>0, <2>12 DEF Commit, DiskOK, PCs
    <3>2. journal' \in Journal \cup {None}
      BY <1>2, <2>12, CommitWrites DEF Commit, DiskOK
    <3> QED
      BY <1>2, <2>0, <2>12, <3>1, <3>2 DEF Commit, DiskOK
  <2>13. CASE WriteConfig(p) \/ WriteSources(p) \/ UnlinkJournal(p) \/ UnlinkAttempt(p)
    <3>1. pc[p] \in Writing => journal \in Journal
      BY <1>2, <2>0 DEF DiskOK, LockInv
    <3>2. config' \in Config \cup {None} /\ registry' \subseteq Client
      BY <1>2, <2>13, <3>1
         DEF WriteConfig, WriteSources, UnlinkJournal, UnlinkAttempt, Goto, Writing, DiskOK, Journal
    <3> QED
      BY <1>2, <2>0, <2>13, <3>2 DEF WriteConfig, WriteSources, UnlinkJournal, UnlinkAttempt, DiskOK,
                                      Goto, Within, PCs
  <2>14. CASE Hooks(p) \/ Clear(p)
    BY <1>2, <2>0, <2>m, <2>14 DEF Hooks, Clear, DiskOK, Goto, Leave, PCs, files
  <2> QED
    BY <1>3, <2>1, <2>2, <2>3, <2>4, <2>5, <2>6, <2>7, <2>8, <2>10, <2>11, <2>12, <2>13,
       <2>14 DEF ConnectStep
<1>4. ASSUME NEW p \in Cmd, CommandStep(p)
      PROVE  DiskOK' /\ pc' \in [Proc -> PCs] /\ my' \in [Proc -> Memory] /\ drawn' \subseteq Token
  <2>0. p \in Proc /\ my[p] \in Memory
    BY <1>2 DEF Proc
  <2>1. CASE Command(p)
    <3>1. PICK c \in Client, t \in TokenOr :
            my' = [my EXCEPT ![p] = [Blank EXCEPT !.which = c, !.tok = t]]
      BY <1>2, <2>1 DEF Command, DiskOK, Attempt, TokenOr
    <3>2. my' \in [Proc -> Memory]
      BY <1>2, <2>0, <3>1, Memories
    <3>3. cmds' \in 0 .. MaxCmds
      BY <1>2, <2>1, PairingAssumption DEF Command, DiskOK
    <3> QED
      BY <1>2, <2>0, <2>1, <3>2, <3>3 DEF Command, Enter, DiskOK, Goto, PCs
  <2>2. CASE CancelFirst(p)
    <3>1. my[p].tok \in TokenOr /\ SendCancel(my[p].tok) /\ UNCHANGED <<shown, drawn>>
      BY <2>0, <2>2 DEF CancelFirst, Memory
    <3>2. unsure' \subseteq Token
      BY <3>1, SendCancelKept
    <3>3. my' = [my EXCEPT ![p] = [my[p] EXCEPT !.tok = None]]
      BY <1>2, <2>0, <2>2 DEF CancelFirst
    <3>4. my' \in [Proc -> Memory]
      BY <1>2, <2>0, <3>3, Memories DEF TokenOr
    <3> QED
      BY <1>2, <2>0, <2>2, <3>2, <3>4 DEF CancelFirst, Within, DiskOK, Goto, PCs, files
  <2>3. CASE Revoke(p) \/ RemoveRemote(p)
    <3>1. UNCHANGED <<shown, drawn>>
      BY <2>3 DEF Revoke, RemoveRemote
    <3>2. \/ Send(RevokeSelf) \/ UNCHANGED <<server, unsure>>
          \/ my[p].which \in Client /\ Send(LAMBDA i : DeleteSource(i, my[p].which))
      BY <1>2, <2>3 DEF Revoke, RemoveRemote, DiskOK, Config
    <3>3. unsure' \subseteq Token
      BY <3>1, <3>2, SendKept
    <3> QED
      BY <1>2, <2>0, <2>3, <3>3 DEF Revoke, RemoveRemote, Within, DiskOK, Goto, PCs, files
  <2>4. CASE Disable(p) \/ ResetLocal(p)
    BY <1>2, <2>0, <2>4 DEF Disable, ResetLocal, DisableLocal, RemoveConfig, Leave, DiskOK, Goto,
                             PCs, Config
  <2>5. CASE AddSource(p) \/ DropSource(p)
    <3>1. registry' \subseteq Client
      BY <1>2, <2>0, <2>5 DEF AddSource, DropSource, Goto, DiskOK, CmdInv, CmdOK
    <3> QED
      BY <1>2, <2>0, <2>5, <3>1 DEF AddSource, DropSource, Leave, DiskOK, Goto, PCs
  <2>6. CASE WriteWithout(p)
    <3>1. config' \in Config \cup {None}
      BY <1>2, <2>6 DEF WriteWithout, DiskOK, Config
    <3> QED
      BY <1>2, <2>0, <2>6, <3>1 DEF WriteWithout, Within, DiskOK, Goto, PCs
  <2> QED
    BY <1>4, <2>1, <2>2, <2>3, <2>4, <2>5, <2>6 DEF CommandStep
<1>5. ASSUME NEW p \in Proc, Crash(p)
      PROVE  DiskOK' /\ pc' \in [Proc -> PCs] /\ my' \in [Proc -> Memory] /\ drawn' \subseteq Token
  <2>1. my[p].tok \in TokenOr /\ Blank \in Memory
    BY <1>2, Memories DEF Memory
  <2> QED
    BY <1>2, <1>5, <2>1 DEF Crash, DiskOK, PCs, files, TokenOr
<1>6. CASE RecoverCommit
  BY <1>2, <1>6 DEF RecoverCommit, DiskOK, Journal
<1>7. CASE Rejected
  BY <1>2, <1>7 DEF Rejected, DisableLocal, RemoveConfig, Dropped, DiskOK, Attempt, TokenOr
<1>8. CASE Approve \/ Expire \/ Sync
  BY <1>2, <1>8 DEF Approve, Expire, Sync, DiskOK, files
<1>9. CASE RevokeInBrowser \/ DisconnectInBrowser
  <2>1. UNCHANGED <<files, lock, pc, my, shown, drawn, unsure>>
        /\ cmds < MaxCmds /\ cmds' = cmds + 1
    BY <1>9 DEF RevokeInBrowser, DisconnectInBrowser
  <2>2. cmds \in 0 .. MaxCmds /\ MaxCmds \in Nat
    BY <1>2, PairingAssumption DEF DiskOK
  <2>3. cmds' \in 0 .. MaxCmds
    BY <2>1, <2>2
  <2> QED
    BY <1>2, <2>1, <2>3 DEF DiskOK, files
<1> QED
  BY <1>3, <1>4, <1>5, <1>6, <1>7, <1>8, <1>9 DEF PairingNext, PairingStep
-----------------------------------------------------------------------------
(* The lifecycle lock *)

(* The lifecycle lock is held exactly by the process that is at a step     *)
(* of the locked section. Nobody else replaces the attempt or the          *)
(* journal meanwhile: a process in Attemptless keeps attempt = None, a     *)
(* commit keeps its own attempt.                                           *)
LEMMA LockStep ==
  ASSUME PairingTypeOK, ConnInv, LockInv, PairingNext
  PROVE  LockInv'
<1>1. /\ pc \in [Proc -> PCs] /\ my \in [Proc -> Memory] /\ lock \in Proc \cup {None}
      /\ None \notin Proc
  BY PairingAssumption DEF PairingTypeOK, Proc
<1>2. ASSUME NEW p \in Conn, ConnectStep(p)
      PROVE  LockInv'
  <2>0. p \in Proc
    BY DEF Proc
  <2>1. CASE Reconcile(p)
    BY <1>1, <2>0, <2>1
       DEF Reconcile, LockInv, LockPCs, Attemptless, Cancelling, Writing, Goto, Block, files,
           Remember, RemoveConfig, DisableLocal, SameAttempt
  <2>2. CASE Detect(p)
    BY <1>1, <2>0, <2>2
       DEF Detect, LockInv, LockPCs, Attemptless, Cancelling, Writing, Goto, files, Remember,
           SameAttempt
  <2>3. CASE Prepare(p)
    BY <1>1, <2>0, <2>3
       DEF Prepare, LockInv, LockPCs, Attemptless, Cancelling, Writing, Goto, Enter, Invalidate,
           SameAttempt
  <2>4. CASE CancelOld(p)
    BY <1>1, <2>0, <2>4
       DEF CancelOld, LockInv, LockPCs, Attemptless, Cancelling, Writing, Goto, Leave, files,
           SameAttempt
  <2>5. CASE Identify(p)
    BY <1>1, <2>0, <2>5
       DEF Identify, LockInv, LockPCs, Attemptless, Cancelling, Writing, Goto, Block, SameAttempt
  <2>6. CASE Begin(p)
    BY <1>1, <2>0, <2>6
       DEF Begin, LockInv, LockPCs, Attemptless, Cancelling, Writing, Goto, Block, SameAttempt
  <2>7. CASE BeginStale(p)
    BY <1>1, <2>0, <2>7
       DEF BeginStale, LockInv, LockPCs, Attemptless, Cancelling, Writing, Goto, Block, files,
           SameAttempt
  <2>8. CASE Start(p)
    BY <1>1, <2>0, <2>8
       DEF Start, LockInv, LockPCs, Attemptless, Cancelling, Writing, Goto, Enter, files,
           SameAttempt
  <2>9. CASE StartFails(p)
    BY <1>1, <2>0, <2>9
       DEF StartFails, LockInv, LockPCs, Attemptless, Cancelling, Writing, Goto, Block, files,
           SameAttempt
  <2>10. CASE Record(p)
    BY <1>1, <2>0, <2>10
       DEF Record, LockInv, LockPCs, Attemptless, Cancelling, Writing, Leave, SameAttempt
  <2>11. CASE PollActive(p)
    BY <1>1, <2>0, <2>11
       DEF PollActive, LockInv, LockPCs, Attemptless, Cancelling, Writing, Goto, files,
           SameAttempt
  <2>12. CASE PollFails(p)
    BY <1>1, <2>0, <2>12
       DEF PollFails, LockInv, LockPCs, Attemptless, Cancelling, Writing, Goto, files, SameAttempt
  <2>13. CASE Commit(p)
    BY <1>1, <2>0, <2>13, CommitWrites
       DEF Commit, LockInv, LockPCs, Attemptless, Cancelling, Writing, SameAttempt, CurrentAttempt
  <2>14. CASE WriteConfig(p)
    BY <1>1, <2>0, <2>14
       DEF WriteConfig, LockInv, LockPCs, Attemptless, Cancelling, Writing, Goto, Within,
           SameAttempt
  <2>15. CASE WriteSources(p)
    BY <1>1, <2>0, <2>15
       DEF WriteSources, LockInv, LockPCs, Attemptless, Cancelling, Writing, Goto, Within,
           SameAttempt
  <2>16. CASE UnlinkJournal(p)
    BY <1>1, <2>0, <2>16
       DEF UnlinkJournal, LockInv, LockPCs, Attemptless, Cancelling, Writing, Goto, Within,
           SameAttempt
  <2>17. CASE UnlinkAttempt(p)
    BY <1>1, <2>0, <2>17
       DEF UnlinkAttempt, LockInv, LockPCs, Attemptless, Cancelling, Writing, Goto, Within,
           SameAttempt
  <2>18. CASE Hooks(p)
    BY <1>1, <2>0, <2>18
       DEF Hooks, LockInv, LockPCs, Attemptless, Cancelling, Writing, Leave, files, SameAttempt
  <2>19. CASE Abort(p)
    BY <1>1, <2>0, <2>19
       DEF Abort, LockInv, LockPCs, Attemptless, Cancelling, Writing, Goto, files, SameAttempt
  <2>20. CASE Clear(p)
    BY <1>1, <2>0, <2>20
       DEF Clear, LockInv, LockPCs, Attemptless, Cancelling, Writing, Goto, SameAttempt
  <2> QED
    BY <1>2, <2>1, <2>2, <2>3, <2>4, <2>5, <2>6, <2>7, <2>8, <2>9, <2>10, <2>11, <2>12, <2>13,
       <2>14, <2>15, <2>16, <2>17, <2>18, <2>19, <2>20
       DEF ConnectStep
<1>3. ASSUME NEW p \in Cmd, CommandStep(p)
      PROVE  LockInv'
  <2>0. p \in Proc
    BY DEF Proc
  <2>1. CASE Command(p)
    BY <1>1, <2>0, <2>1
       DEF Command, LockInv, LockPCs, Attemptless, Cancelling, Writing, Goto, Enter, SameAttempt
  <2>2. CASE CancelFirst(p)
    BY <1>1, <2>0, <2>2
       DEF CancelFirst, LockInv, LockPCs, Attemptless, Cancelling, Writing, Goto, Within, files,
           SameAttempt
  <2>3. CASE Revoke(p)
    BY <1>1, <2>0, <2>3
       DEF Revoke, LockInv, LockPCs, Attemptless, Cancelling, Writing, Goto, Within, files,
           SameAttempt
  <2>4. CASE Disable(p)
    BY <1>1, <2>0, <2>4
       DEF Disable, LockInv, LockPCs, Attemptless, Cancelling, Writing, Goto, Leave, RemoveConfig,
           DisableLocal, SameAttempt
  <2>5. CASE ResetLocal(p)
    BY <1>1, <2>0, <2>5
       DEF ResetLocal, LockInv, LockPCs, Attemptless, Cancelling, Writing, Goto, Leave,
           RemoveConfig, DisableLocal, SameAttempt
  <2>6. CASE AddSource(p)
    BY <1>1, <2>0, <2>6
       DEF AddSource, LockInv, LockPCs, Attemptless, Cancelling, Writing, Goto, Leave, SameAttempt
  <2>7. CASE RemoveRemote(p)
    BY <1>1, <2>0, <2>7
       DEF RemoveRemote, LockInv, LockPCs, Attemptless, Cancelling, Writing, Goto, Within, files,
           SameAttempt
  <2>8. CASE WriteWithout(p)
    BY <1>1, <2>0, <2>8
       DEF WriteWithout, LockInv, LockPCs, Attemptless, Cancelling, Writing, Goto, Within,
           SameAttempt
  <2>9. CASE DropSource(p)
    BY <1>1, <2>0, <2>9
       DEF DropSource, LockInv, LockPCs, Attemptless, Cancelling, Writing, Goto, Leave,
           SameAttempt
  <2> QED
    BY <1>3, <2>1, <2>2, <2>3, <2>4, <2>5, <2>6, <2>7, <2>8, <2>9 DEF CommandStep
<1>4. ASSUME NEW p \in Proc, Crash(p)
      PROVE  LockInv'
  BY <1>1, <1>4 DEF Crash, LockInv, LockPCs, Attemptless, Cancelling, Writing, files, SameAttempt
<1>5. CASE RecoverCommit
  BY <1>1, <1>5 DEF RecoverCommit, LockInv, LockPCs, Attemptless, Cancelling, Writing, SameAttempt
<1>6. CASE Rejected
  BY <1>1, <1>6
     DEF Rejected, DisableLocal, RemoveConfig, LockInv, LockPCs, Attemptless, Cancelling, Writing,
         RemoveConfig, DisableLocal, SameAttempt
<1>7. CASE Approve \/ RevokeInBrowser \/ DisconnectInBrowser \/ Expire \/ Sync
  BY <1>1, <1>7
     DEF Approve, RevokeInBrowser, DisconnectInBrowser, Expire, Sync, files, LockInv, LockPCs,
         Attemptless, Cancelling, Writing, files, SameAttempt
<1> QED
  BY <1>2, <1>3, <1>4, <1>5, <1>6, <1>7 DEF PairingNext, PairingStep
-----------------------------------------------------------------------------
(* The files *)

(* What is unsure, or was shown, stays so. *)
LEMMA Monotone ==
  ASSUME PairingTypeOK, ServerInv, PendingBelongs, PairingNext
  PROVE  unsure \subseteq unsure' /\ shown \subseteq shown'
<1>1. CASE \/ Approve \/ RevokeInBrowser \/ DisconnectInBrowser \/ Expire
           \/ RecoverCommit \/ Rejected \/ Sync
  BY <1>1 DEF Approve, RevokeInBrowser, DisconnectInBrowser, Expire, RecoverCommit, Rejected, Sync
<1>2. ASSUME NEW p \in Conn, ConnectStep(p)
      PROVE  unsure \subseteq unsure' /\ shown \subseteq shown'
  <2>1. CASE CancelOld(p) \/ Abort(p)
    BY <2>1 DEF CancelOld, Abort, SendCancel
  <2>2. CASE Start(p) \/ StartFails(p)
    BY <2>2 DEF Start, StartFails, RequestStart
  <2>3. CASE \/ Reconcile(p) \/ Detect(p) \/ Prepare(p) \/ Identify(p) \/ Begin(p) \/ BeginStale(p)
             \/ Record(p) \/ PollActive(p) \/ PollFails(p)
    BY <2>3 DEF Reconcile, Detect, Prepare, Identify, Begin, BeginStale, Record, PollActive,
                PollFails
  <2>4. CASE \/ Commit(p) \/ WriteConfig(p) \/ WriteSources(p) \/ UnlinkJournal(p)
             \/ UnlinkAttempt(p) \/ Hooks(p) \/ Clear(p)
    BY <2>4 DEF Commit, WriteConfig, WriteSources, UnlinkJournal, UnlinkAttempt, Hooks, Clear
  <2> QED
    BY <1>2, <2>1, <2>2, <2>3, <2>4 DEF ConnectStep
<1>3. ASSUME NEW p \in Cmd, CommandStep(p)
      PROVE  unsure \subseteq unsure' /\ shown \subseteq shown'
  <2>1. CASE CancelFirst(p)
    BY <2>1 DEF CancelFirst, SendCancel
  <2>2. CASE Revoke(p) \/ RemoveRemote(p)
    BY <2>2 DEF Revoke, RemoveRemote, Send
  <2>3. CASE \/ Command(p) \/ Disable(p) \/ ResetLocal(p) \/ AddSource(p) \/ WriteWithout(p)
             \/ DropSource(p)
    BY <2>3 DEF Command, Disable, ResetLocal, AddSource, WriteWithout, DropSource
  <2> QED
    BY <1>3, <2>1, <2>2, <2>3 DEF CommandStep
<1>4. ASSUME NEW p \in Proc, Crash(p)
      PROVE  unsure \subseteq unsure' /\ shown \subseteq shown'
  BY <1>4 DEF Crash
<1> QED
  BY <1>1, <1>2, <1>3, <1>4 DEF PairingNext, PairingStep

(* A token that the server refuses lives no longer. *)
LEMMA RefusedIsDead ==
  ASSUME PairingTypeOK, ServerInv, FilesInv, config # None,
         ~Authorized(config.inst, config.token)
  PROVE  ~Alive(config.token)
<1>1. TokenOf(config.token, config.inst) /\ config.inst \in Inst /\ config.token \in Token
  BY DEF FilesInv, PairingTypeOK, Config
<1>2. config.token # None /\ RowOK(config.inst)
  BY <1>1, PairingAssumption DEF ServerInv
<1>3. inst[config.inst].device # config.token
  BY <1>2 DEF Authorized, RowOK
<1>4. \A j \in Inst \ {config.inst} : inst[j].device # config.token
  BY <1>1, <1>2 DEF TokenOf, Belongs, Columns
<1>5. \A j \in Inst : inst[j].pend # config.token
  BY <1>1 DEF TokenOf, Spent
<1> QED
  BY <1>3, <1>4, <1>5 DEF Alive

(* The configuration stays of one connection, goes, or is that of a commit. *)
Renewed == journal # None /\ config' = journal.config
SameConnection ==
  config # None /\ config' # None /\ config'.token = config.token /\ config'.inst = config.inst

ConfigFate ==
  \/ UNCHANGED config \/ SameConnection \/ Renewed
  \/ config' = None /\ (config # None => config.token \in unsure' \/ ~Alive(config.token))

(* The stored configuration keeps its connection, is deleted, or becomes   *)
(* the one the journal holds: no step writes another one.                  *)
LEMMA ConfigStep ==
  ASSUME PairingTypeOK, PairingTypeOK', ServerInv, FilesInv, JournalInv, LockInv, CmdInv, PairingNext
  PROVE  ConfigFate
<1>1. config \in Config \cup {None} /\ config' \in Config \cup {None}
  BY DEF PairingTypeOK
<1>2. ASSUME NEW p \in Conn, Reconcile(p)
      PROVE  ConfigFate
  <2>1. CASE config = None
    BY <1>2, <2>1 DEF Reconcile, files, ConfigFate
  <2>2. CASE config # None /\ ~Authorized(config.inst, config.token)
    BY <1>2, <2>2, RefusedIsDead DEF Reconcile, DisableLocal, RemoveConfig, ConfigFate
  <2>3. CASE config # None /\ Authorized(config.inst, config.token)
    <3>1. config \in Config
      BY <1>1, <2>3
    <3>2. config' = [config EXCEPT !.srcs =
                       {c \in config.srcs : source[config.inst][c].status # "disconnected"}]
      BY <1>2, <2>3 DEF Reconcile
    <3>3. config'.token = config.token /\ config'.inst = config.inst /\ config' \in Config
      BY <3>1, <3>2 DEF Config
    <3> QED
      BY <2>3, <3>3, AbsentAssumption DEF ConfigFate, SameConnection
  <2> QED
    BY <2>1, <2>2, <2>3
<1>3. ASSUME NEW p \in Conn, ConnectStep(p), ~Reconcile(p)
      PROVE  ConfigFate
  <2>1. CASE WriteConfig(p)
    <3>1. journal # None
      BY <2>1 DEF WriteConfig, Goto, LockInv, Writing, Proc
    <3> QED
      BY <2>1, <3>1 DEF WriteConfig, ConfigFate, Renewed
  <2>2. CASE \/ Detect(p) \/ Prepare(p) \/ Identify(p) \/ Begin(p) \/ BeginStale(p)
             \/ Record(p) \/ PollActive(p) \/ PollFails(p) \/ Start(p) \/ StartFails(p)
    BY <2>2 DEF Detect, Prepare, Invalidate, Identify, Begin, BeginStale, Record, PollActive,
                PollFails, Start, StartFails, files, ConfigFate
  <2>3. CASE \/ Commit(p) \/ WriteSources(p) \/ UnlinkJournal(p) \/ UnlinkAttempt(p)
             \/ Hooks(p) \/ Abort(p) \/ Clear(p) \/ CancelOld(p)
    BY <2>3 DEF Commit, WriteSources, UnlinkJournal, UnlinkAttempt, Hooks, Abort, Clear, CancelOld,
                files, ConfigFate
  <2> QED
    BY <1>3, <2>1, <2>2, <2>3 DEF ConnectStep
<1>4. ASSUME NEW p \in Cmd, CommandStep(p)
      PROVE  ConfigFate
  <2>1. CASE Disable(p)
    BY <2>1 DEF Disable, DisableLocal, RemoveConfig, Goto, CmdInv, CmdOK, Proc, ConfigFate
  <2>2. CASE ResetLocal(p)
    BY <2>2 DEF ResetLocal, DisableLocal, RemoveConfig, ConfigFate
  <2>3. CASE WriteWithout(p)
    <3>1. CASE config = None
      BY <2>3, <3>1 DEF WriteWithout, ConfigFate
    <3>2. CASE config # None
      <4>1. config \in Config /\ config' = [config EXCEPT !.srcs = config.srcs \ {my[p].which}]
        BY <1>1, <2>3, <3>2 DEF WriteWithout
      <4>2. config'.token = config.token /\ config'.inst = config.inst /\ config' \in Config
        BY <4>1 DEF Config
      <4> QED
        BY <3>2, <4>2, AbsentAssumption DEF ConfigFate, SameConnection
    <3> QED
      BY <3>1, <3>2
  <2>4. CASE \/ Command(p) \/ CancelFirst(p) \/ Revoke(p) \/ AddSource(p) \/ RemoveRemote(p)
             \/ DropSource(p)
    BY <2>4
       DEF Command, CancelFirst, Revoke, AddSource, RemoveRemote, DropSource, files, ConfigFate
  <2> QED
    BY <1>4, <2>1, <2>2, <2>3, <2>4 DEF CommandStep
<1>5. CASE RecoverCommit
  <2>1. journal # None /\ journal.attempt \in Attempt
    BY <1>5 DEF RecoverCommit, PairingTypeOK, Journal
  <2>2. attempt = journal.attempt /\ attempt # None
    BY <2>1, AbsentAssumption DEF JournalInv
  <2> QED
    BY <1>5, <2>1, <2>2 DEF RecoverCommit, FilesInv, ConfigFate, Renewed
<1>6. CASE Rejected
  BY <1>6, RefusedIsDead DEF Rejected, DisableLocal, RemoveConfig, ConfigFate
<1>7. CASE \/ Approve \/ RevokeInBrowser \/ DisconnectInBrowser \/ Expire \/ Sync
           \/ \E p \in Proc : Crash(p)
  BY <1>7
     DEF Approve, RevokeInBrowser, DisconnectInBrowser, Expire, Sync, Crash, files, ConfigFate
<1> QED
  BY <1>2, <1>3, <1>4, <1>5, <1>6, <1>7 DEF PairingNext, PairingStep

(* The attempt on disk is of the stored identity, and its token was shown. *)
AttemptOK == attempt # None => identity = attempt.inst /\ attempt.poll \in shown \cup {None}

(* An attempt on disk belongs to the stored installation identity, and     *)
(* its token has been shown to the user or not yet been received.          *)
LEMMA AttemptStep ==
  ASSUME PairingTypeOK, PairingTypeOK', ServerInv, FilesInv, JournalInv, LockInv, ConnInv,
         ConfigFate, Fades, shown \subseteq shown', PairingNext
  PROVE  AttemptOK'
<1>1. /\ identity \in Inst \cup {None} /\ config \in Config \cup {None}
      /\ attempt \in Attempt \cup {None} /\ None \notin Inst
  BY PairingAssumption DEF PairingTypeOK
<1>2. AttemptOK
  BY DEF FilesInv, AttemptOK
<1>3. UNCHANGED <<identity, attempt>> => AttemptOK'
  BY <1>2 DEF AttemptOK
<1>4. ASSUME NEW p \in Conn, ConnectStep(p)
      PROVE  AttemptOK'
  <2>0. p \in Proc
    BY DEF Proc
  <2>1. CASE Reconcile(p)
    BY <1>1, <1>2, <1>3, <2>0, <2>1
       DEF Reconcile, AttemptOK, Goto, Block, files, Remember, RemoveConfig, DisableLocal
  <2>2. CASE Detect(p)
    BY <1>1, <1>2, <1>3, <2>0, <2>2 DEF Detect, AttemptOK, Goto, files, Remember
  <2>3. CASE Prepare(p)
    BY <1>1, <1>2, <1>3, <2>0, <2>3 DEF Prepare, AttemptOK, Goto, Enter, Invalidate
  <2>4. CASE CancelOld(p)
    BY <1>1, <1>2, <1>3, <2>0, <2>4 DEF CancelOld, AttemptOK, Goto, Leave, files
  <2>5. CASE Identify(p)
    BY <1>1, <1>2, <1>3, <2>0, <2>5 DEF Identify, AttemptOK, Block, Attempt
  <2>6. CASE Begin(p)
    BY <1>1, <1>2, <1>3, <2>0, <2>6 DEF Begin, AttemptOK, Goto, Block
  <2>7. CASE BeginStale(p)
    BY <1>1, <1>2, <1>3, <2>0, <2>7 DEF BeginStale, AttemptOK, Goto, Block, files
  <2>8. CASE Start(p)
    BY <1>1, <1>2, <1>3, <2>0, <2>8 DEF Start, AttemptOK, Goto, Enter, files
  <2>9. CASE StartFails(p)
    BY <1>1, <1>2, <1>3, <2>0, <2>9 DEF StartFails, AttemptOK, Goto, Block, files
  <2>10. CASE Record(p)
    <3>1. UNCHANGED <<identity>> /\ my[p].tok \in TokenOr
      BY <2>0, <2>10 DEF Record, PairingTypeOK, Memory
    <3>2. CASE attempt # None /\ Recorded(p)
      <4>1. /\ attempt' = [attempt EXCEPT !.poll = my[p].tok] /\ my[p].tok \in shown'
            /\ attempt \in Attempt
        BY <1>1, <2>10, <3>2 DEF Record
      <4>2. attempt'.inst = attempt.inst /\ attempt'.poll = my[p].tok
        BY <4>1 DEF Attempt
      <4> QED
        BY <3>1, <3>2, <4>1, <4>2 DEF AttemptOK, Recorded
    <3>3. CASE ~(attempt # None /\ Recorded(p))
      BY <1>3, <2>10, <3>1, <3>3 DEF Record
    <3> QED
      BY <3>2, <3>3
  <2>11. CASE PollActive(p)
    BY <1>1, <1>2, <1>3, <2>0, <2>11 DEF PollActive, AttemptOK, Goto, files
  <2>12. CASE PollFails(p)
    BY <1>1, <1>2, <1>3, <2>0, <2>12 DEF PollFails, AttemptOK, Goto, files
  <2>13. CASE Commit(p)
    BY <1>1, <1>2, <1>3, <2>0, <2>13 DEF Commit, AttemptOK
  <2>14. CASE WriteConfig(p)
    BY <1>1, <1>2, <1>3, <2>0, <2>14 DEF WriteConfig, AttemptOK, Goto, Within
  <2>15. CASE WriteSources(p)
    BY <1>1, <1>2, <1>3, <2>0, <2>15 DEF WriteSources, AttemptOK, Goto, Within
  <2>16. CASE UnlinkJournal(p)
    BY <1>1, <1>2, <1>3, <2>0, <2>16 DEF UnlinkJournal, AttemptOK, Goto, Within
  <2>17. CASE UnlinkAttempt(p)
    BY <1>1, <1>2, <1>3, <2>0, <2>17 DEF UnlinkAttempt, AttemptOK, Goto, Within
  <2>18. CASE Hooks(p)
    BY <1>1, <1>2, <1>3, <2>0, <2>18 DEF Hooks, AttemptOK, Leave, files
  <2>19. CASE Abort(p)
    BY <1>1, <1>2, <1>3, <2>0, <2>19 DEF Abort, AttemptOK, Goto, files
  <2>20. CASE Clear(p)
    BY <1>1, <1>2, <1>3, <2>0, <2>20 DEF Clear, AttemptOK, Goto
  <2> QED
    BY <1>4, <2>1, <2>2, <2>3, <2>4, <2>5, <2>6, <2>7, <2>8, <2>9, <2>10, <2>11, <2>12, <2>13,
       <2>14, <2>15, <2>16, <2>17, <2>18, <2>19, <2>20
       DEF ConnectStep
<1>5. ASSUME NEW p \in Cmd, CommandStep(p)
      PROVE  AttemptOK'
  <2>0. p \in Proc
    BY DEF Proc
  <2>1. CASE Command(p)
    BY <1>1, <1>2, <1>3, <2>0, <2>1 DEF Command, AttemptOK, Goto, Enter
  <2>2. CASE CancelFirst(p)
    BY <1>1, <1>2, <1>3, <2>0, <2>2 DEF CancelFirst, AttemptOK, Goto, Within, files
  <2>3. CASE Revoke(p)
    BY <1>1, <1>2, <1>3, <2>0, <2>3 DEF Revoke, AttemptOK, Goto, Within, files
  <2>4. CASE Disable(p)
    BY <1>1, <1>2, <1>3, <2>0, <2>4
       DEF Disable, AttemptOK, Goto, Leave, RemoveConfig, DisableLocal
  <2>5. CASE ResetLocal(p)
    BY <1>1, <1>2, <1>3, <2>0, <2>5
       DEF ResetLocal, AttemptOK, Goto, Leave, RemoveConfig, DisableLocal
  <2>6. CASE AddSource(p)
    BY <1>1, <1>2, <1>3, <2>0, <2>6 DEF AddSource, AttemptOK, Goto, Leave
  <2>7. CASE RemoveRemote(p)
    BY <1>1, <1>2, <1>3, <2>0, <2>7 DEF RemoveRemote, AttemptOK, Goto, Within, files
  <2>8. CASE WriteWithout(p)
    BY <1>1, <1>2, <1>3, <2>0, <2>8 DEF WriteWithout, AttemptOK, Goto, Within
  <2>9. CASE DropSource(p)
    BY <1>1, <1>2, <1>3, <2>0, <2>9 DEF DropSource, AttemptOK, Goto, Leave
  <2> QED
    BY <1>5, <2>1, <2>2, <2>3, <2>4, <2>5, <2>6, <2>7, <2>8, <2>9 DEF CommandStep
<1>6. ASSUME NEW p \in Proc, Crash(p)
      PROVE  AttemptOK'
  BY <1>1, <1>2, <1>3, <1>6 DEF Crash, AttemptOK, files
<1>7. CASE RecoverCommit
  BY <1>1, <1>2, <1>3, <1>7 DEF RecoverCommit, AttemptOK
<1>8. CASE Rejected
  BY <1>1, <1>2, <1>3, <1>8 DEF Rejected, AttemptOK, RemoveConfig, DisableLocal
<1>9. CASE Approve \/ RevokeInBrowser \/ DisconnectInBrowser \/ Expire \/ Sync
  BY <1>1, <1>2, <1>3, <1>9
     DEF Approve, RevokeInBrowser, DisconnectInBrowser, Expire, Sync, AttemptOK, files
<1> QED
  BY <1>4, <1>5, <1>6, <1>7, <1>8, <1>9 DEF PairingNext, PairingStep

(* Outside a commit a stored configuration is of the stored identity and   *)
(* names registered sources: a removed source leaves the configuration     *)
(* before it leaves the registry.                                          *)
LEMMA UsableStep ==
  ASSUME PairingTypeOK, PairingTypeOK', FilesInv, JournalInv, LockInv, CmdInv, PairingNext
  PROVE  ConfigIsUsable'
<1>1. /\ identity \in Inst \cup {None} /\ config \in Config \cup {None}
      /\ None \notin Inst /\ pc \in [Proc -> PCs]
  BY PairingAssumption DEF PairingTypeOK
<1>2. ConfigIsUsable
  BY DEF FilesInv
<1>3. UNCHANGED <<identity, config, registry, journal>> => ConfigIsUsable'
  BY <1>2 DEF ConfigIsUsable
<1>4. ASSUME NEW p \in Conn, ConnectStep(p)
      PROVE  ConfigIsUsable'
  <2>0. p \in Proc
    BY DEF Proc
  <2>1. CASE Reconcile(p)
    <3>1. journal = None
      BY <2>1 DEF Reconcile, Block
    <3>2. CASE config = None \/ ~Authorized(config.inst, config.token)
      BY <1>3, <2>1, <3>2 DEF Reconcile, files, DisableLocal, RemoveConfig, ConfigIsUsable
    <3>3. CASE config # None /\ Authorized(config.inst, config.token)
      <4>1. /\ config \in Config /\ UNCHANGED <<identity, registry, journal>>
            /\ config' = [config EXCEPT !.srcs =
                             {c \in config.srcs : source[config.inst][c].status # "disconnected"}]
        BY <1>1, <2>1, <3>3 DEF Reconcile
      <4>2. config'.inst = config.inst /\ config'.srcs \subseteq config.srcs
        BY <4>1 DEF Config
      <4> QED
        BY <1>2, <3>1, <3>3, <4>1, <4>2 DEF ConfigIsUsable
    <3> QED
      BY <3>2, <3>3
  <2>2. CASE Detect(p)
    BY <1>1, <1>2, <1>3, <2>0, <2>2 DEF Detect, ConfigIsUsable, Goto, files, Remember
  <2>3. CASE Prepare(p)
    BY <1>1, <1>2, <1>3, <2>0, <2>3 DEF Prepare, ConfigIsUsable, Goto, Enter, Invalidate
  <2>4. CASE CancelOld(p)
    BY <1>1, <1>2, <1>3, <2>0, <2>4 DEF CancelOld, ConfigIsUsable, Goto, Leave, files
  <2>5. CASE Identify(p)
    BY <1>1, <1>2, <1>3, <2>0, <2>5 DEF Identify, ConfigIsUsable, Block, Config
  <2>6. CASE Begin(p)
    BY <1>1, <1>2, <1>3, <2>0, <2>6 DEF Begin, ConfigIsUsable, Goto, Block
  <2>7. CASE BeginStale(p)
    BY <1>1, <1>2, <1>3, <2>0, <2>7 DEF BeginStale, ConfigIsUsable, Goto, Block, files
  <2>8. CASE Start(p)
    BY <1>1, <1>2, <1>3, <2>0, <2>8 DEF Start, ConfigIsUsable, Goto, Enter, files
  <2>9. CASE StartFails(p)
    BY <1>1, <1>2, <1>3, <2>0, <2>9 DEF StartFails, ConfigIsUsable, Goto, Block, files
  <2>10. CASE Record(p)
    BY <1>1, <1>2, <1>3, <2>0, <2>10 DEF Record, ConfigIsUsable, Leave
  <2>11. CASE PollActive(p)
    BY <1>1, <1>2, <1>3, <2>0, <2>11 DEF PollActive, ConfigIsUsable, Goto, files
  <2>12. CASE PollFails(p)
    BY <1>1, <1>2, <1>3, <2>0, <2>12 DEF PollFails, ConfigIsUsable, Goto, files
  <2>13. CASE Commit(p)
    BY <1>1, <1>2, <1>3, <2>0, <2>13 DEF Commit, ConfigIsUsable
  <2>14. CASE WriteConfig(p)
    BY <2>0, <2>14 DEF WriteConfig, Goto, LockInv, Writing, ConfigIsUsable
  <2>15. CASE WriteSources(p)
    BY <2>0, <2>15 DEF WriteSources, Goto, LockInv, Writing, ConfigIsUsable
  <2>16. CASE UnlinkJournal(p)
    <3>0. pc[p] = "unlinkJournal" /\ journal # None /\ SameAttempt(journal.attempt, p)
      BY <2>0, <2>16 DEF UnlinkJournal, Goto, LockInv, Writing
    <3>1. journal.attempt.by = p
      BY <3>0 DEF SameAttempt
    <3>2. attempt # None
      BY <3>0 DEF SameAttempt, JournalInv
    <3> QED
      BY <2>16, <3>0, <3>1, <3>2 DEF UnlinkJournal, Goto, JournalInv, FilesInv, ConfigIsUsable
  <2>17. CASE UnlinkAttempt(p)
    BY <1>1, <1>2, <1>3, <2>0, <2>17 DEF UnlinkAttempt, ConfigIsUsable, Goto, Within
  <2>18. CASE Hooks(p)
    BY <1>1, <1>2, <1>3, <2>0, <2>18 DEF Hooks, ConfigIsUsable, Leave, files
  <2>19. CASE Abort(p)
    BY <1>1, <1>2, <1>3, <2>0, <2>19 DEF Abort, ConfigIsUsable, Goto, files
  <2>20. CASE Clear(p)
    BY <1>1, <1>2, <1>3, <2>0, <2>20 DEF Clear, ConfigIsUsable, Goto
  <2> QED
    BY <1>4, <2>1, <2>2, <2>3, <2>4, <2>5, <2>6, <2>7, <2>8, <2>9, <2>10, <2>11, <2>12, <2>13,
       <2>14, <2>15, <2>16, <2>17, <2>18, <2>19, <2>20
       DEF ConnectStep
<1>5. ASSUME NEW p \in Cmd, CommandStep(p)
      PROVE  ConfigIsUsable'
  <2>0. p \in Proc
    BY DEF Proc
  <2>1. CASE Command(p)
    BY <1>1, <1>2, <1>3, <2>0, <2>1 DEF Command, ConfigIsUsable, Goto, Enter
  <2>2. CASE CancelFirst(p)
    BY <1>1, <1>2, <1>3, <2>0, <2>2 DEF CancelFirst, ConfigIsUsable, Goto, Within, files
  <2>3. CASE Revoke(p)
    BY <1>1, <1>2, <1>3, <2>0, <2>3 DEF Revoke, ConfigIsUsable, Goto, Within, files
  <2>4. CASE Disable(p)
    BY <1>1, <1>2, <1>3, <2>0, <2>4
       DEF Disable, ConfigIsUsable, Goto, Leave, RemoveConfig, DisableLocal
  <2>5. CASE ResetLocal(p)
    BY <1>1, <1>2, <1>3, <2>0, <2>5
       DEF ResetLocal, ConfigIsUsable, Goto, Leave, RemoveConfig, DisableLocal
  <2>6. CASE AddSource(p)
    BY <1>1, <1>2, <1>3, <2>0, <2>6 DEF AddSource, ConfigIsUsable, Goto, Leave
  <2>7. CASE RemoveRemote(p)
    BY <1>1, <1>2, <1>3, <2>0, <2>7 DEF RemoveRemote, ConfigIsUsable, Goto, Within, files
  <2>8. CASE WriteWithout(p)
    <3>1. CASE config = None
      BY <1>3, <2>8, <3>1 DEF WriteWithout
    <3>2. CASE config # None
      <4>1. /\ config \in Config /\ UNCHANGED <<identity, registry, journal>>
            /\ config' = [config EXCEPT !.srcs = config.srcs \ {my[p].which}]
        BY <1>1, <2>8, <3>2 DEF WriteWithout
      <4>2. config'.inst = config.inst /\ config'.srcs \subseteq config.srcs
        BY <4>1 DEF Config
      <4> QED
        BY <1>2, <3>2, <4>1, <4>2 DEF ConfigIsUsable
    <3> QED
      BY <3>1, <3>2
  <2>9. CASE DropSource(p)
    BY <1>2, <2>0, <2>9 DEF DropSource, Goto, CmdInv, CmdOK, ConfigIsUsable
  <2> QED
    BY <1>5, <2>1, <2>2, <2>3, <2>4, <2>5, <2>6, <2>7, <2>8, <2>9 DEF CommandStep
<1>6. ASSUME NEW p \in Proc, Crash(p)
      PROVE  ConfigIsUsable'
  BY <1>1, <1>2, <1>3, <1>6 DEF Crash, ConfigIsUsable, files
<1>7. CASE RecoverCommit
  <2>1. journal.attempt \in Attempt /\ journal # None
    BY <1>7 DEF RecoverCommit, PairingTypeOK, Journal
  <2>2. attempt = journal.attempt /\ attempt # None
    BY <2>1, AbsentAssumption DEF JournalInv
  <2> QED
    BY <1>7, <2>1, <2>2 DEF RecoverCommit, JournalInv, FilesInv, ConfigIsUsable
<1>8. CASE Rejected
  BY <1>1, <1>2, <1>3, <1>8 DEF Rejected, ConfigIsUsable, RemoveConfig, DisableLocal
<1>9. CASE Approve \/ RevokeInBrowser \/ DisconnectInBrowser \/ Expire \/ Sync
  BY <1>1, <1>2, <1>3, <1>9
     DEF Approve, RevokeInBrowser, DisconnectInBrowser, Expire, Sync, ConfigIsUsable, files
<1> QED
  BY <1>4, <1>5, <1>6, <1>7, <1>8, <1>9 DEF PairingNext, PairingStep

(* The parts of FilesInv together. *)
LEMMA FilesStep ==
  ASSUME PairingTypeOK, PairingTypeOK', FilesInv, JournalInv, AttemptOK', ConfigIsUsable',
         ConfigFate, Fades
  PROVE  FilesInv'
<1>1. ASSUME config' # None
      PROVE  \E t \in drawn, i \in Inst : TokenOf(t, i) /\ config'.token = t /\ config'.inst = i
  <2>1. CASE Renewed
    BY <2>1 DEF Renewed, JournalInv, TokenOf, PairingTypeOK, Journal, Config
  <2>2. CASE UNCHANGED config \/ SameConnection
    BY <1>1, <2>2 DEF SameConnection, FilesInv, TokenOf, PairingTypeOK, Config
  <2> QED
    BY <1>1, <2>1, <2>2 DEF ConfigFate
<1>2. ASSUME config' # None
      PROVE  (TokenOf(config.token, config.inst))'
  <2>1. PICK t \in drawn, i \in Inst : TokenOf(t, i) /\ config'.token = t /\ config'.inst = i
    BY <1>1, <1>2
  <2>2. (TokenOf(t, i))'
    BY <2>1, Stable
  <2> QED
    BY <2>1, <2>2 DEF TokenOf, Belongs, Spent, Columns
<1> QED
  BY <1>2 DEF FilesInv, AttemptOK

(* Whose commit it is, and how far it has come. *)
Phase ==
  journal # None =>
    LET p == journal.attempt.by
    IN  /\ attempt = journal.attempt
        /\ \/ lock = p /\ pc[p] \in Writing
           \/ lock = None /\ pc[p] = "off"
        /\ pc[p] \in {"writeSources", "unlinkJournal"} => config = journal.config
        /\ pc[p] = "unlinkJournal" => registry = journal.registry

(* While a journal exists its own commit is under way, or its process      *)
(* has died and recovery will take it up.                                  *)
LEMMA PhaseStep ==
  ASSUME PairingTypeOK, PairingTypeOK', JournalInv, LockInv, ConnInv, PairingNext
  PROVE  Phase'
<1>1. /\ pc \in [Proc -> PCs] /\ my \in [Proc -> Memory] /\ lock \in Proc \cup {None}
      /\ None \notin Proc /\ journal \in Journal \cup {None} /\ Conn \cap Cmd = {}
  BY PairingAssumption DEF PairingTypeOK, Proc
<1>2. Phase
  BY DEF JournalInv, Phase
<1>3. journal # None => journal.attempt.by \in Conn
  BY <1>1 DEF Journal, Attempt
<1>4. ASSUME NEW p \in Conn, ConnectStep(p)
      PROVE  Phase'
  <2>0. p \in Proc
    BY DEF Proc
  <2>1. CASE Reconcile(p)
    BY <1>1, <1>2, <1>3, <2>0, <2>1
       DEF Reconcile, Phase, LockInv, LockPCs, Attemptless, Cancelling, Writing, Goto, Block,
           files, RemoveConfig, DisableLocal
  <2>2. CASE Detect(p)
    BY <1>1, <1>2, <1>3, <2>0, <2>2
       DEF Detect, Phase, LockInv, LockPCs, Attemptless, Cancelling, Writing, Goto, files
  <2>3. CASE Prepare(p)
    BY <1>1, <1>2, <1>3, <2>0, <2>3
       DEF Prepare, Phase, LockInv, LockPCs, Attemptless, Cancelling, Writing, Goto, Enter,
           Invalidate
  <2>4. CASE CancelOld(p)
    BY <1>1, <1>2, <1>3, <2>0, <2>4
       DEF CancelOld, Phase, LockInv, LockPCs, Attemptless, Cancelling, Writing, Goto, Leave,
           files
  <2>5. CASE Identify(p)
    BY <1>1, <1>2, <1>3, <2>0, <2>5
       DEF Identify, Phase, LockInv, LockPCs, Attemptless, Cancelling, Writing, Goto, Block
  <2>6. CASE Begin(p)
    BY <1>1, <1>2, <1>3, <2>0, <2>6
       DEF Begin, Phase, LockInv, LockPCs, Attemptless, Cancelling, Writing, Goto, Block
  <2>7. CASE BeginStale(p)
    BY <1>1, <1>2, <1>3, <2>0, <2>7
       DEF BeginStale, Phase, LockInv, LockPCs, Attemptless, Cancelling, Writing, Goto, Block,
           files
  <2>8. CASE Start(p)
    BY <1>1, <1>2, <1>3, <2>0, <2>8
       DEF Start, Phase, LockInv, LockPCs, Attemptless, Cancelling, Writing, Goto, Enter, files
  <2>9. CASE StartFails(p)
    BY <1>1, <1>2, <1>3, <2>0, <2>9
       DEF StartFails, Phase, LockInv, LockPCs, Attemptless, Cancelling, Writing, Goto, Block,
           files
  <2>10. CASE Record(p)
    BY <1>1, <1>2, <1>3, <2>0, <2>10
       DEF Record, Phase, LockInv, LockPCs, Attemptless, Cancelling, Writing, Leave
  <2>11. CASE PollActive(p)
    BY <1>1, <1>2, <1>3, <2>0, <2>11
       DEF PollActive, Phase, LockInv, LockPCs, Attemptless, Cancelling, Writing, Goto, files
  <2>12. CASE PollFails(p)
    BY <1>1, <1>2, <1>3, <2>0, <2>12
       DEF PollFails, Phase, LockInv, LockPCs, Attemptless, Cancelling, Writing, Goto, files
  <2>13. CASE Commit(p)
    <3>1. CASE CurrentAttempt(p)
      <4>1. attempt.by = p /\ journal' # None
        BY <2>13, <3>1, CommitWrites DEF CurrentAttempt, SameAttempt
      <4> QED
        BY <1>1, <2>0, <2>13, <3>1, <4>1 DEF Commit, Phase, Writing
    <3>2. CASE ~CurrentAttempt(p)
      BY <1>1, <1>2, <1>3, <2>0, <2>13, <3>2 DEF Commit, Phase
    <3> QED
      BY <3>1, <3>2
  <2>14. CASE WriteConfig(p)
    BY <1>1, <1>2, <1>3, <2>0, <2>14
       DEF WriteConfig, Phase, LockInv, LockPCs, Attemptless, Cancelling, Writing, Goto, Within
  <2>15. CASE WriteSources(p)
    BY <1>1, <1>2, <1>3, <2>0, <2>15
       DEF WriteSources, Phase, LockInv, LockPCs, Attemptless, Cancelling, Writing, Goto, Within
  <2>16. CASE UnlinkJournal(p)
    BY <1>1, <1>2, <1>3, <2>0, <2>16
       DEF UnlinkJournal, Phase, LockInv, LockPCs, Attemptless, Cancelling, Writing, Goto, Within
  <2>17. CASE UnlinkAttempt(p)
    BY <1>1, <1>2, <1>3, <2>0, <2>17
       DEF UnlinkAttempt, Phase, LockInv, LockPCs, Attemptless, Cancelling, Writing, Goto, Within
  <2>18. CASE Hooks(p)
    BY <1>1, <1>2, <1>3, <2>0, <2>18
       DEF Hooks, Phase, LockInv, LockPCs, Attemptless, Cancelling, Writing, Leave, files
  <2>19. CASE Abort(p)
    BY <1>1, <1>2, <1>3, <2>0, <2>19
       DEF Abort, Phase, LockInv, LockPCs, Attemptless, Cancelling, Writing, Goto, files
  <2>20. CASE Clear(p)
    <3>1. SameAttempt(attempt, p) => attempt.by = p
      BY DEF SameAttempt
    <3> QED
      BY <1>1, <1>2, <1>3, <2>0, <2>20, <3>1 DEF Clear, Phase, Goto, Writing
  <2> QED
    BY <1>4, <2>1, <2>2, <2>3, <2>4, <2>5, <2>6, <2>7, <2>8, <2>9, <2>10, <2>11, <2>12, <2>13,
       <2>14, <2>15, <2>16, <2>17, <2>18, <2>19, <2>20
       DEF ConnectStep
<1>5. ASSUME NEW p \in Cmd, CommandStep(p)
      PROVE  Phase'
  <2>0. p \in Proc
    BY DEF Proc
  <2>1. CASE Command(p)
    BY <1>1, <1>2, <1>3, <2>0, <2>1
       DEF Command, Phase, LockInv, LockPCs, Attemptless, Cancelling, Writing, Goto, Enter
  <2>2. CASE CancelFirst(p)
    BY <1>1, <1>2, <1>3, <2>0, <2>2
       DEF CancelFirst, Phase, LockInv, LockPCs, Attemptless, Cancelling, Writing, Goto, Within,
           files
  <2>3. CASE Revoke(p)
    BY <1>1, <1>2, <1>3, <2>0, <2>3
       DEF Revoke, Phase, LockInv, LockPCs, Attemptless, Cancelling, Writing, Goto, Within, files
  <2>4. CASE Disable(p)
    BY <1>1, <1>2, <1>3, <2>0, <2>4
       DEF Disable, Phase, LockInv, LockPCs, Attemptless, Cancelling, Writing, Goto, Leave,
           RemoveConfig, DisableLocal
  <2>5. CASE ResetLocal(p)
    BY <1>1, <1>2, <1>3, <2>0, <2>5
       DEF ResetLocal, Phase, LockInv, LockPCs, Attemptless, Cancelling, Writing, Goto, Leave,
           RemoveConfig, DisableLocal
  <2>6. CASE AddSource(p)
    BY <1>1, <1>2, <1>3, <2>0, <2>6
       DEF AddSource, Phase, LockInv, LockPCs, Attemptless, Cancelling, Writing, Goto, Leave
  <2>7. CASE RemoveRemote(p)
    BY <1>1, <1>2, <1>3, <2>0, <2>7
       DEF RemoveRemote, Phase, LockInv, LockPCs, Attemptless, Cancelling, Writing, Goto, Within,
           files
  <2>8. CASE WriteWithout(p)
    BY <1>1, <1>2, <1>3, <2>0, <2>8
       DEF WriteWithout, Phase, LockInv, LockPCs, Attemptless, Cancelling, Writing, Goto, Within
  <2>9. CASE DropSource(p)
    BY <1>1, <1>2, <1>3, <2>0, <2>9
       DEF DropSource, Phase, LockInv, LockPCs, Attemptless, Cancelling, Writing, Goto, Leave
  <2> QED
    BY <1>5, <2>1, <2>2, <2>3, <2>4, <2>5, <2>6, <2>7, <2>8, <2>9 DEF CommandStep
<1>6. ASSUME NEW p \in Proc, Crash(p)
      PROVE  Phase'
  BY <1>1, <1>2, <1>3, <1>6
     DEF Crash, Phase, LockInv, LockPCs, Attemptless, Cancelling, Writing, files
<1>7. CASE RecoverCommit
  BY <1>1, <1>2, <1>3, <1>7
     DEF RecoverCommit, Phase, LockInv, LockPCs, Attemptless, Cancelling, Writing
<1>8. CASE Rejected
  BY <1>1, <1>2, <1>3, <1>8
     DEF Rejected, Phase, LockInv, LockPCs, Attemptless, Cancelling, Writing, RemoveConfig,
         DisableLocal
<1>9. CASE Approve \/ RevokeInBrowser \/ DisconnectInBrowser \/ Expire \/ Sync
  BY <1>1, <1>2, <1>3, <1>9
     DEF Approve, RevokeInBrowser, DisconnectInBrowser, Expire, Sync, Phase, LockInv, LockPCs,
         Attemptless, Cancelling, Writing, files
<1> QED
  BY <1>4, <1>5, <1>6, <1>7, <1>8, <1>9 DEF PairingNext, PairingStep

(* Only the commit of a current attempt writes a journal. *)
LEMMA JournalFate ==
  ASSUME PairingNext
  PROVE  journal' \in {journal, None} \/ \E p \in Conn : Commit(p) /\ CurrentAttempt(p)
<1>1. CASE \/ Approve \/ RevokeInBrowser \/ DisconnectInBrowser \/ Expire \/ RecoverCommit
           \/ Rejected \/ Sync \/ \E p \in Proc : Crash(p)
  BY <1>1 DEF Approve, RevokeInBrowser, DisconnectInBrowser, Expire, RecoverCommit, Rejected, Sync,
              Crash, DisableLocal, RemoveConfig, files
<1>2. ASSUME NEW p \in Conn, ConnectStep(p), ~Commit(p)
      PROVE  journal' \in {journal, None}
  <2>1. CASE \/ Reconcile(p) \/ Detect(p) \/ Prepare(p) \/ CancelOld(p) \/ Identify(p) \/ Begin(p)
             \/ BeginStale(p)
    BY <2>1 DEF Reconcile, DisableLocal, RemoveConfig, Detect, Prepare, Invalidate, CancelOld,
                Identify, Begin, BeginStale, files
  <2>2. CASE \/ Start(p) \/ StartFails(p) \/ Record(p) \/ PollActive(p) \/ PollFails(p)
             \/ WriteConfig(p) \/ WriteSources(p)
    BY <2>2 DEF Start, StartFails, Record, PollActive, PollFails, WriteConfig, WriteSources, files
  <2>3. CASE UnlinkJournal(p) \/ UnlinkAttempt(p) \/ Hooks(p) \/ Abort(p) \/ Clear(p)
    BY <2>3 DEF UnlinkJournal, UnlinkAttempt, Hooks, Abort, Clear, files
  <2> QED
    BY <1>2, <2>1, <2>2, <2>3 DEF ConnectStep
<1>3. ASSUME NEW p \in Conn, Commit(p)
      PROVE  journal' = journal \/ CurrentAttempt(p)
  BY <1>3 DEF Commit
<1>4. ASSUME NEW p \in Cmd, CommandStep(p)
      PROVE  journal' \in {journal, None}
  BY <1>4 DEF CommandStep, Command, CancelFirst, Revoke, Disable, ResetLocal, AddSource,
              RemoveRemote, WriteWithout, DropSource, DisableLocal, RemoveConfig, files
<1> QED
  BY <1>1, <1>2, <1>3, <1>4 DEF PairingNext, PairingStep

(* A configuration that a commit may replace stays so: it is absent,       *)
(* holds the token being committed, or its token is dead at the server.    *)
LEMMA ReplacedStays ==
  ASSUME PairingTypeOK, FilesInv, JournalInv, Fades, ConfigFate, NEW t \in drawn, Replaced(t),
         journal = None \/ journal.config.token = t
  PROVE  (Replaced(t))'
<1>1. config # None => config.token \in drawn
  BY DEF FilesInv, TokenOf
<1>2. config # None /\ ~Alive(config.token) => ~(\E i \in Inst : inst'[i].pend = config.token \/ inst'[i].device = config.token)
  BY <1>1, Stable DEF Alive
<1>3. CASE config' = None \/ Renewed
  BY <1>3 DEF Replaced, Renewed
<1>4. CASE config' # None /\ (UNCHANGED config \/ SameConnection)
  BY <1>2, <1>4 DEF Replaced, SameConnection, Alive
<1> QED
  BY <1>3, <1>4 DEF ConfigFate

(* A journal, while it exists, holds the approved token of the attempt     *)
(* on disk, which the configuration may take.                              *)
LEMMA JournalStep ==
  ASSUME PairingTypeOK, PairingTypeOK', ServerInv, FilesInv, JournalInv, ConnInv, ConfigFate,
         Fades, Phase', PairingNext
  PROVE  JournalInv'
<1>1. ASSUME journal' = journal, journal # None
      PROVE  JournalInv'
  <2> DEFINE t == journal.config.token
             i == journal.config.inst
  <2>1. /\ i = journal.attempt.inst /\ t = journal.attempt.poll /\ TokenOf(t, i) /\ Replaced(t)
        /\ journal.config.srcs \subseteq journal.registry /\ t \in drawn /\ i \in Inst
    BY <1>1 DEF JournalInv, TokenOf, PairingTypeOK, Journal, Config
  <2>2. (TokenOf(t, i))' /\ (Replaced(t))'
    BY <1>1, <2>1, Stable, ReplacedStays DEF TokenOf, Belongs, Columns, Spent
  <2> QED
    BY <1>1, <2>1, <2>2 DEF Phase, JournalInv
<1>2. ASSUME NEW p \in Conn, Commit(p), CurrentAttempt(p)
      PROVE  JournalInv'
  <2>1. /\ pc[p] = "commit" /\ my[p].id \in Inst /\ my[p].tok \in drawn
        /\ Belongs(my[p].tok, my[p].id) /\ Spent(my[p].tok) /\ Replaced(my[p].tok)
        /\ my[p].want \subseteq my[p].local
    BY <1>2 DEF Commit, ConnInv, ConnOK, Started, CurrentAttempt
  <2>2. UNCHANGED <<inst, config, attempt, drawn>>
    BY <1>2 DEF Commit, server
  <2>3. /\ attempt.inst = my[p].id /\ attempt.poll = my[p].tok
        /\ journal'.attempt = attempt /\ journal'.registry = my[p].local
        /\ journal'.config.inst = my[p].id /\ journal'.config.token = my[p].tok
        /\ journal'.config.srcs = Pairable(p)
    BY <1>2 DEF Commit, CurrentAttempt, SameAttempt
  <2>4. Pairable(p) \subseteq my[p].local
    BY <2>1 DEF Pairable
  <2> QED
    BY <2>1, <2>2, <2>3, <2>4
       DEF Phase, JournalInv, TokenOf, Replaced, Spent, Belongs, Columns, Alive
<1> QED
  BY <1>1, <1>2, JournalFate DEF JournalInv
-----------------------------------------------------------------------------
(* What a connect knows *)

(* A token leaves the configuration dead, or to the user's knowledge.      *)
LEMMA TokenLost ==
  ASSUME PairingTypeOK, PairingTypeOK', FilesInv, JournalInv, ConfigFate, Fades,
         unsure \subseteq unsure', NEW t, ConfigIs(t)
  PROVE  (ConfigIs(t))' \/ t \in unsure' \/ ~(\E i \in Inst : inst'[i].pend = t \/ inst'[i].device = t)
<1>1. config # None /\ config.token = t /\ t \in drawn
  BY DEF ConfigIs, FilesInv, TokenOf
<1>2. ~Alive(t) => ~(\E i \in Inst : inst'[i].pend = t \/ inst'[i].device = t)
  BY <1>1, Stable DEF Alive
<1>3. CASE UNCHANGED config \/ SameConnection
  BY <1>1, <1>3 DEF ConfigIs, SameConnection
<1>4. CASE Renewed
  <2>1. journal # None /\ journal.config \in Config /\ config' = journal.config
    BY <1>4 DEF Renewed, PairingTypeOK, Journal
  <2>2. config' # None
    BY <2>1, AbsentAssumption
  <2>3. Replaced(journal.config.token)
    BY <2>1 DEF JournalInv
  <2> QED
    BY <1>1, <1>2, <2>1, <2>2, <2>3 DEF Replaced, ConfigIs
<1>5. CASE config' = None /\ (config.token \in unsure' \/ ~Alive(config.token))
  BY <1>1, <1>2, <1>5
<1> QED
  BY <1>1, <1>3, <1>4, <1>5 DEF ConfigFate

(* A process that does not act: what it knows stays, and so does what it   *)
(* has on disk while it holds the lock.                                    *)
Bystander(q) ==
  /\ my'[q] = my[q] /\ pc'[q] = pc[q]
  /\ lock = q => UNCHANGED config
  /\ lock = q /\ SameAttempt(attempt, q) => UNCHANGED attempt
  /\ SameAttempt(attempt', q) => attempt' = attempt

(* A process that does not act changes nothing of what it knows, and       *)
(* keeps its files while it holds the lock.                                *)
LEMMA Bystanders ==
  ASSUME PairingTypeOK, NEW p \in Proc,
         \/ ConnectStep(p) \/ CommandStep(p) \/ Crash(p)
  PROVE  \A q \in Proc \ {p} : Bystander(q)
<1>1. /\ pc \in [Proc -> PCs] /\ my \in [Proc -> Memory] /\ lock \in Proc \cup {None}
      /\ None \notin Proc
  BY PairingAssumption DEF PairingTypeOK, Proc
<1>2. SUFFICES ASSUME NEW q \in Proc, q # p
               PROVE  Bystander(q)
  OBVIOUS
<1>3. CASE ConnectStep(p)
  <2>1. CASE Reconcile(p)
    BY <1>1, <1>2, <2>1
       DEF Reconcile, Bystander, SameAttempt, Goto, Block, files, Remember, RemoveConfig,
           DisableLocal
  <2>2. CASE Detect(p)
    BY <1>1, <1>2, <2>2 DEF Detect, Bystander, SameAttempt, Goto, files, Remember
  <2>3. CASE Prepare(p)
    BY <1>1, <1>2, <2>3 DEF Prepare, Bystander, SameAttempt, Goto, Enter, Invalidate
  <2>4. CASE CancelOld(p)
    BY <1>1, <1>2, <2>4 DEF CancelOld, Bystander, SameAttempt, Goto, Leave, files
  <2>5. CASE Identify(p)
    BY <1>1, <1>2, <2>5 DEF Identify, Bystander, SameAttempt, Goto, Block
  <2>6. CASE Begin(p)
    BY <1>1, <1>2, <2>6 DEF Begin, Bystander, SameAttempt, Goto, Block
  <2>7. CASE BeginStale(p)
    BY <1>1, <1>2, <2>7 DEF BeginStale, Bystander, SameAttempt, Goto, Block, files
  <2>8. CASE Start(p)
    BY <1>1, <1>2, <2>8 DEF Start, Bystander, SameAttempt, Goto, Enter, files
  <2>9. CASE StartFails(p)
    BY <1>1, <1>2, <2>9 DEF StartFails, Bystander, SameAttempt, Goto, Block, files
  <2>10. CASE Record(p)
    <3>1. attempt' = attempt \/ attempt'.by = p
      BY <2>10 DEF Record, Recorded, SameAttempt
    <3>2. SameAttempt(attempt', q) => attempt'.by = q
      BY DEF SameAttempt
    <3> QED
      BY <1>1, <1>2, <2>10, <3>1, <3>2 DEF Record, Leave, Bystander
  <2>11. CASE PollActive(p)
    BY <1>1, <1>2, <2>11 DEF PollActive, Bystander, SameAttempt, Goto, files
  <2>12. CASE PollFails(p)
    BY <1>1, <1>2, <2>12 DEF PollFails, Bystander, SameAttempt, Goto, files
  <2>13. CASE Commit(p)
    BY <1>1, <1>2, <2>13 DEF Commit, Bystander, SameAttempt
  <2>14. CASE WriteConfig(p)
    BY <1>1, <1>2, <2>14 DEF WriteConfig, Bystander, SameAttempt, Goto, Within
  <2>15. CASE WriteSources(p)
    BY <1>1, <1>2, <2>15 DEF WriteSources, Bystander, SameAttempt, Goto, Within
  <2>16. CASE UnlinkJournal(p)
    BY <1>1, <1>2, <2>16 DEF UnlinkJournal, Bystander, SameAttempt, Goto, Within
  <2>17. CASE UnlinkAttempt(p)
    BY <1>1, <1>2, <2>17 DEF UnlinkAttempt, Bystander, SameAttempt, Goto, Within
  <2>18. CASE Hooks(p)
    BY <1>1, <1>2, <2>18 DEF Hooks, Bystander, SameAttempt, Leave, files
  <2>19. CASE Abort(p)
    BY <1>1, <1>2, <2>19 DEF Abort, Bystander, SameAttempt, Goto, files
  <2>20. CASE Clear(p)
    BY <1>1, <1>2, <2>20 DEF Clear, Bystander, SameAttempt, Goto
  <2> QED
    BY <1>3, <2>1, <2>2, <2>3, <2>4, <2>5, <2>6, <2>7, <2>8, <2>9, <2>10, <2>11, <2>12, <2>13,
       <2>14, <2>15, <2>16, <2>17, <2>18, <2>19, <2>20
       DEF ConnectStep
<1>4. CASE CommandStep(p)
  <2>1. CASE Command(p)
    BY <1>1, <1>2, <2>1 DEF Command, Bystander, SameAttempt, Goto, Enter
  <2>2. CASE CancelFirst(p)
    BY <1>1, <1>2, <2>2 DEF CancelFirst, Bystander, SameAttempt, Goto, Within, files
  <2>3. CASE Revoke(p)
    BY <1>1, <1>2, <2>3 DEF Revoke, Bystander, SameAttempt, Goto, Within, files
  <2>4. CASE Disable(p)
    BY <1>1, <1>2, <2>4
       DEF Disable, Bystander, SameAttempt, Goto, Leave, RemoveConfig, DisableLocal
  <2>5. CASE ResetLocal(p)
    BY <1>1, <1>2, <2>5
       DEF ResetLocal, Bystander, SameAttempt, Goto, Leave, RemoveConfig, DisableLocal
  <2>6. CASE AddSource(p)
    BY <1>1, <1>2, <2>6 DEF AddSource, Bystander, SameAttempt, Goto, Leave
  <2>7. CASE RemoveRemote(p)
    BY <1>1, <1>2, <2>7 DEF RemoveRemote, Bystander, SameAttempt, Goto, Within, files
  <2>8. CASE WriteWithout(p)
    BY <1>1, <1>2, <2>8 DEF WriteWithout, Bystander, SameAttempt, Goto, Within
  <2>9. CASE DropSource(p)
    BY <1>1, <1>2, <2>9 DEF DropSource, Bystander, SameAttempt, Goto, Leave
  <2> QED
    BY <1>4, <2>1, <2>2, <2>3, <2>4, <2>5, <2>6, <2>7, <2>8, <2>9 DEF CommandStep
<1>5. CASE Crash(p)
  BY <1>1, <1>2, <1>5 DEF Crash, Bystander, SameAttempt, files
<1> QED
  BY <1>3, <1>4, <1>5

(* What a connect knows stays true while others act: tokens are drawn      *)
(* once, spent once, and a commit is guarded by the attempt on disk.       *)
LEMMA ConnStays ==
  ASSUME PairingTypeOK, PairingTypeOK', FilesInv, JournalInv, LockInv, ConfigFate, Fades,
         unsure \subseteq unsure', NEW q \in Conn, ConnOK(q), Bystander(q)
  PROVE  (ConnOK(q))'
<1>1. PICK t \in TokenOr, i \in Inst \cup {None} : t = my[q].tok /\ i = my[q].id
  BY DEF PairingTypeOK, Proc, Memory
<1>2. /\ my'[q].tok = t /\ my'[q].id = i /\ my'[q].want = my[q].want /\ my'[q].local = my[q].local
      /\ pc'[q] = pc[q] /\ q \in Proc
  BY <1>1 DEF Bystander, Proc
<1>3. /\ (Belongs(my[q].tok, my[q].id))' <=> (Belongs(t, i))'
      /\ (Spent(my[q].tok))' <=> (Spent(t))'
      /\ (Replaced(my[q].tok))' <=> (Replaced(t))'
      /\ (ConfigIs(my[q].tok))' <=> (ConfigIs(t))'
      /\ (Alive(my[q].tok))' <=> (Alive(t))'
      /\ (SameAttempt(attempt, q))' <=> SameAttempt(attempt', q)
  BY <1>2 DEF Belongs, Spent, Replaced, ConfigIs, Alive, Columns, SameAttempt, Bystander
<1>4. ASSUME pc[q] = "unlinkAttempt"
      PROVE  SameAttempt(attempt', q) /\ (ConfigIs(t))'
  <2>1. lock = q /\ SameAttempt(attempt, q) /\ ConfigIs(t)
    BY <1>1, <1>2, <1>4 DEF LockInv, LockPCs, ConnOK
  <2> QED
    BY <2>1 DEF Bystander, ConfigIs
<1>5. CASE pc[q] \in Started /\ t # None
  <2>1. t \in drawn /\ Belongs(t, i) /\ i \in Inst
    BY <1>1, <1>5 DEF ConnOK
  <2>2. /\ t \in drawn' /\ (Belongs(t, i))' /\ (Spent(t) => (Spent(t))')
        /\ (~Alive(t) => ~(Alive(t))')
    BY <2>1, Stable
  <2>3. ASSUME pc[q] = "commit", SameAttempt(attempt', q)
        PROVE  (Replaced(t))'
    <3>1. SameAttempt(attempt, q) /\ attempt.by = q
      BY <2>3 DEF Bystander, SameAttempt
    <3>2. journal = None
      BY <2>3, <3>1 DEF JournalInv, Writing
    <3>3. Replaced(t)
      BY <1>1, <2>3, <3>1 DEF ConnOK
    <3> QED
      BY <2>1, <3>2, <3>3, ReplacedStays
  <2>4. ASSUME pc[q] = "clear"
        PROVE  ~(Alive(t))' \/ t \in unsure' \/ (ConfigIs(t))'
    <3>1. ~Alive(t) \/ t \in unsure \/ ConfigIs(t)
      BY <1>1, <1>5, <2>4 DEF ConnOK
    <3>2. ConfigIs(t) => ~(Alive(t))' \/ t \in unsure' \/ (ConfigIs(t))'
      BY TokenLost DEF Alive
    <3> QED
      BY <2>2, <3>1, <3>2
  <2> QED
    BY <1>1, <1>2, <1>3, <1>4, <1>5, <2>1, <2>2, <2>3, <2>4 DEF ConnOK
<1>6. CASE ~(pc[q] \in Started /\ t # None)
  BY <1>1, <1>2, <1>3, <1>4, <1>6 DEF ConnOK, Started
<1> QED
  BY <1>5, <1>6

(* A cancellation that is answered, or not, leaves no live token behind    *)
(* unknown to the user.                                                    *)
LEMMA CancelledIsKnown ==
  ASSUME PairingTypeOK, ServerInv, PendingBelongs, KeptInv, UNCHANGED <<shown, drawn, config>>,
         NEW t \in TokenOr, t # None, SendCancel(t)
  PROVE  ~(Alive(t))' \/ t \in unsure' \/ (ConfigIs(t))'
<1>1. /\ ServerInv' /\ NoneOwnerless
      /\ t \in unsure' \/ \A i \in Inst : inst'[i].poll # t
      /\ unsure \subseteq unsure'
  BY SendCancelKept DEF ServerKept
<1>2. ASSUME \A i \in Inst : inst'[i].poll # t, NEW i \in Inst, inst'[i].pend = t \/ inst'[i].device = t
      PROVE  t \in unsure \/ ConfigIs(t)
  <2>1. inst'[i].pend # t
    BY <1>1, <1>2 DEF ServerInv, RowOK
  <2>2. (Ownerless(i))'
    BY <1>2, <2>1 DEF Ownerless
  <2>3. Ownerless(i) /\ inst[i].device = t
    BY <1>1, <1>2, <2>1, <2>2 DEF NoneOwnerless
  <2> QED
    BY <2>3 DEF Ownerless, KeptInv
<1> QED
  BY <1>1, <1>2 DEF Alive, ConfigIs

(* A connect knows what it should after each of its own steps. *)
LEMMA ConnActs ==
  ASSUME PairingTypeOK, PairingTypeOK', ServerInv, PendingBelongs, FilesInv, JournalInv, LockInv,
         ConnInv, KeptInv, Fades, NEW p \in Conn, ConnectStep(p)
  PROVE  (ConnOK(p))'
<1>1. /\ pc \in [Proc -> PCs] /\ my \in [Proc -> Memory] /\ p \in Proc /\ my[p] \in Memory
      /\ ConnOK(p) /\ None \notin drawn
  BY PairingAssumption DEF PairingTypeOK, Proc, ConnInv
<1>2. PICK t \in TokenOr, i \in Inst \cup {None} : t = my[p].tok /\ i = my[p].id
  BY <1>1 DEF Memory
<1>3. t \in drawn /\ i \in Inst /\ Belongs(t, i) => t \in drawn' /\ (Belongs(t, i))'
  BY Stable
<1>4. ASSUME my'[p].tok = t, my'[p].id = i
      PROVE  /\ (Belongs(my[p].tok, my[p].id))' <=> (Belongs(t, i))'
             /\ (Spent(my[p].tok))' <=> (Spent(t))'
             /\ (Replaced(my[p].tok))' <=> (Replaced(t))'
             /\ (ConfigIs(my[p].tok))' <=> (ConfigIs(t))'
             /\ (Alive(my[p].tok))' <=> (Alive(t))'
  BY <1>4 DEF Belongs, Spent, Replaced, ConfigIs, Alive, Columns
<1>5. Blank.tok = None /\ Blank.want = {}
  BY DEF Blank
<1>6. CASE \/ Reconcile(p) \/ Detect(p) \/ Prepare(p) \/ CancelOld(p) \/ Identify(p) \/ BeginStale(p)
  <2>1. CASE Reconcile(p)
    <3>1. pc'[p] = "detect"
      BY <1>1, <2>1 DEF Reconcile, Goto
    <3>2. \/ my' = [my EXCEPT ![p] = Blank]
          \/ \E c, j : my' = [my EXCEPT ![p] = [Blank EXCEPT !.snap = c, !.id = j]]
      BY <2>1 DEF Reconcile, Remember
    <3>3. my'[p].want = {}
      BY <1>1, <1>5, <3>2 DEF Blank
    <3> QED
      BY <3>1, <3>3 DEF ConnOK, Started, Writing
  <2>2. CASE Detect(p)
    BY <1>1, <2>2 DEF Detect, Goto, Remember, ConnOK, Started, Writing
  <2>3. CASE Prepare(p)
    BY <1>1, <2>3 DEF Prepare, Invalidate, Goto, ConnOK, Started, Writing
  <2>4. CASE CancelOld(p)
    BY <1>1, <2>4 DEF CancelOld, Goto, ConnOK, Started, Writing
  <2>5. CASE Identify(p)
    BY <1>1, <2>5 DEF Identify, Goto, ConnOK, Started, Writing, Memory
  <2>6. CASE BeginStale(p)
    BY <1>1, <1>5, <2>6 DEF BeginStale, Goto, ConnOK, Started, Writing
  <2> QED
    BY <1>6, <2>1, <2>2, <2>3, <2>4, <2>5, <2>6
<1>7. CASE Begin(p)
  BY <1>1, <1>7 DEF Begin, Goto, ConnOK, Started, Writing, Memory
<1>8. CASE Start(p)
  <2>1. PICK u \in Token \ drawn :
          /\ drawn' = drawn \cup {u} /\ my' = [my EXCEPT ![p].tok = u]
          /\ StartRoute(i, u, my[p].want, my[p].expected \ my[p].local)
    BY <1>2, <1>8 DEF Start, RequestStart
  <2>2. i \in Inst /\ pc' = [pc EXCEPT ![p] = "record"] /\ shown' = shown
    BY <1>1, <1>2, <1>8 DEF Start, Goto, ConnOK, Started
  <2>3. \A j \in Inst \ {i} : u \notin (Columns(j))'
    BY <2>1, <2>2, StartKept
  <2>4. /\ my'[p].tok = u /\ my'[p].id = i /\ my'[p].want = my[p].want
        /\ my'[p].local = my[p].local /\ pc'[p] = "record" /\ u # None /\ u \in drawn'
    BY <1>1, <1>2, <2>1, <2>2, PairingAssumption DEF Memory
  <2>5. (Belongs(my[p].tok, my[p].id))'
    BY <2>3, <2>4 DEF Belongs, Columns
  <2> QED
    BY <1>1, <2>2, <2>4, <2>5 DEF ConnOK, Started, Writing
<1>9. CASE StartFails(p)
  BY <1>1, <1>9 DEF StartFails, Goto, ConnOK, Started, Writing
<1>10. CASE Record(p)
  <2>1. CASE pc'[p] = "poll" /\ my' = my
    BY <1>1, <1>2, <1>3, <1>4, <1>10, <2>1 DEF Record, ConnOK, Started, Writing
  <2>2. CASE pc'[p] = "abort" /\ my' = [my EXCEPT ![p].tok = None]
    BY <1>1, <1>10, <2>2 DEF Record, ConnOK, Started, Writing, Memory
  <2> QED
    BY <1>1, <1>10, <2>1, <2>2 DEF Record
<1>11. CASE PollFails(p) \/ Commit(p) \/ WriteConfig(p) \/ WriteSources(p) \/ UnlinkAttempt(p)
  <2>1. /\ pc[p] \in {"poll", "commit", "unlinkAttempt"} \cup Writing
        /\ pc'[p] \in {"abort", "hooks"} \cup Writing /\ my' = my
    BY <1>1, <1>11 DEF PollFails, Commit, WriteConfig, WriteSources, UnlinkAttempt, Goto, Writing
  <2> QED
    BY <1>1, <1>2, <1>3, <1>4, <2>1 DEF ConnOK, Started, Writing
<1>12. CASE Hooks(p)
  <2>1. CASE pc'[p] = "off" /\ my'[p] = Blank
    BY <1>5, <2>1 DEF ConnOK, Started, Writing
  <2>2. CASE pc'[p] = "abort" /\ my' = my
    BY <1>1, <1>2, <1>3, <1>4, <1>12, <2>2 DEF Hooks, ConnOK, Started, Writing
  <2> QED
    BY <1>1, <1>12, <2>1, <2>2 DEF Hooks
<1>13. CASE Clear(p)
  BY <1>1, <1>5, <1>13 DEF Clear, Goto, ConnOK, Started, Writing
<1>14. CASE PollActive(p)
  <2>1. /\ pc[p] = "poll" /\ pc'[p] = "commit" /\ PollAnswer(i, t) = "active"
        /\ UNCHANGED <<inst, drawn, config, attempt, my>>
    BY <1>1, <1>2, <1>14 DEF PollActive, Goto, server, files
  <2>2. t \in drawn /\ t # None /\ i \in Inst /\ Belongs(t, i) /\ my[p].want \subseteq my[p].local
    BY <1>1, <1>2, <2>1 DEF ConnOK, Started
  <2>3. inst[i].pend = None /\ inst[i].device = t
    BY <2>1 DEF PollAnswer
  <2>4. Spent(t)
    BY <2>2, <2>3 DEF Spent, Belongs, Columns
  <2>5. ASSUME SameAttempt(attempt, p)
        PROVE  Replaced(t)
    <3>1. attempt # None /\ attempt.by = p /\ attempt.inst = i
      BY <1>2, <2>5 DEF SameAttempt
    <3>2. journal = None
      BY <2>1, <3>1 DEF JournalInv, Writing
    <3>3. ASSUME config # None
          PROVE  config.token = t \/ ~Alive(config.token)
      <4>1. config.inst = i /\ TokenOf(config.token, i) /\ config.token # None
        BY <1>1, <3>1, <3>2, <3>3 DEF FilesInv, ConfigIsUsable, TokenOf
      <4>2. \A j \in Inst : inst[j].pend # config.token
        BY <4>1 DEF TokenOf, Spent
      <4>3. \A j \in Inst \ {i} : inst[j].device # config.token
        BY <4>1 DEF TokenOf, Belongs, Columns
      <4> QED
        BY <2>3, <4>2, <4>3 DEF Alive
    <3> QED
      BY <3>3 DEF Replaced
  <2>6. (Spent(t))' /\ (SameAttempt(attempt, p) => (Replaced(t))')
    BY <2>1, <2>4, <2>5 DEF Spent, Replaced, Alive
  <2>7. (SameAttempt(attempt, p))' <=> SameAttempt(attempt, p)
    BY <2>1 DEF SameAttempt
  <2> QED
    BY <1>2, <1>3, <1>4, <2>1, <2>2, <2>6, <2>7 DEF ConnOK, Started, Writing
<1>15. CASE UnlinkJournal(p)
  <2>1. /\ pc[p] = "unlinkJournal" /\ pc'[p] = "unlinkAttempt"
        /\ UNCHANGED <<config, attempt, my>>
    BY <1>1, <1>15 DEF UnlinkJournal, Goto
  <2>2. /\ journal # None /\ SameAttempt(journal.attempt, p) /\ attempt = journal.attempt
        /\ config = journal.config /\ journal.config.token = attempt.poll
    <3>1. journal # None /\ SameAttempt(journal.attempt, p)
      BY <1>1, <2>1 DEF LockInv, Writing
    <3>2. journal.attempt.by = p
      BY <3>1 DEF SameAttempt
    <3> QED
      BY <2>1, <3>1, <3>2 DEF JournalInv
  <2>3. SameAttempt(attempt, p) /\ attempt.poll = t
    BY <1>2, <2>2 DEF SameAttempt
  <2>4. config # None
    BY <2>2, AbsentAssumption DEF PairingTypeOK, Journal
  <2>5. (SameAttempt(attempt, p))' /\ (ConfigIs(t))'
    BY <2>1, <2>2, <2>3, <2>4 DEF SameAttempt, ConfigIs
  <2> QED
    BY <1>1, <1>2, <1>3, <1>4, <2>1, <2>5 DEF ConnOK, Started, Writing
<1>16. CASE Abort(p)
  <2>1. /\ pc[p] = "abort" /\ pc'[p] = "clear" /\ UNCHANGED <<config, my, shown, drawn>>
        /\ SendCancel(t)
    BY <1>1, <1>2, <1>16 DEF Abort, Goto, files
  <2>2. t # None => ~(Alive(t))' \/ t \in unsure' \/ (ConfigIs(t))'
    BY <1>1, <1>2, <2>1, CancelledIsKnown DEF Memory
  <2> QED
    BY <1>1, <1>2, <1>3, <1>4, <2>1, <2>2 DEF ConnOK, Started, Writing
<1> QED
  BY <1>6, <1>7, <1>8, <1>9, <1>10, <1>11, <1>12, <1>13, <1>14, <1>15, <1>16 DEF ConnectStep

(* Both cases together, and the death of a connect. *)
LEMMA ConnStep ==
  ASSUME PairingTypeOK, PairingTypeOK', ServerInv, PendingBelongs, FilesInv, JournalInv, LockInv,
         ConnInv, KeptInv, ConfigFate, Fades, unsure \subseteq unsure', PairingNext
  PROVE  ConnInv'
<1>1. SUFFICES ASSUME NEW q \in Conn
               PROVE  (ConnOK(q))'
  BY DEF ConnInv
<1>2. ConnOK(q) /\ q \in Proc
  BY DEF ConnInv, Proc
<1>3. Bystander(q) => (ConnOK(q))'
  BY <1>2, ConnStays
<1>4. CASE \/ Approve \/ RevokeInBrowser \/ DisconnectInBrowser \/ Expire \/ Sync
  BY <1>3, <1>4 DEF Approve, RevokeInBrowser, DisconnectInBrowser, Expire, Sync, files, Bystander
<1>5. CASE RecoverCommit \/ Rejected
  <2>1. lock = None /\ UNCHANGED <<pc, my>> /\ attempt' \in {attempt, None}
    BY <1>5 DEF RecoverCommit, Rejected, DisableLocal, RemoveConfig
  <2>2. Bystander(q)
    BY <1>2, <2>1, PairingAssumption DEF Bystander, SameAttempt, Proc
  <2> QED
    BY <1>3, <2>2
<1>6. ASSUME NEW p \in Conn, ConnectStep(p)
      PROVE  (ConnOK(q))'
  BY <1>2, <1>3, <1>6, ConnActs, Bystanders DEF Proc
<1>7. ASSUME NEW p \in Cmd, CommandStep(p)
      PROVE  (ConnOK(q))'
  BY <1>2, <1>3, <1>7, Bystanders, PairingAssumption DEF Proc
<1>8. ASSUME NEW p \in Proc, Crash(p)
      PROVE  (ConnOK(q))'
  <2>1. CASE q = p
    BY <1>2, <1>8, <2>1 DEF Crash, PairingTypeOK, ConnOK, Started, Writing, Blank
  <2>2. CASE q # p
    BY <1>2, <1>3, <1>8, <2>2, Bystanders
  <2> QED
    BY <2>1, <2>2
<1> QED
  BY <1>4, <1>5, <1>6, <1>7, <1>8 DEF PairingNext, PairingStep
-----------------------------------------------------------------------------
(* The other commands *)

(* The request that revokes the configuration's installation leaves its    *)
(* token dead, or the user in doubt.                                       *)
LEMMA RevokeIsKnown ==
  ASSUME PairingTypeOK, ServerInv, FilesInv, config # None, Send(RevokeSelf)
  PROVE  config.token \in unsure' \/ ~(\E i \in Inst : inst'[i].pend = config.token
                                                      \/ inst'[i].device = config.token)
<1>1. TokenOf(config.token, config.inst) /\ config.inst \in Inst /\ config.token \in Token
  BY DEF FilesInv, PairingTypeOK, Config
<1>2. config.token # None
  BY <1>1, PairingAssumption
<1>3. CASE ~Authorized(config.inst, config.token)
  <2>1. ~Alive(config.token) /\ UNCHANGED inst
    BY <1>3, RefusedIsDead DEF Send, server
  <2> QED
    BY <2>1 DEF Alive
<1>4. CASE RevokeSelf(config.inst)
  <2>1. /\ inst'[config.inst].pend = None /\ inst'[config.inst].device = None
        /\ \A j \in Inst \ {config.inst} : inst'[j] = inst[j]
    BY <1>1, <1>4, RevokeFields
  <2>2. \A j \in Inst \ {config.inst} : inst[j].pend # config.token /\ inst[j].device # config.token
    BY <1>1, <1>2 DEF TokenOf, Belongs, Columns
  <2> QED
    BY <1>2, <2>1, <2>2
<1>5. CASE unsure' = unsure \cup {config.token}
  BY <1>5
<1> QED
  BY <1>3, <1>4, <1>5 DEF Send

(* A connect never is where another command is. *)
LEMMA ConnectMoves ==
  ASSUME PairingTypeOK, NEW p \in Conn, ConnectStep(p)
  PROVE  pc'[p] \notin {"disable", "dropSource", "add", "addSource"}
<1>1. pc \in [Proc -> PCs] /\ p \in Proc
  BY DEF PairingTypeOK, Proc
<1>2. CASE \/ Reconcile(p) \/ Detect(p) \/ Prepare(p) \/ CancelOld(p) \/ Identify(p)
           \/ Begin(p) \/ BeginStale(p) \/ Start(p) \/ StartFails(p) \/ Record(p)
  BY <1>1, <1>2 DEF Reconcile, Detect, Prepare, CancelOld, Identify, Begin, BeginStale, Start,
                    StartFails, Record, Goto
<1>3. CASE \/ PollActive(p) \/ PollFails(p) \/ Commit(p) \/ WriteConfig(p) \/ WriteSources(p)
           \/ UnlinkJournal(p) \/ UnlinkAttempt(p) \/ Hooks(p) \/ Abort(p) \/ Clear(p)
  BY <1>1, <1>3 DEF PollActive, PollFails, Commit, WriteConfig, WriteSources, UnlinkJournal,
                    UnlinkAttempt, Hooks, Abort, Clear, Goto
<1> QED
  BY <1>2, <1>3 DEF ConnectStep

(* The other commands delete local state only when the token that state    *)
(* holds is dead or the user has been told.                                *)
LEMMA CmdStep ==
  ASSUME PairingTypeOK, PairingTypeOK', ServerInv, FilesInv, LockInv, CmdInv, Fades,
         unsure \subseteq unsure', PairingNext
  PROVE  CmdInv'
<1>1. SUFFICES ASSUME NEW q \in Proc
               PROVE  (CmdOK(q))'
  BY DEF CmdInv
<1>2. /\ pc \in [Proc -> PCs] /\ my \in [Proc -> Memory] /\ lock \in Proc \cup {None}
      /\ None \notin Proc /\ CmdOK(q)
  BY PairingAssumption DEF PairingTypeOK, Proc, CmdInv
<1>3. ASSUME my'[q] = my[q], pc'[q] = pc[q], lock = q => UNCHANGED config
      PROVE  (CmdOK(q))'
  <2>1. CASE pc[q] \in {"disable", "dropSource"}
    <3>1. UNCHANGED config
      BY <1>3, <2>1 DEF LockInv, LockPCs, Attemptless
    <3>2. config # None => config.token \in drawn
      BY DEF FilesInv, TokenOf
    <3>3. config # None /\ ~Alive(config.token) => ~(Alive(config.token))'
      BY <3>1, <3>2, Stable DEF Alive
    <3> QED
      BY <1>2, <1>3, <2>1, <3>1, <3>3 DEF CmdOK
  <2>2. CASE pc[q] \notin {"disable", "dropSource"}
    BY <1>2, <1>3, <2>2 DEF CmdOK
  <2> QED
    BY <2>1, <2>2
<1>4. CASE Approve \/ RevokeInBrowser \/ DisconnectInBrowser \/ Expire \/ Sync
  BY <1>3, <1>4 DEF Approve, RevokeInBrowser, DisconnectInBrowser, Expire, Sync, files
<1>5. CASE RecoverCommit \/ Rejected
  BY <1>2, <1>3, <1>5 DEF RecoverCommit, Rejected
<1>6. ASSUME NEW p \in Conn, ConnectStep(p), q = p
      PROVE  (CmdOK(q))'
  <2>1. pc'[q] \notin {"disable", "dropSource", "add", "addSource"}
    BY <1>2, <1>6, ConnectMoves
  <2> QED
    BY <2>1 DEF CmdOK
<1>7. ASSUME NEW p \in Cmd, CommandStep(p), q = p
      PROVE  (CmdOK(q))'
  <2>1. CASE Command(p)
    <3>1. PICK c \in Client, t \in TokenOr :
            my' = [my EXCEPT ![p] = [Blank EXCEPT !.which = c, !.tok = t]]
      BY <2>1 DEF Command, PairingTypeOK, Attempt, TokenOr
    <3>2. my'[p].which \in Client
      BY <1>2, <1>7, <3>1 DEF Blank
    <3> QED
      BY <1>2, <1>7, <2>1, <3>2 DEF Command, Goto, CmdOK
  <2>2. CASE CancelFirst(p)
    <3>1. my'[p].which = my[p].which
      BY <1>2, <1>7, <2>2 DEF CancelFirst, Memory
    <3> QED
      BY <1>2, <1>7, <2>2, <3>1 DEF CancelFirst, Goto, CmdOK
  <2>3. CASE Revoke(p)
    <3>1. config # None => config.token \in unsure' \/ ~(\E i \in Inst : inst'[i].pend = config.token
                                                                        \/ inst'[i].device = config.token)
      BY <2>3, RevokeIsKnown DEF Revoke
    <3>2. UNCHANGED config /\ pc'[p] = "disable"
      BY <1>2, <1>7, <2>3 DEF Revoke, Goto, files
    <3> QED
      BY <1>7, <3>1, <3>2 DEF CmdOK, Alive
  <2>4. CASE WriteWithout(p)
    <3>1. pc'[p] = "dropSource" /\ UNCHANGED my
      BY <1>2, <1>7, <2>4 DEF WriteWithout, Goto
    <3>2. ASSUME config' # None
          PROVE  my[p].which \notin config'.srcs
      <4>1. config \in Config /\ config' = [config EXCEPT !.srcs = config.srcs \ {my[p].which}]
        BY <2>4, <3>2 DEF WriteWithout, PairingTypeOK
      <4> QED
        BY <4>1 DEF Config
    <3> QED
      BY <1>7, <3>1, <3>2 DEF CmdOK
  <2>5. CASE \/ Disable(p) \/ ResetLocal(p) \/ AddSource(p) \/ RemoveRemote(p) \/ DropSource(p)
    <3>1. pc'[p] \in {"off", "writeWithout"}
      BY <1>2, <1>7, <2>5 DEF Disable, ResetLocal, AddSource, RemoveRemote, DropSource, Goto
    <3> QED
      BY <1>7, <3>1 DEF CmdOK
  <2> QED
    BY <1>7, <2>1, <2>2, <2>3, <2>4, <2>5 DEF CommandStep
<1>8. ASSUME NEW p \in Proc, Crash(p), q = p
      PROVE  (CmdOK(q))'
  BY <1>2, <1>8 DEF Crash, CmdOK
<1>9. ASSUME NEW p \in Proc, q # p, \/ ConnectStep(p) \/ CommandStep(p) \/ Crash(p)
      PROVE  (CmdOK(q))'
  BY <1>3, <1>9, Bystanders DEF Bystander
<1> QED
  BY <1>4, <1>5, <1>6, <1>7, <1>8, <1>9 DEF PairingNext, PairingStep, Proc
-----------------------------------------------------------------------------
(* Every live token that was shown is kept. *)

(* A token is shown to the user only by the connect that has recorded      *)
(* its attempt.                                                            *)
LEMMA ShownFate ==
  ASSUME PairingNext
  PROVE  shown' = shown \/ \E p \in Conn : /\ Record(p) /\ attempt # None /\ Recorded(p)
                                           /\ shown' = shown \cup {my[p].tok}
<1>1. ASSUME NEW p \in Conn, Record(p)
      PROVE  shown' = shown \/ (attempt # None /\ Recorded(p) /\ shown' = shown \cup {my[p].tok})
  BY <1>1 DEF Record
<1>2. ASSUME NEW p \in Conn, ConnectStep(p), ~Record(p)
      PROVE  shown' = shown
  <2>1. CASE \/ Reconcile(p) \/ Detect(p) \/ Prepare(p) \/ CancelOld(p) \/ Identify(p)
             \/ Begin(p) \/ BeginStale(p) \/ Start(p) \/ StartFails(p)
    BY <2>1
       DEF Reconcile, Detect, Prepare, CancelOld, Identify, Begin, BeginStale, Start, StartFails
  <2>2. CASE \/ PollActive(p) \/ PollFails(p) \/ Commit(p) \/ WriteConfig(p) \/ WriteSources(p)
             \/ UnlinkJournal(p) \/ UnlinkAttempt(p) \/ Hooks(p) \/ Abort(p) \/ Clear(p)
    BY <2>2 DEF PollActive, PollFails, Commit, WriteConfig, WriteSources, UnlinkJournal,
                UnlinkAttempt, Hooks, Abort, Clear
  <2> QED
    BY <1>2, <2>1, <2>2 DEF ConnectStep
<1>3. ASSUME NEW p \in Cmd, CommandStep(p)
      PROVE  shown' = shown
  BY <1>3 DEF CommandStep, Command, CancelFirst, Revoke, Disable, ResetLocal, AddSource,
              RemoveRemote, WriteWithout, DropSource
<1>4. CASE \/ Approve \/ RevokeInBrowser \/ DisconnectInBrowser \/ Expire \/ RecoverCommit
           \/ Rejected \/ Sync \/ \E p \in Proc : Crash(p)
  BY <1>4 DEF Approve, RevokeInBrowser, DisconnectInBrowser, Expire, RecoverCommit, Rejected, Sync,
              Crash
<1> QED
  BY <1>1, <1>2, <1>3, <1>4 DEF PairingNext, PairingStep

(* The token of the attempt on disk goes with its file to whoever cancels  *)
(* it, to the configuration, or to the user's knowledge.                   *)
LEMMA AttemptKept ==
  ASSUME PairingTypeOK, PairingTypeOK', ServerInv, FilesInv, JournalInv, LockInv, ConnInv, Fades,
         unsure \subseteq unsure', PairingNext,
         NEW t \in Token, t \in drawn, attempt # None, attempt.poll = t, (Alive(t))'
  PROVE  (Kept(t))'
<1>1. /\ pc \in [Proc -> PCs] /\ my \in [Proc -> Memory] /\ lock \in Proc \cup {None}
      /\ None \notin Proc /\ t # None /\ attempt \in Attempt
  BY PairingAssumption DEF PairingTypeOK, Proc
<1>2. UNCHANGED attempt => (Kept(t))'
  BY DEF Kept
<1>3. unsure' = unsure \cup Dropped => (Kept(t))'
  BY <1>1 DEF Kept, Dropped
<1>4. ASSUME NEW p \in Conn, ConnectStep(p)
      PROVE  (Kept(t))'
  <2>0. p \in Proc
    BY DEF Proc
  <2>1. CASE Reconcile(p)
    BY <1>2, <1>3, <2>1 DEF Reconcile, files
  <2>2. CASE Detect(p)
    BY <1>1, <1>2, <1>3, <2>0, <2>2 DEF Detect, Goto, files, LockInv, Attemptless, Cancelling
  <2>3. CASE Prepare(p)
    <3>1. my'[p].tok = t /\ pc'[p] = "cancelOld"
      BY <1>1, <2>0, <2>3 DEF Prepare, Invalidate, Goto, Memory
    <3> QED
      BY <2>0, <3>1 DEF Kept, Cancelling
  <2>4. CASE CancelOld(p)
    BY <1>1, <1>2, <1>3, <2>0, <2>4
       DEF CancelOld, Goto, Leave, files, LockInv, Attemptless, Cancelling
  <2>5. CASE Identify(p)
    BY <1>1, <1>2, <1>3, <2>0, <2>5 DEF Identify, Goto, Block, LockInv, Attemptless, Cancelling
  <2>6. CASE Begin(p)
    BY <1>3, <2>6 DEF Begin
  <2>7. CASE BeginStale(p)
    BY <1>1, <1>2, <1>3, <2>0, <2>7
       DEF BeginStale, Goto, Block, files, LockInv, Attemptless, Cancelling
  <2>8. CASE Start(p)
    BY <1>1, <1>2, <1>3, <2>0, <2>8
       DEF Start, Goto, Enter, files, LockInv, Attemptless, Cancelling
  <2>9. CASE StartFails(p)
    BY <1>1, <1>2, <1>3, <2>0, <2>9
       DEF StartFails, Goto, Block, files, LockInv, Attemptless, Cancelling
  <2>10. CASE Record(p)
    BY <1>1, <1>2, <2>10 DEF Record, Recorded
  <2>11. CASE PollActive(p)
    BY <1>1, <1>2, <1>3, <2>0, <2>11 DEF PollActive, Goto, files, LockInv, Attemptless, Cancelling
  <2>12. CASE PollFails(p)
    BY <1>1, <1>2, <1>3, <2>0, <2>12 DEF PollFails, Goto, files, LockInv, Attemptless, Cancelling
  <2>13. CASE Commit(p)
    BY <1>1, <1>2, <1>3, <2>0, <2>13 DEF Commit, LockInv, Attemptless, Cancelling
  <2>14. CASE WriteConfig(p)
    BY <1>1, <1>2, <1>3, <2>0, <2>14
       DEF WriteConfig, Goto, Within, LockInv, Attemptless, Cancelling
  <2>15. CASE WriteSources(p)
    BY <1>1, <1>2, <1>3, <2>0, <2>15
       DEF WriteSources, Goto, Within, LockInv, Attemptless, Cancelling
  <2>16. CASE UnlinkJournal(p)
    BY <1>1, <1>2, <1>3, <2>0, <2>16
       DEF UnlinkJournal, Goto, Within, LockInv, Attemptless, Cancelling
  <2>17. CASE UnlinkAttempt(p)
    <3>1. SameAttempt(attempt, p) /\ ConfigIs(my[p].tok) /\ UNCHANGED config
      BY <2>17 DEF UnlinkAttempt, Goto, ConnInv, ConnOK
    <3> QED
      BY <3>1 DEF SameAttempt, Kept, ConfigIs
  <2>18. CASE Hooks(p)
    BY <1>1, <1>2, <1>3, <2>0, <2>18 DEF Hooks, Leave, files, LockInv, Attemptless, Cancelling
  <2>19. CASE Abort(p)
    BY <1>1, <1>2, <1>3, <2>0, <2>19 DEF Abort, Goto, files, LockInv, Attemptless, Cancelling
  <2>20. CASE Clear(p)
    <3>1. CASE SameAttempt(attempt, p)
      <4>1. my[p].tok = t /\ pc[p] = "clear" /\ UNCHANGED <<inst, config, unsure>>
        BY <2>20, <3>1 DEF Clear, Goto, SameAttempt, server
      <4>2. ~Alive(t) \/ t \in unsure \/ ConfigIs(t)
        BY <1>1, <4>1 DEF ConnInv, ConnOK
      <4> QED
        BY <4>1, <4>2 DEF Kept, Alive, ConfigIs
    <3>2. CASE ~SameAttempt(attempt, p)
      BY <1>2, <2>20, <3>2 DEF Clear
    <3> QED
      BY <3>1, <3>2
  <2> QED
    BY <1>4, <2>1, <2>2, <2>3, <2>4, <2>5, <2>6, <2>7, <2>8, <2>9, <2>10, <2>11, <2>12, <2>13,
       <2>14, <2>15, <2>16, <2>17, <2>18, <2>19, <2>20
       DEF ConnectStep
<1>5. ASSUME NEW p \in Cmd, CommandStep(p)
      PROVE  (Kept(t))'
  <2>0. p \in Proc
    BY DEF Proc
  <2>1. CASE Command(p)
    <3>1. my'[p].tok = t /\ pc'[p] \in Cancelling
      BY <1>1, <2>0, <2>1 DEF Command, Goto, Blank, Cancelling
    <3> QED
      BY <2>0, <3>1 DEF Kept
  <2>2. CASE CancelFirst(p)
    BY <1>1, <1>2, <1>3, <2>0, <2>2
       DEF CancelFirst, Goto, Within, files, LockInv, Attemptless, Cancelling
  <2>3. CASE Revoke(p)
    BY <1>1, <1>2, <1>3, <2>0, <2>3
       DEF Revoke, Goto, Within, files, LockInv, Attemptless, Cancelling
  <2>4. CASE Disable(p)
    BY <1>1, <1>2, <1>3, <2>0, <2>4
       DEF Disable, Goto, Leave, RemoveConfig, DisableLocal, LockInv, Attemptless, Cancelling
  <2>5. CASE ResetLocal(p)
    BY <1>1, <1>2, <1>3, <2>0, <2>5
       DEF ResetLocal, Goto, Leave, RemoveConfig, DisableLocal, LockInv, Attemptless, Cancelling
  <2>6. CASE AddSource(p)
    BY <1>1, <1>2, <1>3, <2>0, <2>6 DEF AddSource, Goto, Leave, LockInv, Attemptless, Cancelling
  <2>7. CASE RemoveRemote(p)
    BY <1>1, <1>2, <1>3, <2>0, <2>7
       DEF RemoveRemote, Goto, Within, files, LockInv, Attemptless, Cancelling
  <2>8. CASE WriteWithout(p)
    BY <1>1, <1>2, <1>3, <2>0, <2>8
       DEF WriteWithout, Goto, Within, LockInv, Attemptless, Cancelling
  <2>9. CASE DropSource(p)
    BY <1>1, <1>2, <1>3, <2>0, <2>9 DEF DropSource, Goto, Leave, LockInv, Attemptless, Cancelling
  <2> QED
    BY <1>5, <2>1, <2>2, <2>3, <2>4, <2>5, <2>6, <2>7, <2>8, <2>9 DEF CommandStep
<1>6. ASSUME NEW p \in Proc, Crash(p)
      PROVE  (Kept(t))'
  BY <1>1, <1>2, <1>3, <1>6 DEF Crash, files, LockInv, Attemptless, Cancelling
<1>7. CASE RecoverCommit
  <2>1. /\ journal # None /\ journal.config \in Config /\ attempt = journal.attempt
        /\ journal.config.token = t
    BY <1>7 DEF RecoverCommit, PairingTypeOK, Journal, JournalInv
  <2>2. config' = journal.config
    BY <1>7, <2>1 DEF RecoverCommit, FilesInv
  <2> QED
    BY <2>1, <2>2, AbsentAssumption DEF Kept, ConfigIs
<1>8. CASE Rejected
  BY <1>3, <1>8 DEF Rejected
<1>9. CASE Approve \/ RevokeInBrowser \/ DisconnectInBrowser \/ Expire \/ Sync
  BY <1>1, <1>2, <1>3, <1>9
     DEF Approve, RevokeInBrowser, DisconnectInBrowser, Expire, Sync, Goto, Block, Enter, Leave,
         Within, files, RemoveConfig, DisableLocal, LockInv, Attemptless, Cancelling
<1> QED
  BY <1>4, <1>5, <1>6, <1>7, <1>8, <1>9 DEF PairingNext, PairingStep

(* The heart of the proof: no step strands a live token that was shown.    *)
(* Whoever deletes the last place on disk that holds it has made the       *)
(* server drop it first, or has told the user that the outcome is          *)
(* unsure.                                                                 *)
LEMMA KeptShown ==
  ASSUME PairingTypeOK, PairingTypeOK', ServerInv, PendingBelongs, FilesInv, JournalInv, LockInv,
         ConnInv, KeptInv, ConfigFate, Fades, unsure \subseteq unsure', PairingNext,
         NEW t \in shown', (Alive(t))'
  PROVE  (Kept(t))'
<1>1. CASE t \notin shown
  <2>1. PICK p \in Conn : Record(p) /\ attempt # None /\ Recorded(p) /\ t = my[p].tok
    BY <1>1, ShownFate
  <2>2. attempt \in Attempt /\ attempt' = [attempt EXCEPT !.poll = t] /\ attempt' \in Attempt \cup {None}
    BY <2>1 DEF Record, PairingTypeOK
  <2>3. t \in TokenOr
    BY <2>1 DEF PairingTypeOK, Memory, Proc
  <2>4. attempt'.poll = t /\ attempt' \in Attempt
    BY <2>2, <2>3 DEF Attempt
  <2> QED
    BY <2>4, AbsentAssumption DEF Kept
<1>2. CASE t \in shown
  <2>1. t \in drawn /\ t \in Token /\ t # None
    BY <1>2, PairingAssumption DEF ServerInv, PairingTypeOK
  <2>2. Kept(t)
    BY <1>2, <2>1, Stable DEF KeptInv
  <2>3. CASE t \in unsure
    BY <2>3 DEF Kept
  <2>4. CASE ConfigIs(t)
    BY <2>4, TokenLost DEF Kept, Alive
  <2>5. CASE attempt # None /\ attempt.poll = t
    BY <2>1, <2>5, AttemptKept
  <2>6. ASSUME NEW q \in Proc, pc[q] \in Cancelling, my[q].tok = t
        PROVE  (Kept(t))'
    <3>1. my'[q] = my[q] /\ pc'[q] = pc[q] => (Kept(t))'
      BY <2>6 DEF Kept
    <3>2. ASSUME NEW p \in Proc, q # p, \/ ConnectStep(p) \/ CommandStep(p) \/ Crash(p)
          PROVE  (Kept(t))'
      BY <3>1, <3>2, Bystanders DEF Bystander
    <3>3. CASE \/ Approve \/ RevokeInBrowser \/ DisconnectInBrowser \/ Expire \/ RecoverCommit
               \/ Rejected \/ Sync
      BY <3>1, <3>3 DEF Approve, RevokeInBrowser, DisconnectInBrowser, Expire, RecoverCommit,
                        Rejected, Sync
    <3>4. ASSUME NEW p \in Conn, ConnectStep(p), q = p
          PROVE  (Kept(t))'
      <4>1. CancelOld(p)
        BY <2>6, <3>4 DEF ConnectStep, Cancelling, Reconcile, Detect, Prepare, Identify, Begin,
             BeginStale, Start, StartFails, Record, PollActive, PollFails, Commit, WriteConfig,
             WriteSources, UnlinkJournal, UnlinkAttempt, Hooks, Abort, Clear, Goto
      <4>2. SendCancel(t) /\ UNCHANGED <<shown, drawn, config>>
        BY <2>6, <3>4, <4>1 DEF CancelOld, files
      <4> QED
        BY <2>1, <4>2, CancelledIsKnown DEF Kept, TokenOr
    <3>5. ASSUME NEW p \in Cmd, CommandStep(p), q = p
          PROVE  (Kept(t))'
      <4>1. CancelFirst(p)
        BY <2>6, <3>5 DEF CommandStep, Cancelling, Command, Revoke, Disable, ResetLocal, AddSource,
             RemoveRemote, WriteWithout, DropSource, Goto
      <4>2. SendCancel(t) /\ UNCHANGED <<shown, drawn, config>>
        BY <2>6, <3>5, <4>1 DEF CancelFirst, files
      <4> QED
        BY <2>1, <4>2, CancelledIsKnown DEF Kept, TokenOr
    <3>6. ASSUME NEW p \in Proc, Crash(p), q = p
          PROVE  (Kept(t))'
      BY <2>1, <2>6, <3>6 DEF Crash, Cancelling, Kept
    <3> QED
      BY <3>2, <3>3, <3>4, <3>5, <3>6 DEF PairingNext, PairingStep, Proc
  <2> QED
    BY <2>2, <2>3, <2>4, <2>5, <2>6 DEF Kept
<1> QED
  BY <1>1, <1>2

(* A device token beside which another pairing is shown is in the          *)
(* configuration, or unsure.                                               *)
LEMMA OrphanKept ==
  ASSUME PairingTypeOK, PairingTypeOK', ServerInv, PendingBelongs, FilesInv, JournalInv, LockInv,
         ConnInv, KeptInv, ConfigFate, Fades, unsure \subseteq unsure', NoneOwnerless \/ Restarted,
         NEW i \in Inst, (Ownerless(i))', NEW d, d = inst'[i].device
  PROVE  d \in unsure' \/ (ConfigIs(d))'
<1>1. d # None /\ inst'[i].poll # d
  BY DEF Ownerless
<1>2. (Alive(d))'
  BY DEF Alive
<1>3. d \in unsure \/ ConfigIs(d) => d \in unsure' \/ (ConfigIs(d))'
  BY <1>2, TokenLost DEF Alive
<1>4. inst[i].device = d /\ inst[i].poll # d => d \in unsure \/ ConfigIs(d)
  BY <1>1 DEF KeptInv
<1>5. CASE NoneOwnerless
  BY <1>3, <1>4, <1>5 DEF NoneOwnerless, Ownerless
<1>6. CASE Restarted
  <2>1. PICK p \in Conn, u \in Token \ drawn :
          /\ RequestStart(p, u) /\ (Start(p) \/ StartFails(p))
          /\ drawn' = drawn \cup {u}
          /\ StartRoute(my[p].id, u, my[p].want, my[p].expected \ my[p].local)
    BY <1>6 DEF Restarted, RequestStart
  <2>2. /\ pc[p] = "start" /\ lock = None /\ shown' = shown /\ my[p].id \in Inst
        /\ my[p].tok = None /\ UNCHANGED config
    BY <2>1 DEF Start, StartFails, Enter, Block, Goto, ConnInv, ConnOK, Started, files
  <2>3. /\ inst'[my[p].id].device = inst[my[p].id].device
        /\ \A j \in Inst \ {my[p].id} : inst'[j] = inst[j] \/ inst'[j].device = None
    BY <2>1, <2>2, StartKept
  <2>4. CASE i # my[p].id
    BY <1>1, <1>3, <1>4, <2>3, <2>4
  <2>5. CASE i = my[p].id
    <3>1. inst[i].device = d
      BY <2>3, <2>5
    <3>2. CASE inst[i].poll # d
      BY <1>3, <1>4, <3>1, <3>2
    <3>3. CASE inst[i].poll = d /\ ~SameAttempt(attempt, p)
      BY <1>1, <2>1, <2>5, <3>3 DEF RequestStart
    <3>4. CASE SameAttempt(attempt, p)
      <4>1. attempt.poll = None
        BY <2>2, <3>4 DEF SameAttempt
      <4>2. d \in shown /\ Alive(d)
        BY <1>1, <3>1 DEF ServerInv, RowOK, Alive
      <4>3. Kept(d)
        BY <4>2 DEF KeptInv
      <4>4. \A q \in Proc : pc[q] \notin Cancelling
        BY <2>2, PairingAssumption DEF LockInv, LockPCs, Proc
      <4> QED
        BY <1>1, <1>3, <4>1, <4>3, <4>4 DEF Kept
    <3> QED
      BY <3>2, <3>3, <3>4
  <2> QED
    BY <2>4, <2>5
<1> QED
  BY <1>5, <1>6

(* The same for the device tokens beside which another pairing was         *)
(* started.                                                                *)
LEMMA KeptStep ==
  ASSUME PairingTypeOK, PairingTypeOK', ServerInv, PendingBelongs, FilesInv, JournalInv, LockInv,
         ConnInv, KeptInv, ConfigFate, Fades, unsure \subseteq unsure', NoneOwnerless \/ Restarted,
         PairingNext
  PROVE  KeptInv'
<1>1. \A t \in shown' : (Alive(t))' => (Kept(t))'
  BY KeptShown
<1>2. ASSUME NEW i \in Inst, inst'[i].device # None, inst'[i].poll # inst'[i].device
      PROVE  inst'[i].device \in unsure' \/ (ConfigIs(inst[i].device))'
  <2>1. PICK d \in TokenOr : d = inst'[i].device
    BY DEF PairingTypeOK, InstRow
  <2>2. (Ownerless(i))'
    BY <1>2 DEF Ownerless
  <2>3. d \in unsure' \/ (ConfigIs(d))'
    BY <2>1, <2>2, OrphanKept
  <2> QED
    BY <2>1, <2>3 DEF ConfigIs
<1> QED
  BY <1>1, <1>2 DEF KeptInv, ConfigIs
-----------------------------------------------------------------------------
(* The inductive invariant and the theorems. *)

IInv ==
  /\ PairingTypeOK /\ ServerInv /\ PendingBelongs /\ FilesInv /\ JournalInv /\ LockInv
  /\ ConnInv /\ CmdInv /\ KeptInv

(* Nothing is paired and nothing is stored at first. *)
LEMMA InitInv ==
  PairingInit => IInv
<1> SUFFICES ASSUME PairingInit
             PROVE  IInv
  OBVIOUS
<1>1. /\ \A i \in Inst : inst[i] = NoInst
      /\ \A i \in Inst, c \in Client : source[i][c] = NoSource
      /\ \A p \in Proc : pc[p] = "off" /\ my[p] = Blank
      /\ None \notin Proc
  BY PairingAssumption DEF PairingInit, Proc
<1>2. PairingTypeOK
  <2>1. NoInst \in InstRow /\ NoSource \in SourceRow /\ Blank \in Memory
    BY DEF NoInst, NoSource, Blank, InstRow, SourceRow, Memory, TokenOr
  <2>2. 0 \in 0 .. MaxCmds
    BY PairingAssumption
  <2> QED
    BY <2>1, <2>2 DEF PairingInit, PairingTypeOK, PCs
<1>3. \A i \in Inst : Columns(i) = {}
  BY <1>1 DEF Columns, NoInst
<1>4. ServerInv
  BY <1>1, <1>3 DEF ServerInv, RowOK, NoInst, PairingInit
<1>5. PendingBelongs
  BY <1>1 DEF PendingBelongs, NoSource
<1>6. FilesInv /\ JournalInv
  BY DEF PairingInit, FilesInv, JournalInv, ConfigIsUsable
<1>7. LockInv
  BY <1>1 DEF PairingInit, LockInv, LockPCs, Writing, Cancelling, Attemptless
<1>8. ConnInv
  BY <1>1 DEF ConnInv, ConnOK, Started, Writing, Blank, Proc
<1>9. CmdInv
  BY <1>1 DEF CmdInv, CmdOK
<1>10. KeptInv
  BY <1>1 DEF PairingInit, KeptInv, NoInst
<1> QED
  BY <1>2, <1>4, <1>5, <1>6, <1>7, <1>8, <1>9, <1>10 DEF IInv

(* Every step keeps the inductive invariant. *)
LEMMA NextInv ==
  IInv /\ PairingNext => IInv'
<1> SUFFICES ASSUME IInv, PairingNext
             PROVE  IInv'
  OBVIOUS
<1>1. /\ PairingTypeOK /\ ServerInv /\ PendingBelongs /\ FilesInv /\ JournalInv /\ LockInv
      /\ ConnInv /\ CmdInv /\ KeptInv
  BY DEF IInv
<1>2. ServerGoes /\ (NoneOwnerless \/ Restarted)
  BY <1>1, ServerStep
<1>3. ServerInv' /\ PendingBelongs' /\ Fades
  BY <1>2 DEF ServerGoes
<1>4. PairingTypeOK'
  BY <1>1, <1>2, TypeStep
<1>5. unsure \subseteq unsure' /\ shown \subseteq shown'
  BY <1>1, Monotone
<1>6. ConfigFate
  BY <1>1, <1>4, ConfigStep
<1>7. LockInv'
  BY <1>1, LockStep
<1>8. FilesInv'
  BY <1>1, <1>3, <1>4, <1>5, <1>6, AttemptStep, UsableStep, FilesStep
<1>9. JournalInv'
  BY <1>1, <1>3, <1>4, <1>6, PhaseStep, JournalStep
<1>10. ConnInv'
  BY <1>1, <1>3, <1>4, <1>5, <1>6, ConnStep
<1>11. CmdInv'
  BY <1>1, <1>3, <1>4, <1>5, CmdStep
<1>12. KeptInv'
  BY <1>1, <1>2, <1>3, <1>4, <1>5, <1>6, KeptStep
<1> QED
  BY <1>3, <1>4, <1>7, <1>8, <1>9, <1>10, <1>11, <1>12 DEF IInv

(* So does a step that changes nothing. *)
LEMMA StutterInv ==
  IInv /\ UNCHANGED pairVars => IInv'
<1> SUFFICES ASSUME IInv, UNCHANGED pairVars
             PROVE  IInv'
  OBVIOUS
<1> USE DEF pairVars, server, files
<1>1. PairingTypeOK' /\ PendingBelongs'
  BY DEF IInv, PairingTypeOK, PendingBelongs
<1>2. ServerInv'
  BY DEF IInv, ServerInv, RowOK, Columns
<1>3. FilesInv' /\ JournalInv' /\ LockInv'
  BY DEF IInv, FilesInv, JournalInv, LockInv, TokenOf, Spent, Belongs, Columns, Replaced, Alive,
         ConfigIsUsable, SameAttempt
<1>4. ConnInv'
  BY DEF IInv, ConnInv, ConnOK, Spent, Belongs, Columns, Replaced, Alive, ConfigIs, SameAttempt
<1>5. CmdInv'
  BY DEF IInv, CmdInv, CmdOK, Alive
<1>6. KeptInv'
  BY DEF IInv, KeptInv, Kept, Alive, ConfigIs
<1> QED
  BY <1>1, <1>2, <1>3, <1>4, <1>5, <1>6 DEF IInv

(* The inductive invariant always holds, for any number of                 *)
(* installations, clients, connects, commands, tokens and any bound on     *)
(* them.                                                                   *)
THEOREM Invariant ==
  PairingSpec => []IInv
<1>1. IInv /\ [PairingNext]_pairVars => IInv'
  BY NextInv, StutterInv
<1> QED
  BY <1>1, InitInv, PTL DEF PairingSpec

(* Every variable keeps its type, the requests of the connector and the    *)
(* rows of the server included (Pairing.PairingTypeOK).                    *)
THEOREM TypeCorrect ==
  PairingSpec => []PairingTypeOK
<1>1. IInv => PairingTypeOK
  BY DEF IInv
<1> QED
  BY <1>1, Invariant, PTL

(* Computer and server stay together (Pairing.PairingConsistent): an       *)
(* active installation can be reached or the user knows of it, a source    *)
(* row waits for the very code that is shown, and a stored configuration   *)
(* can be used.                                                            *)
THEOREM Consistent ==
  PairingSpec => []PairingConsistent
<1>1. ASSUME IInv
      PROVE  PairingConsistent
  <2>1. ActiveIsReachable
    <3>1. SUFFICES ASSUME NEW i \in Inst, inst[i].status = "active"
                   PROVE  Held(inst[i].device) \/ inst[i].device \in unsure
      BY DEF ActiveIsReachable
    <3>2. inst[i].device # None /\ inst[i].device \in shown
      BY <1>1, <3>1 DEF IInv, ServerInv, RowOK
    <3>3. Kept(inst[i].device)
      BY <1>1, <3>2 DEF IInv, KeptInv, Alive
    <3> QED
      BY <3>3 DEF Kept, Held, ConfigIs, Cancelling, Proc
  <2> QED
    BY <1>1, <2>1 DEF IInv, FilesInv, PairingConsistent
<1> QED
  BY <1>1, Invariant, PTL

(* How a step may take the device token of an active installation away.    *)
Harmless(i) ==
  inst[i].status = "active" /\ inst'[i].device # inst[i].device =>
    \/ inst'[i].status = "active" /\ inst[i].code \in shown /\ inst'[i].device = inst[i].code
    \/ inst'[i].status = "revoked" /\ cmds' # cmds
    \/ inst'[i].status = "revoked" /\ inst[i].poll = inst[i].device
    \/ inst'[i].status = "revoked" /\ config # None /\ config.token = inst[i].device
         /\ \E p \in Cmd : pc[p] = "revoke"

(* A cancellation takes a device token away only from the very pairing     *)
(* it names.                                                               *)
LEMMA CancelHarmless ==
  ASSUME PairingTypeOK, ServerInv, NEW t \in TokenOr, SendCancel(t), NEW i \in Inst
  PROVE  Harmless(i)
<1>1. CASE UNCHANGED server
  BY <1>1 DEF server, Harmless
<1>2. ASSUME NEW j \in Inst, CancelRoute(j, t)
      PROVE  Harmless(i)
  <2>1. /\ inst[j].poll = t
        /\ inst[j].status # "active" \/ inst[j].device = t =>
             inst'[j].device = None /\ inst'[j].status = "revoked"
        /\ inst[j].status = "active" /\ inst[j].device # t =>
             inst'[j].device = inst[j].device /\ inst'[j].status = "active"
        /\ \A k \in Inst \ {j} : inst'[k] = inst[k]
    BY <1>2, CancelFields
  <2> QED
    BY <2>1 DEF Harmless
<1> QED
  BY <1>1, <1>2 DEF SendCancel, CancelOrIgnore

(* No step takes a device token away from a working connection but a       *)
(* command of the user, the cancellation of its own pairing, or the        *)
(* owner of the configuration that revokes itself.                         *)
LEMMA HarmlessStep ==
  ASSUME IInv, PairingNext, NEW i \in Inst
  PROVE  Harmless(i)
<1>1. PairingTypeOK /\ ServerInv /\ ConnInv /\ RowOK(i) /\ inst \in [Inst -> InstRow]
  BY DEF IInv, ServerInv, PairingTypeOK
<1>2. UNCHANGED inst => Harmless(i)
  BY DEF Harmless
<1>3. CASE Approve
  <2>1. PICK j \in Inst, t \in shown : ApproveRoute(j, t)
    BY <1>3 DEF Approve
  <2>2. t \in Token /\ t # None
    BY <1>1, PairingAssumption DEF PairingTypeOK
  <2>3. /\ inst[j].code = t /\ inst'[j].device = inst[j].pend /\ inst'[j].status = "active"
        /\ \A k \in Inst \ {j} : inst'[k] = inst[k]
    BY <1>1, <2>1, <2>2, ApproveFields
  <2> QED
    BY <1>1, <2>2, <2>3 DEF RowOK, Harmless
<1>4. CASE RevokeInBrowser
  <2>1. cmds' # cmds
    <3>1. cmds \in Nat /\ cmds' = cmds + 1
      BY <1>1, <1>4 DEF RevokeInBrowser, PairingTypeOK
    <3> QED
      BY <3>1
  <2>2. PICK j \in Inst : inst' = [inst EXCEPT ![j].status = "revoked", ![j].device = None]
    BY <1>4 DEF RevokeInBrowser
  <2>3. CASE i = j
    BY <1>1, <2>1, <2>2, <2>3 DEF Harmless, InstRow
  <2>4. CASE i # j
    BY <1>1, <2>2, <2>4 DEF Harmless
  <2> QED
    BY <2>3, <2>4
<1>5. CASE Expire
  BY <1>1, <1>5 DEF Expire, Harmless, InstRow
<1>6. CASE \/ DisconnectInBrowser \/ Sync
  BY <1>2, <1>6 DEF DisconnectInBrowser, Sync, DeleteSource, UploadRoute
<1>7. CASE RecoverCommit \/ Rejected
  BY <1>2, <1>7, QuietSteps DEF Quiet
<1>8. ASSUME NEW p \in Conn, ConnectStep(p)
      PROVE  Harmless(i)
  <2>1. my[p].tok \in TokenOr
    BY <1>1 DEF PairingTypeOK, Proc, Memory
  <2>2. CASE CancelOld(p) \/ Abort(p)
    BY <1>1, <2>1, <2>2, CancelHarmless DEF CancelOld, Abort
  <2>3. CASE Start(p) \/ StartFails(p)
    <3>1. CASE \E t \in Token : RequestStart(p, t)
      <4>1. PICK t \in Token : StartRoute(my[p].id, t, my[p].want, my[p].expected \ my[p].local)
        BY <3>1 DEF RequestStart
      <4>2. my[p].id \in Inst
        BY <1>1, <2>3 DEF Start, StartFails, Goto, ConnInv, ConnOK, Started
      <4>3. /\ inst[my[p].id].status = "active" => inst'[my[p].id].device = inst[my[p].id].device
            /\ \A j \in Inst \ {my[p].id} :
                 inst'[j] = inst[j] \/ (inst'[j] = NoInst /\ inst[j].status = "pending")
        BY <1>1, <4>1, <4>2, StartFields
      <4> QED
        BY <4>2, <4>3 DEF Harmless
    <3>2. CASE UNCHANGED server
      BY <1>2, <3>2 DEF server
    <3> QED
      BY <2>3, <3>1, <3>2 DEF Start, StartFails
  <2>4. CASE Record(p)
    BY <1>2, <2>4 DEF Record, server
  <2> QED
    BY <1>2, <1>8, <2>2, <2>3, <2>4, QuietSteps DEF ConnectStep, Quiet
<1>9. ASSUME NEW p \in Cmd, CommandStep(p)
      PROVE  Harmless(i)
  <2>1. my[p].tok \in TokenOr
    BY <1>1 DEF PairingTypeOK, Proc, Memory
  <2>2. CASE CancelFirst(p)
    BY <1>1, <2>1, <2>2, CancelHarmless DEF CancelFirst
  <2>3. CASE Revoke(p)
    <3>1. CASE UNCHANGED server
      BY <1>2, <3>1 DEF server
    <3>2. CASE /\ config # None /\ Authorized(config.inst, config.token)
               /\ RevokeSelf(config.inst)
      <4>1. /\ inst'[config.inst].status = "revoked"
            /\ \A j \in Inst \ {config.inst} : inst'[j] = inst[j]
        BY <1>1, <3>2, RevokeFields DEF PairingTypeOK, Config
      <4> QED
        BY <2>3, <3>2, <4>1 DEF Revoke, Goto, Authorized, Harmless
    <3> QED
      BY <2>3, <3>1, <3>2 DEF Revoke, Send
  <2>4. CASE RemoveRemote(p)
    BY <1>2, <2>4 DEF RemoveRemote, Send, DeleteSource, server
  <2> QED
    BY <1>2, <1>9, <2>2, <2>3, <2>4, QuietSteps DEF CommandStep, Quiet
<1>10. ASSUME NEW p \in Proc, Crash(p)
       PROVE  Harmless(i)
  BY <1>2, <1>10, QuietSteps DEF Quiet
<1> QED
  BY <1>3, <1>4, <1>5, <1>6, <1>7, <1>8, <1>9, <1>10 DEF PairingNext, PairingStep

(* Abandoning a pairing, in any order with approvals and restarts, never   *)
(* disconnects a connection that works (Pairing.AbandonedIsHarmless;       *)
(* pairing/cancel/route.ts revokes only where the cancelled token is the   *)
(* device token).                                                          *)
THEOREM AbandonmentIsHarmless ==
  PairingSpec => AbandonedIsHarmless
<1>1. ASSUME IInv, [PairingNext]_pairVars
      PROVE  [\A i \in Inst :
                inst[i].status = "active" /\ inst'[i].device # inst[i].device =>
                  \/ inst'[i].status = "active" /\ inst[i].code \in shown
                       /\ inst'[i].device = inst[i].code
                  \/ inst'[i].status = "revoked" /\ cmds' # cmds
                  \/ inst'[i].status = "revoked" /\ inst[i].poll = inst[i].device
                  \/ inst'[i].status = "revoked" /\ config # None
                       /\ config.token = inst[i].device
                       /\ \E p \in Cmd : pc[p] = "revoke"]_pairVars
  BY <1>1, HarmlessStep DEF Harmless
<1> QED
  BY <1>1, Invariant, PTL DEF PairingSpec, AbandonedIsHarmless
=============================================================================
