--------------------------- MODULE QsoDeliveryEnds ----------------------------
(***************************************************************************)
(* What the two ends of the link hold: the station's flags, the server's   *)
(* log.                                                                    *)
(*                                                                         *)
(* The flags of a row tell the truth. Two invariants are added to IInv:    *)
(*                                                                         *)
(* WholeInv: whoever takes a QSO for sent (a row, a row about to be        *)
(* stored, the open dialog, a reported outcome), or holds it away from     *)
(* the station (the server, its fetched log, the wire), has it from the    *)
(* socket. The restock marks rows sent on the word of the fetched log, so  *)
(* the fetched log must be part of the invariant.                          *)
(*                                                                         *)
(* VerInv: the log's version of an edit in flight was posted, and that of  *)
(* a clean row written. The ledger counts packets, not versions; it is     *)
(* the step from one to the other that LedgerExact makes possible: when    *)
(* the last packet of a QSO is settled and none failed, nothing of it is   *)
(* queued any more, so the version posted was written.                     *)
(*                                                                         *)
(* The server moves forward. The versions of a QSO are in order from the   *)
(* server's log over the wire and the send queue to the station's log      *)
(* (OrderInv), so that whatever the server reads next is no older than     *)
(* what it has. Excused are QSOs with an edit whose row the log refused:   *)
(* there the older row is what the station owes.                           *)
(***************************************************************************)
EXTENDS QsoDeliveryProofs
USE BoundsAssumption, NoneAssumption

\* The QSOs that went to the socket whole.
Wholes == {q \in Qsos : \E p \in written : p.kind = "qso" /\ p.qso = q}

\* A row marked sent, ...
RowsWhole == \A q \in Qsos : row[q].sent => q \in Wholes
\* ... a QSO the server, its fetched log or the wire has, ...
HeldWhole ==
    /\ \A q \in Qsos : server[q].copies > 0 \/ server[q].ver > 0 \/ image[q] > 0 => q \in Wholes
    /\ \A i \in DOMAIN wire : wire[i].kind # "edit" => wire[i].qso \in Wholes
\* ... a row held by a handler or the dialog and marked sent, ...
HandledWhole ==
    /\ storing # None => (storing.row.sent => storing.qso \in Wholes)
    /\ dialog # None => (dialog.row.sent => dialog.qso \in Wholes)
\* ... a QSO reported written, ...
ReportedWhole == \A i \in DOMAIN outcomes :
    outcomes[i].kind = "qso" /\ outcomes[i].ok => outcomes[i].qso \in Wholes
\* ... and a QSO to be pushed by the restock.
QueuedWhole == \A i \in DOMAIN outq : outq[i].kind = "offline" => outq[i].qso \in Wholes

\* Whoever takes a QSO for sent, or holds it away from the station, got it from the socket.
WholeInv == RowsWhole /\ HeldWhole /\ HandledWhole /\ ReportedWhole /\ QueuedWhole

\* Nothing has been sent or logged at the start.
LEMMA WholeInit == Init => WholeInv
BY DEF Init, WholeInv, RowsWhole, HeldWhole, HandledWhole, ReportedWhole, QueuedWhole, NotLogged, NoImage

\* What was written stays written, ...
LEMMA WholesGrow == written \subseteq written' => Wholes \subseteq Wholes'
BY DEF Wholes

\* ... and a step of the others writes nothing.
LEMMA WholesStay == written' = written => Wholes' = Wholes
BY DEF Wholes

\* A packet that is no restock's is posted last.
LEMMA WholePost ==
    ASSUME TypeOK, QueuedWhole, NEW p \in Packets, p.kind # "offline",
           outq' = outq \/ outq' = Append(outq, p), Wholes' = Wholes
    PROVE  QueuedWhole'
<1>1. outq \in Seq(Packets)
  BY DEF TypeOK
<1>2. \A i \in DOMAIN Append(outq, p) :
        (i \in DOMAIN outq /\ Append(outq, p)[i] = outq[i]) \/ Append(outq, p)[i] = p
  BY <1>1, AppendPlaces
<1>3. \A i \in DOMAIN outq' : (i \in DOMAIN outq /\ outq'[i] = outq[i]) \/ outq'[i] = p
  BY <1>2
<1> QED
  BY <1>3 DEF QueuedWhole

\* LogContact holds a row that is not marked sent.
LEMMA WholeLogContact == TypeOK /\ WholeInv /\ LogContact => WholeInv'
<1> SUFFICES ASSUME TypeOK, WholeInv, LogContact PROVE WholeInv'
  OBVIOUS
<1>1. made + 1 \in Qsos /\ 1 \in Versions
  BY DEF LogContact, TypeOK, Qsos, Versions
<1>2. Packet("qso", made + 1, 1) \in Packets /\ Packet("qso", made + 1, 1).kind # "offline"
  BY <1>1, TypeSteps DEF Packet
<1>3. /\ UNCHANGED <<row, dialog, outcomes, wire, server, image, written>>
      /\ ~storing'.row.sent
      /\ outq' = outq \/ outq' = Append(outq, Packet("qso", made + 1, 1))
  BY DEF LogContact, PostQso, history
<1>4. Wholes' = Wholes
  BY <1>3, WholesStay
<1>5. QueuedWhole'
  BY <1>2, <1>3, <1>4, WholePost DEF WholeInv
<1> QED
  BY <1>3, <1>4, <1>5 DEF WholeInv, RowsWhole, HeldWhole, HandledWhole, ReportedWhole

\* DeleteLastContact keeps the row's sent flag.
LEMMA WholeDelete == TypeOK /\ WholeInv /\ (\E b \in BOOLEAN : DeleteLastContact(b)) => WholeInv'
<1> SUFFICES ASSUME TypeOK, WholeInv, NEW b \in BOOLEAN, DeleteLastContact(b) PROVE WholeInv'
  OBVIOUS
<1>1. PICK q \in Qsos :
        /\ EditOf(q) /\ PostEdit(q, row[q].ver + 1)
        /\ row' = IF b THEN [row EXCEPT ![q].ver = @ + 1, ![q].dirty = TRUE] ELSE row
  BY DEF DeleteLastContact
<1>2. row[q].ver + 1 \in Versions
  BY <1>1, TypeSteps DEF EditOf, Versions
<1>3. Packet("edit", q, row[q].ver + 1) \in Packets /\ Packet("edit", q, row[q].ver + 1).kind # "offline"
  BY <1>2, TypeSteps DEF Packet
<1>4. UNCHANGED <<storing, dialog, outcomes, wire, server, image, written>>
  BY DEF DeleteLastContact
<1>5. Wholes' = Wholes
  BY <1>4, WholesStay
<1>6. QueuedWhole'
  BY <1>1, <1>3, <1>5, WholePost DEF PostEdit, WholeInv
<1>7. \A r \in Qsos : row'[r].sent = row[r].sent
  <2>1. row \in [Qsos -> Rows] /\ row[q] \in Rows
    BY DEF TypeOK
  <2>2. b => row'[q] = [[row[q] EXCEPT !.ver = @ + 1] EXCEPT !.dirty = TRUE]
    BY <1>1, <2>1
  <2>3. row'[q].sent = row[q].sent
    BY <1>1, <2>1, <2>2 DEF Rows
  <2>4. \A r \in Qsos : r # q => row'[r] = row[r]
    BY <1>1, <2>1
  <2> QED
    BY <2>3, <2>4
<1> QED
  BY <1>4, <1>5, <1>6, <1>7 DEF WholeInv, RowsWhole, HeldWhole, HandledWhole, ReportedWhole

\* The dialog takes the sent flag of the row it is opened on ...
LEMMA WholeOpen == TypeOK /\ WholeInv /\ OpenEditDialog => WholeInv'
<1> SUFFICES ASSUME TypeOK, WholeInv, OpenEditDialog PROVE WholeInv'
  OBVIOUS
<1>1. PICK q \in Qsos : dialog' = [qso |-> q, row |-> row[q]]
  BY DEF OpenEditDialog
<1>2. UNCHANGED <<row, storing, outq, outcomes, wire, server, image, written>>
  BY DEF OpenEditDialog, delivery, history
<1>3. Wholes' = Wholes
  BY <1>2, WholesStay
<1>4. dialog'.row.sent => dialog'.qso \in Wholes
  BY <1>1 DEF WholeInv, RowsWhole
<1> QED
  BY <1>2, <1>3, <1>4 DEF WholeInv, RowsWhole, HeldWhole, HandledWhole, ReportedWhole, QueuedWhole

\* ... and SaveEditDialog writes that one back, however stale.
LEMMA WholeSave == TypeOK /\ DialogInv /\ WholeInv /\ SaveEditDialog => WholeInv'
<1> SUFFICES ASSUME TypeOK, DialogInv, WholeInv, SaveEditDialog PROVE WholeInv'
  OBVIOUS
<1> DEFINE n == dialog.qso
           rec == [dialog.row EXCEPT !.ver = @ + 1, !.dirty = TRUE]
           p == Packet("edit", n, rec.ver)
<1>1. /\ EditOf(n) /\ PostEdit(n, rec.ver) /\ dialog # None /\ dialog' = None
      /\ storing' = [qso |-> n, row |-> rec]
      /\ UNCHANGED <<row, outcomes, wire, server, image, written>>
  BY DEF SaveEditDialog, bounds
<1>2. dialog \in [qso : Qsos, row : Rows]
  BY <1>1 DEF TypeOK
<1>3. n \in Qsos /\ dialog.row \in Rows
  BY <1>2
<1>4. dialog.row.ver = row[n].ver
  BY <1>1 DEF DialogInv
<1>5. rec.ver \in Versions
  BY <1>1, <1>3, <1>4, TypeSteps DEF EditOf, Versions, Rows
<1>6. rec.sent = dialog.row.sent
  BY <1>3 DEF Rows
<1> HIDE DEF n, rec
<1>7. p \in Packets /\ p.kind # "offline"
  BY <1>3, <1>5, TypeSteps DEF Packet
<1>8. outq' = outq \/ outq' = Append(outq, p)
  BY <1>1 DEF PostEdit
<1> HIDE DEF p
<1>9. Wholes' = Wholes
  BY <1>1, WholesStay
<1>10. QueuedWhole'
  BY <1>7, <1>8, <1>9, WholePost DEF WholeInv
<1>11. dialog.row.sent => n \in Wholes
  BY <1>1 DEF WholeInv, HandledWhole, n
<1>12. storing'.row.sent => storing'.qso \in Wholes'
  BY <1>1, <1>6, <1>9, <1>11
<1> QED
  BY <1>1, <1>9, <1>10, <1>12 DEF WholeInv, RowsWhole, HeldWhole, HandledWhole, ReportedWhole

\* StoreRow stores the flag it was handed.
LEMMA WholeStore == TypeOK /\ WholeInv /\ (\E b \in BOOLEAN : StoreRow(b)) => WholeInv'
<1> SUFFICES ASSUME TypeOK, WholeInv, NEW b \in BOOLEAN, StoreRow(b) PROVE WholeInv'
  OBVIOUS
<1>1. /\ UNCHANGED <<dialog, outq, outcomes, wire, server, image, written>> /\ storing' = None
      /\ storing # None
      /\ row' = IF b THEN [row EXCEPT ![storing.qso] = storing.row] ELSE row
  BY DEF StoreRow, delivery
<1>2. Wholes' = Wholes
  BY <1>1, WholesStay
<1>3. storing \in [qso : Qsos, row : Rows] /\ row \in [Qsos -> Rows]
  BY <1>1 DEF TypeOK
<1>4. storing.row.sent => storing.qso \in Wholes
  BY <1>1 DEF WholeInv, HandledWhole
<1>5. RowsWhole'
  <2> SUFFICES ASSUME NEW q \in Qsos, row'[q].sent PROVE q \in Wholes
    BY <1>2 DEF RowsWhole
  <2>1. row'[q] = row[q] \/ (q = storing.qso /\ row'[q] = storing.row)
    BY <1>1, <1>3
  <2> QED
    BY <1>4, <2>1 DEF WholeInv, RowsWhole
<1> QED
  BY <1>1, <1>2, <1>5 DEF WholeInv, HeldWhole, HandledWhole, ReportedWhole, QueuedWhole

\* Settle marks a row sent on the report of a whole QSO written.
LEMMA WholeSettle == TypeOK /\ WholeInv /\ (\E b \in BOOLEAN : Settle(b)) => WholeInv'
<1> SUFFICES ASSUME TypeOK, WholeInv, NEW b \in BOOLEAN, Settle(b) PROVE WholeInv'
  OBVIOUS
<1>1. /\ UNCHANGED <<storing, dialog, outq, wire, server, image, written>> /\ outcomes' = <<>>
      /\ row' = IF b THEN Marked ELSE row
  BY DEF Settle, history
<1>2. Wholes' = Wholes
  BY <1>1, WholesStay
<1>3. \A q \in Sent : q \in Wholes
  <2> SUFFICES ASSUME NEW q \in Sent PROVE q \in Wholes
    OBVIOUS
  <2>1. PICK i \in DOMAIN outcomes : outcomes[i] = [kind |-> "qso", qso |-> q, ok |-> TRUE]
    BY DEF Sent
  <2>2. outcomes[i].kind = "qso" /\ outcomes[i].ok /\ outcomes[i].qso = q
    BY <2>1
  <2> QED
    BY <2>2 DEF WholeInv, ReportedWhole
<1>4. RowsWhole'
  <2> SUFFICES ASSUME NEW q \in Qsos, row'[q].sent PROVE q \in Wholes
    BY <1>2 DEF RowsWhole
  <2> QED
    BY <1>1, <1>3, MarkedKeeps DEF WholeInv, RowsWhole
<1> QED
  BY <1>1, <1>2, <1>4 DEF WholeInv, HeldWhole, HandledWhole, ReportedWhole, QueuedWhole


\* Packets are posted after those queued.
LEMMA WholePostAll ==
    ASSUME TypeOK, QueuedWhole, NEW ps \in Seq(Packets),
           \A i \in DOMAIN ps : ps[i].kind = "offline" => ps[i].qso \in Wholes,
           outq' = outq \/ outq' = outq \o ps, Wholes' = Wholes
    PROVE  QueuedWhole'
<1>1. outq \in Seq(Packets)
  BY DEF TypeOK
<1>2. \A i \in DOMAIN (outq \o ps) :
        \/ i \in DOMAIN outq /\ (outq \o ps)[i] = outq[i]
        \/ i - Len(outq) \in DOMAIN ps /\ (outq \o ps)[i] = ps[i - Len(outq)]
  BY <1>1, ConcatPlaces
<1>3. \A i \in DOMAIN (outq \o ps) : (outq \o ps)[i].kind = "offline" => (outq \o ps)[i].qso \in Wholes
  BY <1>2 DEF QueuedWhole
<1> QED
  BY <1>3 DEF QueuedWhole

\* The resend posts no offline packets.
LEMMA WholeHello == TypeOK /\ WholeInv /\ (\E b \in BOOLEAN : ServerHello(b)) => WholeInv'
<1> SUFFICES ASSUME TypeOK, WholeInv, NEW b \in BOOLEAN, ServerHello(b) PROVE WholeInv'
  OBVIOUS
<1>1. UNCHANGED <<row, storing, dialog, outcomes, wire, server, image, written>>
  BY DEF ServerHello
<1>2. Wholes' = Wholes
  BY <1>1, WholesStay
<1> DEFINE ps == FlattenSeq(OwedByQso)
<1>3. ps \in Seq(Packets)
  BY TypeOwed, PerQso, FlattenSeqOf
<1>4. outq' = outq \/ outq' = outq \o ps
  BY DEF ServerHello, ResendOfflineWork, OwedByQso
<1>5. \A i \in DOMAIN ps : ps[i].kind # "offline"
  BY ResendPosts
<1> HIDE DEF ps
<1>6. QueuedWhole'
  BY <1>2, <1>3, <1>4, <1>5, WholePostAll DEF WholeInv
<1> QED
  BY <1>1, <1>2, <1>6 DEF WholeInv, RowsWhole, HeldWhole, HandledWhole, ReportedWhole

\* The restock marks sent what the server holds, and pushes rows marked sent.
LEMMA WholeAnswer == TypeOK /\ WholeInv /\ (\E b \in BOOLEAN : AnswerSync(b)) => WholeInv'
<1> SUFFICES ASSUME TypeOK, WholeInv, NEW b \in BOOLEAN, AnswerSync(b) PROVE WholeInv'
  OBVIOUS
<1>1. UNCHANGED <<storing, dialog, outcomes, wire, server, written>> /\ image' = NoImage
  BY DEF AnswerSync, delivery
<1>2. Wholes' = Wholes
  BY <1>1, WholesStay
<1> DEFINE ps == FlattenSeq(OfflineByQso)
<1>3. ps \in Seq(Packets)
  BY TypeOffline, PerQso, FlattenSeqOf
<1>4. outq' = outq \/ outq' = outq \o ps
  BY DEF AnswerSync, OfflineByQso
<1>5. \A i \in DOMAIN ps : ps[i].qso \in ToPush
  BY RestockPosts
<1>6. ToPush \subseteq Wholes
  BY DEF ToPush, Owing, WholeInv, RowsWhole
<1> HIDE DEF ps
<1>7. QueuedWhole'
  BY <1>2, <1>3, <1>4, <1>5, <1>6, WholePostAll DEF WholeInv
<1>8. RowsWhole'
  <2> SUFFICES ASSUME NEW q \in Qsos, row'[q].sent PROVE q \in Wholes
    BY <1>2 DEF RowsWhole
  <2>1. row'[q] = row[q] \/ q \in ToPull
    BY DEF AnswerSync, TypeOK
  <2> QED
    BY <2>1 DEF WholeInv, RowsWhole, HeldWhole, ToPull
<1>9. HeldWhole'
  BY <1>1, <1>2 DEF WholeInv, HeldWhole, NoImage
<1> QED
  BY <1>1, <1>2, <1>7, <1>8, <1>9 DEF WholeInv, HandledWhole, ReportedWhole

\* The writer puts on the wire, and reports, what it wrote.
LEMMA WholeWriter == TypeOK /\ WholeInv /\ Writer => WholeInv'
<1> SUFFICES ASSUME TypeOK, WholeInv, NEW ok \in BOOLEAN, WriterFinishes(ok) PROVE WholeInv'
  BY DEF Writer
<1> DEFINE p == Head(outq)
           o == [kind |-> p.kind, qso |-> p.qso, ok |-> ok]
<1>1. /\ outq # <<>> /\ outq' = Tail(outq)
      /\ UNCHANGED <<row, storing, dialog, server, image>>
      /\ outcomes' = outcomes \/ (outcomes' = Append(outcomes, o) /\ Reported(p, ok))
      /\ wire' = wire \/ (wire' = Append(wire, p) /\ ok)
      /\ written' = IF ok THEN written \cup {p} ELSE written
  BY DEF WriterFinishes
<1>2. outq \in Seq(Packets) /\ outcomes \in Seq(Outcomes) /\ wire \in Seq(Packets)
  BY DEF TypeOK
<1>3. 1 \in DOMAIN outq /\ p = outq[1] /\ p \in Packets
  BY <1>1, <1>2, HeadPlaces
<1>4. p.kind \in {"qso", "edit", "offline"} /\ p.qso \in Qsos
  BY <1>3, TypeSteps
<1>5. o.kind = p.kind /\ o.qso = p.qso /\ o.ok = ok
  OBVIOUS
<1>6. Reported(p, ok) => o \in Outcomes
  BY <1>3 DEF Packets, Outcomes, Reported
<1>7. p.kind = "offline" => p.qso \in Wholes
  BY <1>3 DEF WholeInv, QueuedWhole
<1> HIDE DEF p, o
<1>8. Wholes \subseteq Wholes'
  BY <1>1, WholesGrow
<1>9. ok /\ p.kind # "edit" => p.qso \in Wholes'
  BY <1>1, <1>4, <1>7, <1>8 DEF Wholes
<1>10. QueuedWhole'
  <2>1. \A i \in DOMAIN outq' : i + 1 \in DOMAIN outq /\ outq'[i] = outq[i + 1]
    BY <1>1, <1>2, TailPlaces
  <2> QED
    BY <1>8, <2>1 DEF WholeInv, QueuedWhole
<1>11. HeldWhole'
  <2>1. \A i \in DOMAIN wire' : (i \in DOMAIN wire /\ wire'[i] = wire[i]) \/ (wire'[i] = p /\ ok)
    <3>1. CASE wire' = wire
      BY <3>1
    <3>2. CASE wire' = Append(wire, p) /\ ok
      BY <1>2, <1>3, <3>2, AppendPlaces
    <3> QED
      BY <1>1, <3>1, <3>2
  <2> QED
    BY <1>1, <1>8, <1>9, <2>1 DEF WholeInv, HeldWhole
<1>12. ReportedWhole'
  <2>1. \A i \in DOMAIN outcomes' : (i \in DOMAIN outcomes /\ outcomes'[i] = outcomes[i]) \/ outcomes'[i] = o
    <3>1. CASE outcomes' = outcomes
      BY <3>1
    <3>2. CASE outcomes' = Append(outcomes, o) /\ Reported(p, ok)
      BY <1>2, <1>6, <3>2, AppendPlaces
    <3> QED
      BY <1>1, <3>1, <3>2
  <2>2. o.kind = "qso" /\ o.ok => o.qso \in Wholes'
    BY <1>5, <1>9
  <2> QED
    BY <1>8, <2>1, <2>2 DEF WholeInv, ReportedWhole
<1> QED
  BY <1>1, <1>8, <1>10, <1>11, <1>12 DEF WholeInv, RowsWhole, HandledWhole

\* The server holds what it read from the wire.
LEMMA WholeServerReads == TypeOK /\ WholeInv /\ ServerReads => WholeInv'
<1> SUFFICES ASSUME TypeOK, WholeInv, ServerReads PROVE WholeInv'
  OBVIOUS
<1> DEFINE p == Head(wire)
<1>1. UNCHANGED <<row, storing, dialog, outq, outcomes, image, written>> /\ wire # <<>> /\ wire' = Tail(wire)
  BY DEF ServerReads, delivery, history
<1>2. Wholes' = Wholes
  BY <1>1, WholesStay
<1>3. wire \in Seq(Packets) /\ server \in [Qsos -> [copies : Nat, ver : Versions]]
  BY DEF TypeOK
<1>4. 1 \in DOMAIN wire /\ p = wire[1] /\ p \in Packets
  BY <1>1, <1>3, HeadPlaces
<1>5. p.qso \in Qsos /\ (p.kind # "edit" => p.qso \in Wholes)
  BY <1>4, TypeSteps DEF WholeInv, HeldWhole
<1>6. \/ server' = server
      \/ server' = [server EXCEPT ![p.qso].ver = p.ver] /\ server[p.qso].copies > 0
      \/ server' = [server EXCEPT ![p.qso] = [copies |-> @.copies + 1, ver |-> p.ver]] /\ p.kind # "edit"
  BY DEF ServerReads, ServerHolds
<1> HIDE DEF p
<1>7. \A q \in Qsos : server'[q] = server[q] \/ q \in Wholes
  BY <1>3, <1>5, <1>6 DEF WholeInv, HeldWhole
<1>8. \A i \in DOMAIN wire' : i + 1 \in DOMAIN wire /\ wire'[i] = wire[i + 1]
  BY <1>1, <1>3, TailPlaces
<1>9. HeldWhole'
  BY <1>1, <1>2, <1>7, <1>8 DEF WholeInv, HeldWhole
<1> QED
  BY <1>1, <1>2, <1>9 DEF WholeInv, RowsWhole, HandledWhole, ReportedWhole, QueuedWhole

\* Every step keeps WholeInv.
LEMMA WholeStep == TypeOK /\ DialogInv /\ WholeInv /\ [Next]_vars => WholeInv'
<1> SUFFICES ASSUME TypeOK, DialogInv, WholeInv, [Next]_vars PROVE WholeInv'
  OBVIOUS
<1> USE DEF WholeInv, RowsWhole, HeldWhole, HandledWhole, ReportedWhole, QueuedWhole, Wholes
<1>1. CASE UNCHANGED vars
  BY <1>1 DEF vars
<1>2. CASE CancelEditDialog \/ FetchFails
  BY <1>2 DEF CancelEditDialog, FetchFails, delivery, history
<1>3. CASE FetchLog
  BY <1>3 DEF FetchLog, delivery, history
<1>4. CASE DecideOnConnect
  <2>1. image' = image \/ image' = NoImage
    BY <1>4 DEF DecideOnConnect
  <2> QED
    BY <1>4, <2>1 DEF DecideOnConnect, NoImage, delivery
<1>5. CASE LinkUp
  BY <1>5 DEF LinkUp, delivery
<1>6. CASE LinkDrops
  BY <1>6 DEF LinkDrops, delivery
<1>7. CASE Crash
  BY <1>7 DEF Crash, NoImage
<1>8. CASE Operator
  BY <1>2, <1>8, WholeLogContact, WholeDelete, WholeOpen, WholeSave DEF Operator
<1>9. CASE MainThread
  BY <1>4, <1>9, WholeStore, WholeSettle, WholeHello, WholeAnswer DEF MainThread
<1>10. CASE Environment
  BY <1>2, <1>3, <1>5, <1>6, <1>7, <1>10, WholeServerReads DEF Environment
<1> QED
  BY <1>1, <1>8, <1>9, <1>10, WholeWriter DEF Next


\* The version the log has, or is about to have.
CurVer == [q \in Qsos |-> IF storing # None /\ storing.qso = q THEN storing.row.ver ELSE row[q].ver]
\* What is queued, and what is queued or was written.
Queued == {outq[i] : i \in DOMAIN outq}
Posted == Queued \cup written

\* A row about to be stored is newer than the log's, and dirty unless the QSO is new.
StoringVer == storing # None =>
    /\ storing.row.ver > row[storing.qso].ver
    /\ storing.row.dirty \/ storing.row.ver = 1
\* A QSO made is logged, about to be, or was refused.
MadeLogged == \A q \in Qsos : q <= made =>
    Logged(q) \/ q \in unstored \/ (storing # None /\ storing.qso = q)
\* Of a QSO not logged no edit is counted.
NoneUnlogged == \A q \in Qsos : ~Logged(q) => edits[q].count = 0
\* A QSO never edited was posted whole in its first version.
FirstVer == \A p \in Posted :
    p.kind = "qso" /\ p.qso \notin unstored /\ row[p.qso].ver <= 1 => p.ver = 1
\* While an edit is in flight and none failed, the log's version was posted.
FlightVer == \A q \in Qsos \ (raced \cup unstored) :
    edits[q].count > 0 /\ ~edits[q].failed /\ ~FailedNow(q) => Packet("edit", q, CurVer[q]) \in Posted
\* A row not dirty holds its first version, or one that was written.
CleanVer == \A q \in Qsos \ (raced \cup unstored) :
    Logged(q) /\ ~row[q].dirty => row[q].ver = 1 \/ Packet("edit", q, row[q].ver) \in written

\* Which version was posted and written, next to the one the log has.
VerInv == StoringVer /\ MadeLogged /\ NoneUnlogged /\ FirstVer /\ FlightVer /\ CleanVer

\* At the start nothing is logged and nothing is posted.
LEMMA VerInit == Init => VerInv
BY DEF Init, VerInv, StoringVer, MadeLogged, NoneUnlogged, FirstVer, FlightVer, CleanVer, Posted, Queued,
   Logged, NotLogged, NoEdits, Qsos

\* What is posted after a packet was posted last, ...
LEMMA PostedOne ==
    ASSUME TypeOK, NEW p \in Packets, outq' = outq \/ outq' = Append(outq, p), written' = written
    PROVE  /\ Posted \subseteq Posted' /\ Posted' \subseteq Posted \cup {p}
           /\ outq' = Append(outq, p) => p \in Posted'
<1>1. outq \in Seq(Packets)
  BY DEF TypeOK
<1>2. /\ \A i \in DOMAIN outq : i \in DOMAIN Append(outq, p) /\ Append(outq, p)[i] = outq[i]
      /\ Len(outq) + 1 \in DOMAIN Append(outq, p) /\ Append(outq, p)[Len(outq) + 1] = p
  BY <1>1
<1>3. \A i \in DOMAIN Append(outq, p) :
        (i \in DOMAIN outq /\ Append(outq, p)[i] = outq[i]) \/ Append(outq, p)[i] = p
  BY <1>1, AppendPlaces
<1>4. CASE outq' = outq
  <2>1. outq' # Append(outq, p)
    BY <1>1, <1>4
  <2> QED
    BY <1>4, <2>1 DEF Posted, Queued
<1>5. CASE outq' = Append(outq, p)
  <2>1. Queued \subseteq Queued' /\ p \in Queued'
    BY <1>2, <1>5 DEF Queued
  <2>2. Queued' \subseteq Queued \cup {p}
    BY <1>3, <1>5 DEF Queued
  <2> QED
    BY <2>1, <2>2 DEF Posted
<1> QED
  BY <1>4, <1>5

\* ... after several were, ...
LEMMA PostedAll ==
    ASSUME TypeOK, NEW ps \in Seq(Packets), outq' = outq \/ outq' = outq \o ps, written' = written
    PROVE  /\ Posted \subseteq Posted' /\ Posted' \subseteq Posted \cup {ps[i] : i \in DOMAIN ps}
           /\ outq' = outq \o ps => \A i \in DOMAIN ps : ps[i] \in Posted'
<1>1. outq \in Seq(Packets)
  BY DEF TypeOK
<1> DEFINE s == outq \o ps
<1>2. /\ Len(outq) \in Nat /\ Len(ps) \in Nat
      /\ DOMAIN outq = 1 .. Len(outq) /\ DOMAIN ps = 1 .. Len(ps)
  BY <1>1
<1>3. /\ DOMAIN s = 1 .. (Len(outq) + Len(ps))
      /\ \A i \in 1 .. Len(outq) : s[i] = outq[i]
      /\ \A i \in (Len(outq) + 1) .. (Len(outq) + Len(ps)) : s[i] = ps[i - Len(outq)]
  BY <1>1, <1>2, ConcatProperties, SMT
<1>4. \A i \in DOMAIN outq : i \in DOMAIN s /\ s[i] = outq[i]
  BY <1>2, <1>3
<1>5. \A i \in DOMAIN ps : Len(outq) + i \in DOMAIN s /\ s[Len(outq) + i] = ps[i]
  BY <1>2, <1>3
<1>6. \A i \in DOMAIN s : \/ i \in DOMAIN outq /\ s[i] = outq[i]
                          \/ i - Len(outq) \in DOMAIN ps /\ s[i] = ps[i - Len(outq)]
  BY <1>1, ConcatPlaces
<1> DEFINE new == {ps[i] : i \in DOMAIN ps}
           all == {s[i] : i \in DOMAIN s}
<1>7. Queued \subseteq all /\ new \subseteq all /\ all \subseteq Queued \cup new
  <2> HIDE DEF s
  <2> QED
    BY <1>4, <1>5, <1>6 DEF Queued
<1>8. outq' = s => Queued' = all
  BY DEF Queued
<1> HIDE DEF s, all
<1>9. CASE outq' = outq /\ outq' # s
  BY <1>9 DEF Posted, Queued, s
<1>10. CASE outq' = s
  BY <1>7, <1>8, <1>10 DEF Posted
<1> QED
  BY <1>9, <1>10 DEF s

\* ... and after the writer took one.
LEMMA PostedWriter ==
    ASSUME TypeOK, NEW ok \in BOOLEAN, WriterFinishes(ok)
    PROVE  /\ Posted' \subseteq Posted /\ written \subseteq written'
           /\ \A p \in Posted : p \in Posted' \/ (p = Head(outq) /\ ~ok)
<1>1. outq # <<>> /\ outq' = Tail(outq) /\ written' = IF ok THEN written \cup {Head(outq)} ELSE written
  BY DEF WriterFinishes
<1>2. outq \in Seq(Packets)
  BY DEF TypeOK
<1>3. \A i \in DOMAIN outq' : i + 1 \in DOMAIN outq /\ outq'[i] = outq[i + 1]
  BY <1>1, <1>2, TailPlaces
<1>4. 1 \in DOMAIN outq /\ Head(outq) = outq[1]
  BY <1>1, <1>2, HeadPlaces
<1>5. \A i \in DOMAIN outq : i = 1 \/ (i - 1 \in DOMAIN outq' /\ outq'[i - 1] = outq[i])
  BY <1>1, <1>2
<1>6. Queued' \subseteq Queued /\ Head(outq) \in Queued
  BY <1>3, <1>4 DEF Queued
<1>7. \A p \in Queued : p \in Queued' \/ p = Head(outq)
  BY <1>4, <1>5 DEF Queued
<1> QED
  BY <1>1, <1>6, <1>7 DEF Posted

\* A step that touches neither rows nor packets.
LEMMA VerQuiet ==
    ASSUME VerInv, UNCHANGED <<row, storing, outq, outcomes, edits, made, written, raced, unstored>>
    PROVE  VerInv'
BY DEF VerInv, StoringVer, MadeLogged, NoneUnlogged, FirstVer, FlightVer, CleanVer, Posted, Queued,
   Logged, FailedNow, CurVer

\* LogContact posts version 1 of a QSO no packet was about.
LEMMA VerLogContact == TypeOK /\ MadeInv /\ VerInv /\ LogContact => VerInv'
<1> SUFFICES ASSUME TypeOK, MadeInv, VerInv, LogContact PROVE VerInv'
  OBVIOUS
<1>1. PICK n \in Qsos :
        /\ storing = None /\ n = made + 1 /\ made' = n
        /\ storing' = [qso |-> n, row |-> [ver |-> 1, sent |-> FALSE, dirty |-> FALSE]]
        /\ UNCHANGED <<row, outcomes, edits, written, raced, unstored>>
        /\ outq' = outq \/ outq' = Append(outq, Packet("qso", n, 1))
  <2>1. made + 1 \in Qsos
    BY DEF LogContact, TypeOK, Qsos
  <2>2. /\ storing = None /\ made' = made + 1
        /\ storing' = [qso |-> made + 1, row |-> [ver |-> 1, sent |-> FALSE, dirty |-> FALSE]]
        /\ UNCHANGED <<row, outcomes, edits, written, raced, unstored>>
        /\ outq' = outq \/ outq' = Append(outq, Packet("qso", made + 1, 1))
    BY DEF LogContact, PostQso, UserFree, MainFree, history
  <2> QED
    BY <2>1, <2>2
<1> DEFINE p == Packet("qso", n, 1)
<1>2. p \in Packets /\ p.kind = "qso" /\ p.ver = 1
  BY TypeSteps DEF Packet, Versions
<1>3. Posted \subseteq Posted' /\ Posted' \subseteq Posted \cup {p}
  <2> HIDE DEF p
  <2> QED
    BY <1>1, <1>2, PostedOne DEF p
<1> HIDE DEF p
<1>4. storing' # None /\ storing'.qso = n /\ storing'.row.ver = 1
  <2>1. [ver |-> 1, sent |-> FALSE, dirty |-> FALSE] \in Rows
    BY DEF Rows, Versions
  <2>2. storing' \in [qso : Qsos, row : Rows]
    BY <1>1, <2>1
  <2>3. storing' # None
    BY <2>2
  <2>4. storing'.qso = n /\ storing'.row.ver = 1
    BY <1>1
  <2> QED
    BY <2>3, <2>4
<1>5. made \in Nat /\ n \in Nat
  BY DEF TypeOK, Qsos
<1>6. ~Logged(n) /\ row[n].ver = 0
  <2>1. row[n].ver \in Nat
    BY TypeSteps DEF Versions
  <2>2. ~Logged(n)
    BY <1>1, <1>5 DEF MadeInv
  <2> QED
    BY <2>1, <2>2 DEF Logged
<1>7. StoringVer'
  BY <1>1, <1>4, <1>6 DEF StoringVer
<1>8. MadeLogged'
  <2>1. \A q \in Qsos : q <= n => q <= made \/ q = n
    BY <1>1, <1>5 DEF Qsos
  <2> QED
    BY <1>1, <1>4, <2>1 DEF VerInv, MadeLogged, Logged
<1>9. NoneUnlogged' /\ CleanVer'
  BY <1>1 DEF VerInv, NoneUnlogged, CleanVer, Logged
<1>10. FirstVer'
  BY <1>1, <1>2, <1>3 DEF VerInv, FirstVer
<1>11. FlightVer'
  <2>1. \A q \in Qsos : q # n => CurVer'[q] = CurVer[q]
    BY <1>1, <1>4 DEF CurVer
  <2>2. edits[n].count = 0
    BY <1>6 DEF VerInv, NoneUnlogged
  <2>3. \A q \in Qsos : FailedNow(q)' <=> FailedNow(q)
    BY <1>1 DEF FailedNow
  <2> QED
    <3> SUFFICES ASSUME NEW q \in Qsos \ (raced' \cup unstored'), edits'[q].count > 0,
                        ~edits'[q].failed, ~FailedNow(q)'
                 PROVE  Packet("edit", q, CurVer'[q]) \in Posted'
      BY DEF FlightVer, Packet
    <3>1. q # n
      BY <1>1, <2>2
    <3>2. Packet("edit", q, CurVer[q]) \in Posted
      BY <1>1, <2>3 DEF VerInv, FlightVer
    <3> QED
      BY <1>3, <2>1, <3>1, <3>2
<1> QED
  BY <1>7, <1>8, <1>9, <1>10, <1>11 DEF VerInv


\* An edit that was posted flies; one that was not is of a QSO with none, or raced.
LEMMA EditFlies ==
    ASSUME TypeOK, FlightVer, NEW n \in Qsos, NEW v \in Versions, PostEdit(n, v), EditOf(n),
           outcomes' = outcomes, written' = written, unstored \subseteq unstored',
           n \notin unstored' => CurVer'[n] = v,
           \A r \in Qsos : r # n => CurVer'[r] = CurVer[r]
    PROVE  FlightVer'
<1> DEFINE p == Packet("edit", n, v)
<1>1. p \in Packets
  BY TypeSteps
<1>2. outq' = outq \/ outq' = Append(outq, p)
  BY DEF PostEdit
<1>3. /\ Posted \subseteq Posted'
      /\ outq' = Append(outq, p) => p \in Posted'
  <2> HIDE DEF p
  <2> QED
    BY <1>1, <1>2, PostedOne
<1>4. raced \subseteq raced' /\ (~Connected /\ edits[n].count > 0 => n \in raced')
  BY DEF EditOf
<1>5. edits \in [Qsos -> [count : Nat, failed : BOOLEAN]]
  BY DEF TypeOK
<1>6. \A r \in Qsos : r # n => edits'[r] = edits[r]
  BY <1>5 DEF PostEdit, EditPosted
<1>7. ~Connected => edits' = edits
  BY DEF PostEdit
<1>8. Connected => outq' = Append(outq, p)
  BY DEF PostEdit
<1> HIDE DEF p
<1> SUFFICES ASSUME NEW q \in Qsos \ (raced' \cup unstored'), edits'[q].count > 0,
                    ~edits'[q].failed, ~FailedNow(q)'
             PROVE  Packet("edit", q, CurVer'[q]) \in Posted'
  BY DEF FlightVer, Packet
<1>9. FailedNow(q)' <=> FailedNow(q)
  BY DEF FailedNow
<1>10. CASE q # n
  <2>1. Packet("edit", q, CurVer[q]) \in Posted
    BY <1>4, <1>6, <1>9, <1>10 DEF FlightVer
  <2> QED
    BY <1>3, <1>10, <2>1
<1>11. CASE q = n
  <2>1. Connected
    BY <1>4, <1>7, <1>11
  <2>2. CurVer'[q] = v
    BY <1>11
  <2> QED
    BY <1>3, <1>8, <1>11, <2>1, <2>2 DEF p
<1> QED
  BY <1>10, <1>11

\* Posting an edit leaves the first versions alone.
LEMMA EditKeepsFirst ==
    ASSUME TypeOK, FirstVer, NEW n \in Qsos, NEW v \in Versions, PostEdit(n, v),
           written' = written, unstored \subseteq unstored',
           \A r \in Qsos : row'[r].ver <= 1 /\ r \notin unstored' => row[r].ver <= 1
    PROVE  FirstVer'
<1> DEFINE p == Packet("edit", n, v)
<1>1. p \in Packets /\ p.kind = "edit"
  BY TypeSteps DEF Packet
<1>2. outq' = outq \/ outq' = Append(outq, p)
  BY DEF PostEdit
<1> HIDE DEF p
<1>3. Posted' \subseteq Posted \cup {p}
  BY <1>1, <1>2, PostedOne
<1>4. Posted' \subseteq Packets
  <2>1. Posted \subseteq Packets
    BY DEF TypeOK, Posted, Queued
  <2> QED
    BY <1>1, <1>3, <2>1
<1> SUFFICES ASSUME NEW w \in Posted', w.kind = "qso", w.qso \notin unstored', row'[w.qso].ver <= 1
             PROVE  w.ver = 1
  BY DEF FirstVer
<1>5. w \in Posted /\ w.qso \in Qsos
  BY <1>1, <1>3, <1>4, TypeSteps
<1> QED
  BY <1>5 DEF FirstVer

\* DeleteLastContact posts the version it stores, or leaves the row dirty.
LEMMA VerDelete == TypeOK /\ VerInv /\ (\E b \in BOOLEAN : DeleteLastContact(b)) => VerInv'
<1> SUFFICES ASSUME TypeOK, VerInv, NEW b \in BOOLEAN, DeleteLastContact(b) PROVE VerInv'
  OBVIOUS
<1>1. PICK n \in Qsos :
        /\ Logged(n) /\ EditOf(n)
        /\ row' = IF b THEN [row EXCEPT ![n].ver = @ + 1, ![n].dirty = TRUE] ELSE row
        /\ unstored' = IF b THEN unstored ELSE unstored \cup {n}
        /\ PostEdit(n, row[n].ver + 1)
  BY DEF DeleteLastContact
<1>2. storing = None /\ UNCHANGED <<storing, outcomes, made, written>>
  BY DEF DeleteLastContact, UserFree, MainFree
<1> DEFINE v == row[n].ver + 1
<1>3. v \in Versions /\ v > 1 /\ row[n].ver \in Nat
  BY <1>1, TypeSteps DEF EditOf, Versions, Logged
<1>4. raced \subseteq raced' /\ unstored \subseteq unstored' /\ (b \/ n \in unstored')
  BY <1>1 DEF EditOf
<1>5. \A r \in Qsos : r # n => row'[r] = row[r]
  BY <1>1 DEF TypeOK
<1>6. IF b THEN row'[n].dirty /\ row'[n].ver = v ELSE row' = row
  <2>1. row[n] \in Rows /\ row \in [Qsos -> Rows]
    BY TypeSteps DEF TypeOK
  <2>2. b => row'[n] = [[row[n] EXCEPT !.ver = @ + 1] EXCEPT !.dirty = TRUE]
    BY <1>1, <2>1
  <2> QED
    BY <1>1, <2>1, <2>2 DEF Rows
<1>7. Logged(n)'
  BY <1>1, <1>3, <1>6 DEF Logged
<1> HIDE DEF v
<1>8. PostEdit(n, v)
  BY <1>1 DEF v
<1>9. StoringVer'
  BY <1>2 DEF StoringVer
<1>10. MadeLogged'
  BY <1>2, <1>4, <1>5, <1>7 DEF VerInv, MadeLogged, Logged
<1>11. NoneUnlogged'
  <2>1. \A r \in Qsos : r # n => edits'[r] = edits[r]
    BY <1>8 DEF PostEdit, EditPosted, TypeOK
  <2> QED
    BY <1>5, <1>7, <2>1 DEF VerInv, NoneUnlogged, Logged
<1>12. FirstVer'
  <2>1. \A r \in Qsos : row'[r].ver <= 1 /\ r \notin unstored' => row[r].ver <= 1
    <3> SUFFICES ASSUME NEW r \in Qsos, row'[r].ver <= 1, r \notin unstored' PROVE row[r].ver <= 1
      OBVIOUS
    <3>1. r = n => row'[r].ver = v
      BY <1>4, <1>6
    <3>2. v \in Nat /\ ~ (v <= 1)
      BY <1>3 DEF Versions
    <3>3. r # n
      BY <3>1, <3>2
    <3> QED
      BY <1>5, <3>3
  <2> QED
    BY <1>2, <1>3, <1>4, <1>8, <2>1, EditKeepsFirst DEF VerInv
<1>13. FlightVer'
  <2>1. n \notin unstored' => CurVer'[n] = v
    BY <1>2, <1>4, <1>6 DEF CurVer
  <2>2. \A r \in Qsos : r # n => CurVer'[r] = CurVer[r]
    BY <1>2, <1>5 DEF CurVer
  <2> QED
    BY <1>1, <1>2, <1>3, <1>4, <1>8, <2>1, <2>2, EditFlies DEF VerInv
<1>14. CleanVer'
  BY <1>2, <1>4, <1>5, <1>6 DEF VerInv, CleanVer, Logged
<1> QED
  BY <1>9, <1>10, <1>11, <1>12, <1>13, <1>14 DEF VerInv

\* SaveEditDialog posts the version it holds, or leaves the row dirty.
LEMMA VerSave == TypeOK /\ DialogInv /\ VerInv /\ SaveEditDialog => VerInv'
<1> SUFFICES ASSUME TypeOK, DialogInv, VerInv, SaveEditDialog PROVE VerInv'
  OBVIOUS
<1> DEFINE m == dialog.qso
           rec == [dialog.row EXCEPT !.ver = @ + 1, !.dirty = TRUE]
<1>1. /\ EditOf(m) /\ PostEdit(m, rec.ver) /\ dialog # None /\ storing = None
      /\ storing' = [qso |-> m, row |-> rec]
      /\ UNCHANGED <<row, outcomes, made, written, unstored>>
  BY DEF SaveEditDialog, bounds, MainFree
<1>2. dialog \in [qso : Qsos, row : Rows]
  BY <1>1 DEF TypeOK
<1>3. m \in Qsos /\ dialog.row \in Rows
  BY <1>2
<1>4. Logged(m) /\ dialog.row.ver = row[m].ver
  BY <1>1 DEF DialogInv
<1>5. rec.ver \in Versions /\ rec.dirty /\ rec.ver = row[m].ver + 1 /\ rec \in Rows
  <2>1. rec.ver = dialog.row.ver + 1 /\ rec.dirty
    BY <1>3 DEF Rows
  <2>2. row[m].ver < MaxVersion /\ row[m].ver \in 0 .. MaxVersion
    BY <1>1, <1>3, TypeSteps DEF EditOf, Versions
  <2>3. dialog.row.ver + 1 \in Versions
    BY <1>4, <2>2 DEF Versions
  <2>4. rec \in Rows
    BY <1>3, <2>3 DEF Rows
  <2> HIDE DEF m, rec
  <2> QED
    BY <1>4, <2>1, <2>3, <2>4
<1> HIDE DEF m, rec
<1>6. PICK n \in Qsos, r \in Rows :
        /\ EditOf(n) /\ PostEdit(n, r.ver) /\ Logged(n)
        /\ storing' = [qso |-> n, row |-> r] /\ r.dirty /\ r.ver = row[n].ver + 1
  BY <1>1, <1>3, <1>4, <1>5
<1>7. storing' \in [qso : Qsos, row : Rows] /\ storing'.qso = n /\ storing'.row = r
  BY <1>6
<1>8. storing' # None /\ r.ver \in Versions /\ row[n].ver \in Nat
  <2>1. storing' # None
    BY <1>7
  <2> QED
    BY <2>1, TypeSteps DEF Rows, Versions
<1>9. raced \subseteq raced'
  BY <1>6 DEF EditOf
<1>10. StoringVer'
  BY <1>1, <1>6, <1>7, <1>8 DEF StoringVer
<1>11. MadeLogged'
  BY <1>1 DEF VerInv, MadeLogged, Logged
<1>12. NoneUnlogged'
  <2>1. \A q \in Qsos : q # n => edits'[q] = edits[q]
    BY <1>6 DEF PostEdit, EditPosted, TypeOK
  <2> QED
    BY <1>1, <1>6, <2>1 DEF VerInv, NoneUnlogged, Logged
<1>13. FirstVer'
  BY <1>1, <1>6, <1>8, EditKeepsFirst DEF VerInv
<1>14. FlightVer'
  <2>1. CurVer'[n] = r.ver
    BY <1>7, <1>8 DEF CurVer
  <2>2. \A q \in Qsos : q # n => CurVer'[q] = CurVer[q]
    BY <1>1, <1>7, <1>8 DEF CurVer
  <2> QED
    BY <1>1, <1>6, <1>8, <2>1, <2>2, EditFlies DEF VerInv
<1>15. CleanVer'
  BY <1>1, <1>9 DEF VerInv, CleanVer, Logged
<1> QED
  BY <1>10, <1>11, <1>12, <1>13, <1>14, <1>15 DEF VerInv

\* StoreRow makes the version held the log's; a refused row's QSO is excused.
LEMMA VerStore == TypeOK /\ VerInv /\ (\E b \in BOOLEAN : StoreRow(b)) => VerInv'
<1> SUFFICES ASSUME TypeOK, VerInv, NEW b \in BOOLEAN, StoreRow(b) PROVE VerInv'
  OBVIOUS
<1>1. storing # None /\ storing \in [qso : Qsos, row : Rows]
  BY DEF StoreRow, TypeOK
<1>2. PICK n \in Qsos, r \in Rows : storing.qso = n /\ storing.row = r
  BY <1>1
<1>3. /\ storing' = None
      /\ row' = IF b THEN [row EXCEPT ![n] = r] ELSE row
      /\ unstored' = IF b THEN unstored ELSE unstored \cup {n}
      /\ UNCHANGED <<outq, outcomes, edits, made, written, raced>>
  BY <1>2 DEF StoreRow, delivery
<1>4. r.ver > row[n].ver /\ (r.dirty \/ r.ver = 1)
  BY <1>1, <1>2 DEF VerInv, StoringVer
<1>5. row[n].ver \in Nat /\ r.ver \in Nat /\ row \in [Qsos -> Rows]
  BY TypeSteps DEF TypeOK, Rows, Versions
<1>6. \A q \in Qsos : q # n => row'[q] = row[q]
  BY <1>3, <1>5
<1>7. (b => row'[n] = r) /\ (b \/ n \in unstored') /\ unstored \subseteq unstored'
  BY <1>3, <1>5
<1>8. Posted' = Posted
  BY <1>3 DEF Posted, Queued
<1>9. \A q \in Qsos : Logged(q) => Logged(q)'
  BY <1>3, <1>4, <1>5, <1>6, <1>7 DEF Logged
<1>10. StoringVer'
  BY <1>3 DEF StoringVer
<1>11. MadeLogged'
  <2>1. b => Logged(n)'
    BY <1>4, <1>5, <1>7 DEF Logged
  <2> QED
    BY <1>2, <1>3, <1>7, <1>9, <2>1 DEF VerInv, MadeLogged
<1>12. NoneUnlogged'
  BY <1>3, <1>9 DEF VerInv, NoneUnlogged
<1>13. FirstVer'
  <2> SUFFICES ASSUME NEW w \in Posted, w.kind = "qso", w.qso \notin unstored', row'[w.qso].ver <= 1
               PROVE  w.ver = 1
    BY <1>8 DEF FirstVer
  <2>1. w.qso \in Qsos
    <3>1. w \in Packets
      BY DEF TypeOK, Posted, Queued
    <3> QED
      BY <3>1, TypeSteps
  <2>2. w.qso \notin unstored
    BY <1>7
  <2>3. row[w.qso].ver <= 1
    BY <1>4, <1>5, <1>6, <1>7, <2>1
  <2> QED
    BY <2>2, <2>3 DEF VerInv, FirstVer
<1>14. FlightVer'
  <2>1. \A q \in Qsos : q \notin unstored' => CurVer'[q] = CurVer[q]
    BY <1>1, <1>2, <1>3, <1>6, <1>7 DEF CurVer
  <2> SUFFICES ASSUME NEW q \in Qsos \ (raced' \cup unstored'), edits'[q].count > 0,
                      ~edits'[q].failed, ~FailedNow(q)'
               PROVE  Packet("edit", q, CurVer'[q]) \in Posted'
    BY DEF FlightVer, Packet
  <2>2. Packet("edit", q, CurVer[q]) \in Posted
    BY <1>3, <1>7 DEF VerInv, FlightVer, FailedNow
  <2> QED
    BY <1>8, <2>1, <2>2
<1>15. CleanVer'
  <2> SUFFICES ASSUME NEW q \in Qsos \ (raced' \cup unstored'), Logged(q)', ~row'[q].dirty
               PROVE  row'[q].ver = 1 \/ Packet("edit", q, row'[q].ver) \in written'
    BY DEF CleanVer, Packet
  <2>1. CASE q = n
    BY <1>4, <1>7, <2>1
  <2>2. CASE q # n
    BY <1>3, <1>6, <1>7, <2>2 DEF VerInv, CleanVer, Logged
  <2> QED
    BY <2>1, <2>2
<1> QED
  BY <1>10, <1>11, <1>12, <1>13, <1>14, <1>15 DEF VerInv


\* What is still to be settled after a settle was so before, and not failed.
LEMMA SettleFlies ==
    ASSUME TypeOK, NEW q \in Qsos, edits' = EditsSettled, edits'[q].count > 0, ~edits'[q].failed
    PROVE  edits[q].count > 0 /\ ~edits[q].failed /\ ~FailedNow(q)
<1> DEFINE n == EditsOf(q, outcomes)
<1>1. n \in Nat /\ edits \in [Qsos -> [count : Nat, failed : BOOLEAN]] /\ outcomes \in Seq(Outcomes)
  BY EditsOfNat DEF TypeOK
<1>2. edits'[q] = IF n = 0 THEN edits[q] ELSE IF edits[q].count <= n THEN NoEdits
                  ELSE [count |-> edits[q].count - n, failed |-> edits[q].failed \/ FailedNow(q)]
  BY DEF EditsSettled
<1>3. n = 0 => ~FailedNow(q)
  <2> SUFFICES ASSUME n = 0, FailedNow(q) PROVE FALSE
    OBVIOUS
  <2>1. PICK i \in DOMAIN outcomes : outcomes[i] = [kind |-> "edit", qso |-> q, ok |-> FALSE]
    BY DEF FailedNow
  <2>2. IsEditOf(outcomes[i], q)
    BY <2>1 DEF IsEditOf
  <2> QED
    BY <1>1, <2>2, EditsOfNat
<1> HIDE DEF n
<1>4. CASE n = 0
  BY <1>2, <1>3, <1>4
<1>5. CASE n # 0 /\ edits[q].count <= n
  BY <1>2, <1>5 DEF NoEdits
<1>6. CASE n # 0 /\ ~ (edits[q].count <= n)
  <2> DEFINE f == edits[q].failed \/ FailedNow(q)
  <2>1. edits'[q] = [count |-> edits[q].count - n, failed |-> f]
    BY <1>2, <1>6
  <2>2. edits[q].count > 0
    BY <1>1, <1>6
  <2> HIDE DEF f
  <2>3. ~f
    BY <2>1
  <2> QED
    BY <2>2, <2>3, Zenon DEF f
<1> QED
  BY <1>4, <1>5, <1>6

\* Settle clears a dirty flag only of an edit whose last packet, with the row's version, was written.
LEMMA VerSettle == TypeOK /\ LedgerExact /\ VerInv /\ (\E b \in BOOLEAN : Settle(b)) => VerInv'
<1> SUFFICES ASSUME TypeOK, LedgerExact, VerInv, NEW b \in BOOLEAN, Settle(b) PROVE VerInv'
  OBVIOUS
<1>1. /\ storing = None /\ outcomes' = <<>> /\ edits' = EditsSettled
      /\ row' = IF b THEN Marked ELSE row
      /\ UNCHANGED <<storing, outq, made, written, raced, unstored>>
  BY DEF Settle, MainFree, history, bounds
<1>2. \A q \in Qsos : /\ row'[q].ver = row[q].ver
                      /\ ~row'[q].dirty => ~row[q].dirty \/ q \in EditsDone
  BY <1>1, MarkedKeeps
<1>3. Posted' = Posted
  BY <1>1 DEF Posted, Queued
<1>4. \A q \in Qsos : CurVer[q] = row[q].ver /\ CurVer'[q] = row[q].ver
  BY <1>1, <1>2 DEF CurVer
<1>5. StoringVer' /\ MadeLogged'
  BY <1>1, <1>2 DEF VerInv, StoringVer, MadeLogged, Logged
<1>6. NoneUnlogged'
  <2> SUFFICES ASSUME NEW q \in Qsos, ~Logged(q) PROVE edits'[q].count = 0
    BY <1>2 DEF NoneUnlogged, Logged
  <2>1. edits[q].count = 0 /\ EditsOf(q, outcomes) \in Nat
    BY EditsOfNat DEF VerInv, NoneUnlogged, TypeOK
  <2> QED
    BY <1>1, <2>1 DEF EditsSettled, NoEdits
<1>7. FirstVer'
  <2>1. \A p \in Posted : p.qso \in Qsos
    BY TypeSteps DEF TypeOK, Posted, Queued
  <2> QED
    BY <1>1, <1>2, <1>3, <2>1 DEF VerInv, FirstVer
<1>8. FlightVer'
  <2> SUFFICES ASSUME NEW q \in Qsos \ (raced' \cup unstored'), edits'[q].count > 0, ~edits'[q].failed
               PROVE  Packet("edit", q, CurVer'[q]) \in Posted'
    BY DEF FlightVer, Packet
  <2>1. edits[q].count > 0 /\ ~edits[q].failed /\ ~FailedNow(q)
    BY <1>1, SettleFlies
  <2>2. Packet("edit", q, CurVer[q]) \in Posted
    BY <1>1, <2>1 DEF VerInv, FlightVer
  <2> QED
    BY <1>3, <1>4, <2>2
<1>9. CleanVer'
  <2> SUFFICES ASSUME NEW q \in Qsos \ (raced \cup unstored), Logged(q), ~row'[q].dirty
               PROVE  row[q].ver = 1 \/ Packet("edit", q, row[q].ver) \in written
    BY <1>1, <1>2 DEF CleanVer, Packet, Logged
  <2>1. CASE ~row[q].dirty
    BY <2>1 DEF VerInv, CleanVer
  <2>2. CASE q \in EditsDone
    <3>1. /\ EditsOf(q, outcomes) > 0 /\ edits[q].count <= EditsOf(q, outcomes)
          /\ ~edits[q].failed /\ ~FailedNow(q)
      BY <2>2 DEF EditsDone
    <3>2. /\ edits[q].count = EditsOf(q, outq) + EditsOf(q, outcomes)
          /\ EditsOf(q, outq) \in Nat /\ EditsOf(q, outcomes) \in Nat /\ outq \in Seq(Packets)
      BY EditsOfNat DEF LedgerExact, TypeOK
    <3>3. edits[q].count > 0 /\ EditsOf(q, outq) = 0
      BY <3>1, <3>2
    <3>4. Packet("edit", q, row[q].ver) \in Posted
      BY <1>4, <3>1, <3>3 DEF VerInv, FlightVer
    <3>5. \A i \in DOMAIN outq : ~IsEditOf(outq[i], q)
      BY <3>2, <3>3, EditsOfNat
    <3>6. Packet("edit", q, row[q].ver) \notin Queued
      BY <3>5 DEF Queued, IsEditOf, Packet
    <3> QED
      BY <3>4, <3>6 DEF Posted
  <2> QED
    BY <1>2, <2>1, <2>2
<1> QED
  BY <1>5, <1>6, <1>7, <1>8, <1>9 DEF VerInv

\* The resend posts the row's version of every dirty row.
LEMMA VerHello == TypeOK /\ VerInv /\ (\E b \in BOOLEAN : ServerHello(b)) => VerInv'
<1> SUFFICES ASSUME TypeOK, VerInv, NEW b \in BOOLEAN, ServerHello(b) PROVE VerInv'
  OBVIOUS
<1>1. storing = None /\ UNCHANGED <<row, storing, outcomes, made, written, raced, unstored>>
  BY DEF ServerHello, MainFree, bounds
<1>2. CASE b = FALSE
  BY <1>1, <1>2, VerQuiet DEF ServerHello
<1>3. CASE b = TRUE
  <2> DEFINE ps == FlattenSeq(OwedByQso)
  <2>1. ps \in Seq(Packets)
    BY TypeOwed, PerQso, FlattenSeqOf
  <2>2. outq' = outq \o ps
    BY <1>3 DEF ServerHello, ResendOfflineWork, OwedByQso
  <2>3. \A i \in DOMAIN ps :
          /\ ps[i].qso \in Qsos /\ Logged(ps[i].qso) /\ ps[i].ver = row[ps[i].qso].ver
          /\ ps[i] \in Packets
    <3> HIDE DEF ps
    <3>1. \A i \in DOMAIN ps : ps[i] \in Packets
      BY <2>1
    <3>2. \A i \in DOMAIN ps : ps[i].qso \in Qsos /\ Logged(ps[i].qso) /\ ps[i].ver = row[ps[i].qso].ver
      BY ResendPosts DEF ps
    <3> QED
      BY <3>1, <3>2
  <2>4. \A q \in Qsos : Logged(q) /\ row[q].dirty => \E i \in DOMAIN ps : IsEditOf(ps[i], q)
    <3> SUFFICES ASSUME NEW q \in Qsos, Logged(q), row[q].dirty
                 PROVE  \E i \in DOMAIN ps : IsEditOf(ps[i], q)
      OBVIOUS
    <3>1. EditsOf(q, ps) = 1
      BY HelloEdits
    <3> HIDE DEF ps
    <3> QED
      BY <2>1, <3>1, EditsOfNat
  <2>5. \A q \in Qsos : edits'[q] = edits[q] \/ (Logged(q) /\ row[q].dirty /\ edits'[q].failed = edits[q].failed)
    <3> SUFFICES ASSUME NEW q \in Qsos
                 PROVE  edits'[q] = edits[q] \/ (Logged(q) /\ row[q].dirty /\ edits'[q].failed = edits[q].failed)
      OBVIOUS
    <3>1. edits'[q] = IF EditsOf(q, OwedPackets(q)) = 0 THEN edits[q] ELSE EditPosted(edits, q)[q]
      BY <1>3 DEF ServerHello, ResendOfflineWork
    <3>2. EditPosted(edits, q)[q].failed = edits[q].failed
      BY DEF EditPosted, TypeOK
    <3> QED
      BY <3>1, <3>2, OwedEdits
  <2> HIDE DEF ps
  <2>6. Posted \subseteq Posted' /\ Posted' \subseteq Posted \cup {ps[i] : i \in DOMAIN ps}
        /\ \A i \in DOMAIN ps : ps[i] \in Posted'
    BY <1>1, <2>1, <2>2, PostedAll
  <2>7. StoringVer' /\ MadeLogged' /\ CleanVer'
    BY <1>1 DEF VerInv, StoringVer, MadeLogged, CleanVer, Logged
  <2>8. NoneUnlogged'
    BY <1>1, <2>5 DEF VerInv, NoneUnlogged, Logged
  <2>9. FirstVer'
    <3> SUFFICES ASSUME NEW p \in Posted', p.kind = "qso", p.qso \notin unstored, row[p.qso].ver <= 1
                 PROVE  p.ver = 1
      BY <1>1 DEF FirstVer
    <3>1. CASE p \in Posted
      BY <3>1 DEF VerInv, FirstVer
    <3>2. CASE p \notin Posted
      <4>1. PICK i \in DOMAIN ps : p = ps[i]
        BY <2>6, <3>2
      <4>2. p.ver = row[p.qso].ver /\ row[p.qso].ver > 0 /\ row[p.qso].ver \in Nat
        BY <2>3, <4>1, TypeSteps DEF Logged, Versions
      <4> QED
        BY <4>2
    <3> QED
      BY <3>1, <3>2
  <2>10. FlightVer'
    <3> SUFFICES ASSUME NEW q \in Qsos \ (raced \cup unstored), edits'[q].count > 0,
                        ~edits'[q].failed, ~FailedNow(q)
                 PROVE  Packet("edit", q, CurVer[q]) \in Posted'
      <4>1. CurVer' = CurVer
        BY <1>1 DEF CurVer
      <4> QED
        BY <1>1, <4>1 DEF FlightVer, Packet, FailedNow
    <3>1. CASE edits'[q] = edits[q]
      BY <2>6, <3>1 DEF VerInv, FlightVer
    <3>2. CASE Logged(q) /\ row[q].dirty
      <4>1. PICK i \in DOMAIN ps : IsEditOf(ps[i], q)
        BY <2>4, <3>2
      <4>2. ps[i] \in Packets /\ ps[i].kind = "edit" /\ ps[i].qso = q /\ ps[i].ver = row[q].ver
        BY <2>3, <4>1 DEF IsEditOf
      <4>3. ps[i] = Packet("edit", q, row[q].ver)
        BY <4>2 DEF Packets, Packet
      <4>4. CurVer[q] = row[q].ver
        BY <1>1 DEF CurVer
      <4> QED
        BY <2>6, <4>3, <4>4
    <3> QED
      BY <2>5, <3>1, <3>2
  <2> QED
    BY <2>7, <2>8, <2>9, <2>10 DEF VerInv
<1> QED
  BY <1>2, <1>3

\* The restock posts no edits; the QSOs its pull adds are ones the log refused, and excused.
LEMMA VerAnswer == TypeOK /\ MadeInv /\ VerInv /\ (\E b \in BOOLEAN : AnswerSync(b)) => VerInv'
<1> SUFFICES ASSUME TypeOK, MadeInv, VerInv, NEW b \in BOOLEAN, AnswerSync(b) PROVE VerInv'
  OBVIOUS
<1>1. storing = None /\ UNCHANGED <<storing, outcomes, edits, made, written, raced, unstored>>
  BY DEF AnswerSync, MainFree, bounds, delivery
<1> DEFINE ps == FlattenSeq(OfflineByQso)
<1>2. ps \in Seq(Packets)
  BY TypeOffline, PerQso, FlattenSeqOf
<1>3. outq' = outq \/ outq' = outq \o ps
  BY DEF AnswerSync, OfflineByQso
<1>4. \A i \in DOMAIN ps : ps[i].kind = "offline"
  BY RestockPosts
<1> HIDE DEF ps
<1>5. Posted \subseteq Posted' /\ Posted' \subseteq Posted \cup {ps[i] : i \in DOMAIN ps}
  BY <1>1, <1>2, <1>3, PostedAll
<1>6. \A q \in Qsos : row'[q] = row[q] \/ (~Logged(q) /\ q \in unstored)
  <2> SUFFICES ASSUME NEW q \in Qsos, row'[q] # row[q] PROVE ~Logged(q) /\ q \in unstored
    OBVIOUS
  <2>1. q \in ToPull
    BY DEF AnswerSync, TypeOK
  <2>2. ~Logged(q) /\ q <= made
    BY <2>1, LoggedIsMade DEF ToPull
  <2> QED
    BY <1>1, <2>2 DEF VerInv, MadeLogged
<1>7. \A q \in Qsos : Logged(q) => Logged(q)'
  BY <1>6 DEF Logged
<1>8. StoringVer' /\ MadeLogged' /\ NoneUnlogged'
  BY <1>1, <1>7 DEF VerInv, StoringVer, MadeLogged, NoneUnlogged
<1>9. FirstVer'
  <2> SUFFICES ASSUME NEW p \in Posted', p.kind = "qso", p.qso \notin unstored, row'[p.qso].ver <= 1
               PROVE  p.ver = 1
    BY <1>1 DEF FirstVer
  <2>1. p \in Posted
    BY <1>4, <1>5
  <2>2. p.qso \in Qsos
    BY <2>1, TypeSteps DEF TypeOK, Posted, Queued
  <2>3. row'[p.qso] = row[p.qso]
    BY <1>6, <2>2
  <2> QED
    BY <2>1, <2>3 DEF VerInv, FirstVer
<1>10. FlightVer'
  <2> SUFFICES ASSUME NEW q \in Qsos \ (raced \cup unstored), edits[q].count > 0, ~edits[q].failed, ~FailedNow(q)
               PROVE  Packet("edit", q, CurVer'[q]) \in Posted'
    BY <1>1 DEF FlightVer, Packet, FailedNow
  <2>1. CurVer'[q] = CurVer[q]
    BY <1>1, <1>6 DEF CurVer
  <2> QED
    BY <1>5, <2>1 DEF VerInv, FlightVer
<1>11. CleanVer'
  BY <1>1, <1>6 DEF VerInv, CleanVer, Logged
<1> QED
  BY <1>8, <1>9, <1>10, <1>11 DEF VerInv

\* The writer writes what was posted, or reports that it failed.
LEMMA VerWriter == TypeOK /\ VerInv /\ Writer => VerInv'
<1> SUFFICES ASSUME TypeOK, VerInv, NEW ok \in BOOLEAN, WriterFinishes(ok) PROVE VerInv'
  BY DEF Writer
<1> DEFINE p == Head(outq)
           o == [kind |-> p.kind, qso |-> p.qso, ok |-> ok]
<1>1. /\ UNCHANGED <<row, storing, edits, made, raced, unstored>>
      /\ outq # <<>>
      /\ outcomes' = IF Reported(p, ok) THEN Append(outcomes, o) ELSE outcomes
  BY DEF WriterFinishes, bounds
<1>2. outcomes \in Seq(Outcomes) /\ p \in Packets
  BY <1>1 DEF TypeOK
<1>3. Reported(p, ok) => o \in Outcomes
  BY <1>2 DEF Packets, Outcomes, Reported
<1>4. /\ Posted' \subseteq Posted /\ written \subseteq written'
      /\ \A w \in Posted : w \in Posted' \/ (w = p /\ ~ok)
  BY PostedWriter
<1>5. ASSUME NEW q \in Qsos, ~FailedNow(q)'
      PROVE  ~FailedNow(q) /\ ~ (p.kind = "edit" /\ p.qso = q /\ ~ok)
  <2>1. CASE Reported(p, ok)
    <3>1. /\ \A i \in DOMAIN outcomes : i \in DOMAIN outcomes' /\ outcomes'[i] = outcomes[i]
          /\ Len(outcomes) + 1 \in DOMAIN outcomes' /\ outcomes'[Len(outcomes) + 1] = o
      <4> HIDE DEF p, o
      <4> QED
        BY <1>1, <1>2, <1>3, <2>1
    <3>2. ~FailedNow(q)
      BY <1>5, <3>1 DEF FailedNow
    <3>3. ~ (p.kind = "edit" /\ p.qso = q /\ ~ok)
      BY <1>5, <3>1 DEF FailedNow
    <3> QED
      BY <3>2, <3>3
  <2>2. CASE ~Reported(p, ok)
    BY <1>1, <1>5, <2>2 DEF Reported, FailedNow
  <2> QED
    BY <2>1, <2>2
<1> HIDE DEF p, o
<1>6. StoringVer' /\ MadeLogged' /\ NoneUnlogged'
  BY <1>1 DEF VerInv, StoringVer, MadeLogged, NoneUnlogged, Logged
<1>7. FirstVer'
  BY <1>1, <1>4 DEF VerInv, FirstVer
<1>8. FlightVer'
  <2> SUFFICES ASSUME NEW q \in Qsos \ (raced \cup unstored), edits[q].count > 0, ~edits[q].failed, ~FailedNow(q)'
               PROVE  Packet("edit", q, CurVer[q]) \in Posted'
    <3>1. CurVer' = CurVer
      BY <1>1 DEF CurVer
    <3> QED
      BY <1>1, <3>1 DEF FlightVer, Packet
  <2>1. ~FailedNow(q) /\ ~ (p.kind = "edit" /\ p.qso = q /\ ~ok)
    BY <1>5
  <2>2. Packet("edit", q, CurVer[q]) \in Posted
    BY <2>1 DEF VerInv, FlightVer
  <2>3. Packet("edit", q, CurVer[q]).kind = "edit" /\ Packet("edit", q, CurVer[q]).qso = q
    BY DEF Packet
  <2> QED
    BY <1>4, <2>1, <2>2, <2>3
<1>9. CleanVer'
  BY <1>1, <1>4 DEF VerInv, CleanVer, Logged
<1> QED
  BY <1>6, <1>7, <1>8, <1>9 DEF VerInv

\* A crash leaves nothing in flight, and what was written stays written.
LEMMA VerCrash == TypeOK /\ VerInv /\ Crash => VerInv'
<1> SUFFICES ASSUME TypeOK, VerInv, Crash PROVE VerInv'
  OBVIOUS
<1>1. /\ storing' = None /\ outq' = <<>> /\ edits' = [q \in Qsos |-> NoEdits]
      /\ unstored' = IF storing = None THEN unstored ELSE unstored \cup {storing.qso}
      /\ UNCHANGED <<row, made, written, raced>>
  BY DEF Crash
<1>2. Posted' \subseteq Posted /\ unstored \subseteq unstored'
  BY <1>1 DEF Posted, Queued
<1>3. \A q \in Qsos : edits'[q].count = 0
  BY <1>1 DEF NoEdits
<1>4. StoringVer' /\ NoneUnlogged' /\ FlightVer'
  BY <1>1, <1>3 DEF StoringVer, NoneUnlogged, FlightVer
<1>5. MadeLogged'
  BY <1>1 DEF VerInv, MadeLogged, Logged
<1>6. FirstVer' /\ CleanVer'
  BY <1>1, <1>2 DEF VerInv, FirstVer, CleanVer, Logged
<1> QED
  BY <1>4, <1>5, <1>6 DEF VerInv

\* Every step keeps VerInv.
LEMMA VerStep == TypeOK /\ MadeInv /\ DialogInv /\ LedgerExact /\ VerInv /\ [Next]_vars => VerInv'
<1> SUFFICES ASSUME TypeOK, MadeInv, DialogInv, LedgerExact, VerInv, [Next]_vars PROVE VerInv'
  OBVIOUS
<1>1. CASE UNCHANGED vars
  BY <1>1, VerQuiet DEF vars
<1>2. CASE OpenEditDialog \/ CancelEditDialog
  BY <1>2, VerQuiet DEF OpenEditDialog, CancelEditDialog, delivery, bounds, history
<1>3. CASE DecideOnConnect \/ FetchLog \/ FetchFails \/ ServerReads
  BY <1>3, VerQuiet DEF DecideOnConnect, FetchLog, FetchFails, ServerReads, delivery, bounds, history
<1>4. CASE LinkUp \/ LinkDrops
  BY <1>4, VerQuiet DEF LinkUp, LinkDrops, delivery, bounds
<1>5. CASE Operator
  BY <1>2, <1>5, VerLogContact, VerDelete, VerSave DEF Operator
<1>6. CASE MainThread
  BY <1>3, <1>6, VerStore, VerSettle, VerHello, VerAnswer DEF MainThread
<1>7. CASE Environment
  BY <1>3, <1>4, <1>7, VerCrash DEF Environment
<1> QED
  BY <1>1, <1>5, <1>6, <1>7, VerWriter DEF Next

---------------------------------------------------------------------------
\* The invariant of the flags.
FlagsInv == IInv /\ WholeInv /\ VerInv

\* The three invariants together are inductive.
LEMMA FlagsInvStep == FlagsInv /\ [Next]_vars => FlagsInv'
BY IInvStep, WholeStep, VerStep DEF FlagsInv, IInv

\* They imply what the flags promise.
LEMMA FlagsFollow == FlagsInv => FlagsTellTheTruth
<1> SUFFICES ASSUME FlagsInv PROVE FlagsTellTheTruth
  OBVIOUS
<1>1. SentMeansWritten
  BY DEF FlagsInv, WholeInv, RowsWhole, Wholes, SentMeansWritten
<1>2. CleanMeansWritten
  <2> SUFFICES ASSUME NEW q \in Qsos \ (raced \cup unstored), Logged(q), ~Owing(q)
               PROVE  \E p \in written : p.qso = q /\ p.ver = row[q].ver
    BY DEF CleanMeansWritten
  <2>1. row[q].sent /\ ~row[q].dirty
    BY DEF Owing
  <2>2. CASE Packet("edit", q, row[q].ver) \in written
    BY <2>2 DEF Packet
  <2>3. CASE row[q].ver = 1
    <3>1. PICK p \in written : p.kind = "qso" /\ p.qso = q
      BY <1>1, <2>1 DEF SentMeansWritten
    <3>2. p.ver = 1
      BY <2>3, <3>1 DEF FlagsInv, VerInv, FirstVer, Posted
    <3> QED
      BY <2>3, <3>1, <3>2
  <2> QED
    BY <2>1, <2>2, <2>3 DEF FlagsInv, VerInv, CleanVer
<1> QED
  BY <1>1, <1>2 DEF FlagsTellTheTruth

\* FlagsTellTheTruth: sent_to_server says the whole QSO went to the socket, and a row that owes
\* nothing had the very version it holds written, over links lost, rows refused and restarts
\* (TNetDelivery.Settle, MarkServerProgress).
THEOREM FlagsCorrect == Spec => []FlagsTellTheTruth
<1>1. Init => FlagsInv
  BY TypeInit, WholeInit, VerInit DEF FlagsInv
<1> QED
  BY <1>1, FlagsInvStep, FlagsFollow, PTL DEF Spec

------------------------------------------------------------------------------
\* The server

\* The QSOs whose log kept every version.
Kept == Qsos \ unstored

\* The server holds a QSO at most once, ...
HoldsOne == \A q \in Qsos : server[q].copies <= 1 /\ (server[q].copies = 0 => server[q].ver = 0)
\* ... no newer than the log has it, ...
ServerBelow == \A q \in Kept : server[q].ver <= CurVer[q]
\* ... what is queued is between the two, ...
QueueBetween == \A i \in DOMAIN outq : outq[i].qso \in Kept =>
    server[outq[i].qso].ver <= outq[i].ver /\ outq[i].ver <= CurVer[outq[i].qso]
\* ... what is on the wire too, ...
WireBetween == \A i \in DOMAIN wire : wire[i].qso \in Kept =>
    server[wire[i].qso].ver <= wire[i].ver /\ wire[i].ver <= CurVer[wire[i].qso]
\* ... the queue is in the order of the versions, ...
QueueSorted == \A i, j \in DOMAIN outq :
    i < j /\ outq[i].qso = outq[j].qso /\ outq[i].qso \in Kept => outq[i].ver <= outq[j].ver
\* ... the wire too, ...
WireSorted == \A i, j \in DOMAIN wire :
    i < j /\ wire[i].qso = wire[j].qso /\ wire[i].qso \in Kept => wire[i].ver <= wire[j].ver
\* ... and the wire goes before the queue.
WireFirst == \A i \in DOMAIN wire, j \in DOMAIN outq :
    wire[i].qso = outq[j].qso /\ wire[i].qso \in Kept => wire[i].ver <= outq[j].ver

\* The versions are in order from the server over the wire and the queue to the log.
OrderInv == /\ HoldsOne /\ ServerBelow /\ QueueBetween /\ WireBetween
            /\ QueueSorted /\ WireSorted /\ WireFirst

\* At the start the server and the queue are empty.
LEMMA OrderInit == Init => OrderInv
BY DEF Init, OrderInv, HoldsOne, ServerBelow, QueueBetween, WireBetween, QueueSorted, WireSorted, WireFirst,
   CurVer, Kept, NotLogged

\* The version the log has, or is about to have, is a number.
LEMMA TypeCurVer == TypeOK => \A q \in Qsos : CurVer[q] \in Nat
<1> SUFFICES ASSUME TypeOK PROVE \A q \in Qsos : CurVer[q] \in Nat
  OBVIOUS
<1>1. storing # None => storing.row \in Rows
  BY DEF TypeOK
<1>2. \A r \in Rows : r.ver \in Nat
  BY DEF Rows, Versions
<1>3. \A q \in Qsos : row[q] \in Rows
  BY DEF TypeOK
<1> QED
  BY <1>1, <1>2, <1>3 DEF CurVer

\* The versions compared are numbers.
LEMMA TypeVers ==
    ASSUME TypeOK
    PROVE  /\ \A q \in Qsos : CurVer[q] \in Nat /\ server[q].ver \in Nat /\ server[q].copies \in Nat
           /\ \A i \in DOMAIN outq : outq[i] \in Packets /\ outq[i].qso \in Qsos /\ outq[i].ver \in Nat
           /\ \A i \in DOMAIN wire : wire[i] \in Packets /\ wire[i].qso \in Qsos /\ wire[i].ver \in Nat
<1>1. /\ \A i \in DOMAIN outq : outq[i] \in Packets
      /\ \A i \in DOMAIN wire : wire[i] \in Packets
  BY DEF TypeOK
<1>2. \A p \in Packets : p.qso \in Qsos /\ p.ver \in Nat
  BY TypeSteps DEF Versions
<1>3. \A q \in Qsos : server[q].ver \in Nat /\ server[q].copies \in Nat
  BY DEF TypeOK, Versions
<1>4. \A q \in Qsos : CurVer[q] \in Nat
  BY TypeCurVer
<1> QED
  BY <1>1, <1>2, <1>3, <1>4

\* Packets of the versions the log has now are posted after those queued.
LEMMA OrderPosts ==
    ASSUME TypeOK, TypeOK', OrderInv, NEW ps \in Seq(Packets), outq' = outq \/ outq' = outq \o ps,
           wire' = wire, server' = server, unstored \subseteq unstored',
           \A q \in Kept' : CurVer[q] <= CurVer'[q],
           \A i \in DOMAIN ps : ps[i].qso \in Kept' => ps[i].ver = CurVer'[ps[i].qso]
    PROVE  OrderInv'
<1>1. Kept' \subseteq Kept /\ Kept \subseteq Qsos
  BY DEF Kept
<1>2. \A q \in Qsos : CurVer[q] \in Nat /\ server[q].ver \in Nat /\ CurVer'[q] \in Nat
  <2>1. \A q \in Qsos : CurVer[q] \in Nat /\ server[q].ver \in Nat
    BY TypeVers
  <2>2. TypeOK' => (\A q \in Qsos : CurVer[q] \in Nat)'
    BY TypeCurVer, PTL
  <2> QED
    BY <2>1, <2>2
<1>3. /\ \A i \in DOMAIN outq : outq[i].qso \in Qsos /\ outq[i].ver \in Nat
      /\ \A i \in DOMAIN wire : wire[i].qso \in Qsos /\ wire[i].ver \in Nat
      /\ \A i \in DOMAIN ps : ps[i].qso \in Qsos /\ ps[i].ver \in Nat
  <2>1. \A i \in DOMAIN ps : ps[i] \in Packets
    OBVIOUS
  <2> QED
    BY <2>1, TypeVers, TypeSteps DEF Versions
<1>4. HoldsOne' /\ WireSorted'
  BY <1>1 DEF OrderInv, HoldsOne, WireSorted
<1>5. ServerBelow'
  BY <1>1, <1>2 DEF OrderInv, ServerBelow
<1>6. WireBetween'
  BY <1>1, <1>2, <1>3 DEF OrderInv, WireBetween
<1> DEFINE s == outq \o ps
           old(i) == i \in DOMAIN outq /\ s[i] = outq[i]
           new(i) == i \notin DOMAIN outq /\ i - Len(outq) \in DOMAIN ps /\ s[i] = ps[i - Len(outq)]
<1>7. /\ outq \in Seq(Packets) /\ Len(outq) \in Nat /\ Len(ps) \in Nat
      /\ DOMAIN outq = 1 .. Len(outq) /\ DOMAIN ps = 1 .. Len(ps)
  BY SMTT(40) DEF TypeOK
<1>8. /\ DOMAIN s = 1 .. (Len(outq) + Len(ps))
      /\ \A i \in 1 .. Len(outq) : s[i] = outq[i]
      /\ \A i \in (Len(outq) + 1) .. (Len(outq) + Len(ps)) : s[i] = ps[i - Len(outq)]
  BY <1>7, ConcatProperties, SMT
<1>9. \A i \in DOMAIN s : (i \in DOMAIN outq /\ s[i] = outq[i])
        \/ (i \notin DOMAIN outq /\ i - Len(outq) \in DOMAIN ps /\ s[i] = ps[i - Len(outq)])
  BY <1>7, <1>8
<1>10. \A i, j \in DOMAIN s : i < j /\ j \in DOMAIN outq => i \in DOMAIN outq
  BY <1>7, <1>8
<1> HIDE DEF s
\* What is posted now is of the newest version, what was queued is not above it.
<1>11. \A i \in DOMAIN s : s[i].qso \in Kept' =>
         /\ s[i].ver \in Nat /\ s[i].qso \in Qsos
         /\ s[i].ver <= CurVer'[s[i].qso]
         /\ i \notin DOMAIN outq => s[i].ver = CurVer'[s[i].qso]
         /\ server[s[i].qso].ver <= s[i].ver
  <2> SUFFICES ASSUME NEW i \in DOMAIN s, s[i].qso \in Kept'
               PROVE  /\ s[i].ver \in Nat /\ s[i].qso \in Qsos
                      /\ s[i].ver <= CurVer'[s[i].qso]
                      /\ i \notin DOMAIN outq => s[i].ver = CurVer'[s[i].qso]
                      /\ server[s[i].qso].ver <= s[i].ver
    OBVIOUS
  <2>1. CASE i \in DOMAIN outq
    <3>1. s[i] = outq[i]
      BY <1>9, <2>1
    <3>2. /\ server[outq[i].qso].ver <= outq[i].ver /\ outq[i].ver <= CurVer[outq[i].qso]
          /\ CurVer[outq[i].qso] <= CurVer'[outq[i].qso]
          /\ outq[i].ver \in Nat /\ outq[i].qso \in Qsos
      BY <1>1, <1>3, <2>1, <3>1 DEF OrderInv, QueueBetween
    <3> QED
      BY <1>2, <2>1, <3>1, <3>2
  <2>2. CASE i \notin DOMAIN outq
    <3>1. i - Len(outq) \in DOMAIN ps /\ s[i] = ps[i - Len(outq)]
      BY <1>9, <2>2
    <3>2. s[i].ver = CurVer'[s[i].qso] /\ s[i].ver \in Nat /\ s[i].qso \in Qsos
      BY <1>3, <3>1
    <3>3. server[s[i].qso].ver <= CurVer[s[i].qso] /\ CurVer[s[i].qso] <= CurVer'[s[i].qso]
      BY <1>1, <3>2 DEF OrderInv, ServerBelow
    <3> QED
      BY <1>2, <3>2, <3>3
  <2> QED
    BY <2>1, <2>2
<1>12. CASE outq' = outq
  BY <1>1, <1>2, <1>3, <1>4, <1>5, <1>6, <1>12 DEF OrderInv, QueueBetween, QueueSorted, WireFirst
<1>13. CASE outq' = s
  <2>1. QueueBetween'
    BY <1>11, <1>13 DEF QueueBetween
  <2>2. QueueSorted'
    <3> SUFFICES ASSUME NEW i \in DOMAIN s, NEW j \in DOMAIN s, i < j, s[i].qso = s[j].qso, s[i].qso \in Kept'
                 PROVE  s[i].ver <= s[j].ver
      BY <1>13 DEF QueueSorted
    <3>1. CASE j \in DOMAIN outq
      <4>1. i \in DOMAIN outq
        BY <1>10, <3>1
      <4>2. s[i] = outq[i] /\ s[j] = outq[j]
        BY <1>9, <3>1, <4>1
      <4> QED
        BY <1>1, <3>1, <4>1, <4>2 DEF OrderInv, QueueSorted
    <3>2. CASE j \notin DOMAIN outq
      BY <1>11, <3>2
    <3> QED
      BY <3>1, <3>2
  <2>3. WireFirst'
    <3> SUFFICES ASSUME NEW i \in DOMAIN wire, NEW j \in DOMAIN s, wire[i].qso = s[j].qso, wire[i].qso \in Kept'
                 PROVE  wire[i].ver <= s[j].ver
      BY <1>13 DEF WireFirst
    <3>1. CASE j \in DOMAIN outq
      <4>1. s[j] = outq[j]
        BY <1>9, <3>1
      <4> QED
        BY <1>1, <3>1, <4>1 DEF OrderInv, WireFirst
    <3>2. CASE j \notin DOMAIN outq
      <4>1. s[j].ver = CurVer'[s[j].qso]
        BY <1>11, <3>2
      <4>2. wire[i].ver <= CurVer[wire[i].qso] /\ CurVer[wire[i].qso] <= CurVer'[wire[i].qso]
        BY <1>1 DEF OrderInv, WireBetween
      <4> QED
        BY <1>2, <1>3, <4>1, <4>2
    <3> QED
      BY <3>1, <3>2
  <2> QED
    BY <1>4, <1>5, <1>6, <2>1, <2>2, <2>3 DEF OrderInv
<1> QED
  BY <1>12, <1>13 DEF s

\* One packet of the version the log has now is posted, or none is.
LEMMA OrderPost ==
    ASSUME TypeOK, TypeOK', OrderInv, NEW p \in Packets, outq' = outq \/ outq' = Append(outq, p),
           wire' = wire, server' = server, unstored \subseteq unstored',
           \A q \in Kept' : CurVer[q] <= CurVer'[q],
           p.qso \in Kept' => p.ver = CurVer'[p.qso]
    PROVE  OrderInv'
<1> DEFINE ps == <<p>>
<1>1. ps \in Seq(Packets) /\ \A i \in DOMAIN ps : ps[i] = p
  OBVIOUS
<1>2. outq' = outq \/ outq' = outq \o ps
  BY AppendIsConcat, SMTT(40) DEF TypeOK
<1> HIDE DEF ps
<1>3. \A i \in DOMAIN ps : ps[i].qso \in Kept' => ps[i].ver = CurVer'[ps[i].qso]
  BY <1>1
<1> QED
  BY <1>1, <1>2, <1>3, OrderPosts

\* Nothing is posted.
LEMMA OrderQuiet ==
    ASSUME TypeOK, TypeOK', OrderInv, outq' = outq, wire' = wire, server' = server,
           unstored \subseteq unstored', \A q \in Kept' : CurVer[q] <= CurVer'[q]
    PROVE  OrderInv'
<1> DEFINE ps == <<>>
<1>1. ps \in Seq(Packets) /\ DOMAIN ps = {}
  OBVIOUS
<1> HIDE DEF ps
<1> QED
  BY <1>1, OrderPosts


\* LogContact posts the first version of a QSO the server has nothing of.
LEMMA OrderLogContact == TypeOK /\ TypeOK' /\ MadeInv /\ OrderInv /\ LogContact => OrderInv'
<1> SUFFICES ASSUME TypeOK, TypeOK', MadeInv, OrderInv, LogContact PROVE OrderInv'
  OBVIOUS
<1>1. PICK n \in Qsos :
        /\ storing = None /\ n = made + 1
        /\ storing' = [qso |-> n, row |-> [ver |-> 1, sent |-> FALSE, dirty |-> FALSE]]
        /\ UNCHANGED <<row, wire, server, unstored>>
        /\ outq' = outq \/ outq' = Append(outq, Packet("qso", n, 1))
  <2>1. made + 1 \in Qsos
    BY DEF LogContact, TypeOK, Qsos
  <2>2. /\ storing = None
        /\ storing' = [qso |-> made + 1, row |-> [ver |-> 1, sent |-> FALSE, dirty |-> FALSE]]
        /\ UNCHANGED <<row, wire, server, unstored>>
        /\ outq' = outq \/ outq' = Append(outq, Packet("qso", made + 1, 1))
    BY DEF LogContact, PostQso, UserFree, MainFree, history
  <2> QED
    BY <2>1, <2>2
<1> DEFINE p == Packet("qso", n, 1)
<1>2. p \in Packets /\ p.qso = n /\ p.ver = 1
  BY TypeSteps DEF Packet, Versions
<1> HIDE DEF p
<1>3. storing' # None /\ storing'.qso = n /\ storing'.row.ver = 1
  <2>1. [ver |-> 1, sent |-> FALSE, dirty |-> FALSE] \in Rows
    BY DEF Rows, Versions
  <2>2. storing' \in [qso : Qsos, row : Rows]
    BY <1>1, <2>1
  <2>3. storing' # None
    BY <2>2
  <2>4. storing'.qso = n /\ storing'.row.ver = 1
    BY <1>1
  <2> QED
    BY <2>3, <2>4
<1>4. row[n].ver = 0
  <2>1. row[n].ver \in Nat /\ made \in Nat
    <3>1. row[n].ver \in Versions /\ made \in 0 .. NumQsos
      BY TypeSteps DEF TypeOK
    <3> QED
      BY <3>1 DEF Versions
  <2>2. ~Logged(n)
    BY <1>1, <2>1 DEF MadeInv
  <2> QED
    BY <2>1, <2>2 DEF Logged
<1>5. /\ \A q \in Qsos : q # n => CurVer'[q] = CurVer[q]
      /\ CurVer[n] = 0 /\ CurVer'[n] = 1
  BY <1>1, <1>3, <1>4 DEF CurVer
<1>6. \A q \in Kept' : CurVer[q] <= CurVer'[q]
  BY <1>5, TypeVers DEF Kept
<1>7. outq' = outq \/ outq' = Append(outq, p)
  BY <1>1 DEF p
<1> QED
  BY <1>1, <1>2, <1>5, <1>6, <1>7, OrderPost

\* DeleteLastContact posts a version above all that are queued.
LEMMA OrderDelete == TypeOK /\ TypeOK' /\ OrderInv /\ (\E b \in BOOLEAN : DeleteLastContact(b)) => OrderInv'
<1> SUFFICES ASSUME TypeOK, TypeOK', OrderInv, NEW b \in BOOLEAN, DeleteLastContact(b) PROVE OrderInv'
  OBVIOUS
<1>1. PICK n \in Qsos :
        /\ EditOf(n)
        /\ row' = IF b THEN [row EXCEPT ![n].ver = @ + 1, ![n].dirty = TRUE] ELSE row
        /\ unstored' = IF b THEN unstored ELSE unstored \cup {n}
        /\ PostEdit(n, row[n].ver + 1)
  BY DEF DeleteLastContact
<1>2. storing = None /\ UNCHANGED <<storing, wire, server>>
  BY DEF DeleteLastContact, UserFree, MainFree
<1> DEFINE v == row[n].ver + 1
           p == Packet("edit", n, v)
<1>3. v \in Versions /\ row[n].ver \in Nat
  BY <1>1, TypeSteps DEF EditOf, Versions
<1>4. unstored \subseteq unstored' /\ (b \/ n \notin Kept')
  BY <1>1 DEF Kept
<1>5. \A r \in Qsos : r # n => row'[r] = row[r]
  BY <1>1 DEF TypeOK
<1>6. row'[n].ver = IF b THEN v ELSE row[n].ver
  <2>1. row[n] \in Rows /\ row \in [Qsos -> Rows]
    BY TypeSteps DEF TypeOK
  <2>2. b => row'[n] = [[row[n] EXCEPT !.ver = @ + 1] EXCEPT !.dirty = TRUE]
    BY <1>1, <2>1
  <2> QED
    BY <1>1, <2>1, <2>2 DEF Rows
<1>7. outq' = outq \/ outq' = Append(outq, p)
  BY <1>1 DEF PostEdit
<1>8. /\ \A q \in Qsos : CurVer[q] = row[q].ver /\ CurVer'[q] = row'[q].ver
  BY <1>2 DEF CurVer
<1>9. \A q \in Kept' : CurVer[q] <= CurVer'[q]
  <2> SUFFICES ASSUME NEW q \in Kept' PROVE CurVer[q] <= CurVer'[q]
    OBVIOUS
  <2>1. q \in Qsos /\ CurVer[q] \in Nat
    BY TypeVers DEF Kept
  <2>2. CASE q = n
    BY <1>3, <1>6, <1>8, <2>2
  <2>3. CASE q # n
    BY <1>5, <1>8, <2>1, <2>3
  <2> QED
    BY <2>2, <2>3
<1>10. p \in Packets /\ p.qso = n /\ p.ver = v
  <2> HIDE DEF v
  <2> QED
    BY <1>3, TypeSteps DEF Packet
<1>11. p.qso \in Kept' => p.ver = CurVer'[p.qso]
  <2> HIDE DEF v, p
  <2> QED
    BY <1>4, <1>6, <1>8, <1>10
<1> HIDE DEF v, p
<1> QED
  BY <1>2, <1>4, <1>7, <1>9, <1>10, <1>11, OrderPost

\* SaveEditDialog posts a version above all that are queued.
LEMMA OrderSave == TypeOK /\ TypeOK' /\ DialogInv /\ OrderInv /\ SaveEditDialog => OrderInv'
<1> SUFFICES ASSUME TypeOK, TypeOK', DialogInv, OrderInv, SaveEditDialog PROVE OrderInv'
  OBVIOUS
<1>1. /\ storing = None /\ dialog # None /\ storing' # None
      /\ storing'.qso = dialog.qso /\ storing'.row.ver = dialog.row.ver + 1
      /\ PostEdit(storing'.qso, storing'.row.ver)
      /\ UNCHANGED <<row, wire, server, unstored>>
  <2> DEFINE rec == [dialog.row EXCEPT !.ver = @ + 1, !.dirty = TRUE]
  <2>1. /\ storing = None /\ dialog # None /\ storing' = [qso |-> dialog.qso, row |-> rec]
        /\ PostEdit(dialog.qso, rec.ver)
        /\ UNCHANGED <<row, wire, server, unstored>>
    BY DEF SaveEditDialog, MainFree, bounds
  <2>2. dialog.row \in Rows
    BY <2>1 DEF TypeOK
  <2>3. rec.ver = dialog.row.ver + 1
    BY <2>2 DEF Rows
  <2> HIDE DEF rec
  <2>4. storing'.qso = dialog.qso /\ storing'.row = rec
    BY <2>1
  <2>5. storing' # None
    <3>1. rec \in Rows /\ dialog.qso \in Qsos
      <4>1. EditOf(dialog.qso)
        BY DEF SaveEditDialog
      <4>2. dialog.qso \in Qsos
        BY <2>1 DEF TypeOK
      <4>3. dialog.row.ver + 1 \in Versions
        BY <2>1, <4>1, <4>2, TypeSteps DEF EditOf, Versions, DialogInv
      <4> QED
        BY <2>2, <4>2, <4>3 DEF rec, Rows
    <3>2. storing' \in [qso : Qsos, row : Rows]
      BY <2>1, <3>1
    <3> QED
      BY <3>2
  <2> QED
    BY <2>1, <2>3, <2>4, <2>5
<1>2. PICK n \in Qsos, v \in Versions : storing'.qso = n /\ storing'.row.ver = v
  <2>1. storing' \in [qso : Qsos, row : Rows]
    BY <1>1 DEF TypeOK
  <2> QED
    BY <2>1 DEF Rows
<1>3. v = row[n].ver + 1 /\ row[n].ver \in Nat
  BY <1>1, <1>2, TypeSteps DEF DialogInv, Versions
<1> DEFINE p == Packet("edit", n, v)
<1>4. outq' = outq \/ outq' = Append(outq, p)
  BY <1>1, <1>2 DEF PostEdit
<1>5. p \in Packets /\ p.qso = n /\ p.ver = v
  BY TypeSteps DEF Packet
<1> HIDE DEF p
<1>6. /\ \A q \in Qsos : q # n => CurVer'[q] = CurVer[q]
      /\ CurVer[n] = row[n].ver /\ CurVer'[n] = v
  BY <1>1, <1>2 DEF CurVer
<1>7. \A q \in Kept' : CurVer[q] <= CurVer'[q]
  BY <1>3, <1>6, TypeVers DEF Kept
<1> QED
  BY <1>1, <1>4, <1>5, <1>6, <1>7, OrderPost

\* StoreRow leaves the version about to be the log's as it is, or excuses the QSO.
LEMMA OrderStore == TypeOK /\ TypeOK' /\ OrderInv /\ (\E b \in BOOLEAN : StoreRow(b)) => OrderInv'
<1> SUFFICES ASSUME TypeOK, TypeOK', OrderInv, NEW b \in BOOLEAN, StoreRow(b) PROVE OrderInv'
  OBVIOUS
<1>1. storing # None /\ storing \in [qso : Qsos, row : Rows]
  BY DEF StoreRow, TypeOK
<1>2. PICK n \in Qsos, r \in Rows : storing.qso = n /\ storing.row = r
  BY <1>1
<1>3. /\ storing' = None
      /\ row' = IF b THEN [row EXCEPT ![n] = r] ELSE row
      /\ unstored' = IF b THEN unstored ELSE unstored \cup {n}
      /\ UNCHANGED <<outq, wire, server>>
  BY <1>2 DEF StoreRow
<1>4. \A q \in Kept' : CurVer'[q] = CurVer[q]
  BY <1>1, <1>2, <1>3 DEF CurVer, Kept, TypeOK
<1>5. \A q \in Kept' : CurVer[q] <= CurVer'[q]
  BY <1>4, TypeVers DEF Kept
<1> QED
  BY <1>3, <1>5, OrderQuiet

\* Settle changes no version.
LEMMA OrderSettle == TypeOK /\ TypeOK' /\ OrderInv /\ (\E b \in BOOLEAN : Settle(b)) => OrderInv'
<1> SUFFICES ASSUME TypeOK, TypeOK', OrderInv, NEW b \in BOOLEAN, Settle(b) PROVE OrderInv'
  OBVIOUS
<1>1. \A q \in Qsos : CurVer'[q] = CurVer[q]
  BY MarkedKeeps DEF Settle, CurVer
<1>2. \A q \in Kept' : CurVer[q] <= CurVer'[q]
  BY <1>1, TypeVers DEF Kept
<1> QED
  BY <1>2, OrderQuiet DEF Settle, history

\* The resend posts versions of the log, which no queued one exceeds.
LEMMA OrderHello == TypeOK /\ TypeOK' /\ OrderInv /\ (\E b \in BOOLEAN : ServerHello(b)) => OrderInv'
<1> SUFFICES ASSUME TypeOK, TypeOK', OrderInv, NEW b \in BOOLEAN, ServerHello(b) PROVE OrderInv'
  OBVIOUS
<1>1. storing = None /\ UNCHANGED <<row, storing, wire, server, unstored>>
  BY DEF ServerHello, MainFree
<1> DEFINE ps == FlattenSeq(OwedByQso)
<1>2. ps \in Seq(Packets)
  BY TypeOwed, PerQso, FlattenSeqOf
<1>3. outq' = outq \/ outq' = outq \o ps
  BY DEF ServerHello, ResendOfflineWork, OwedByQso
<1>4. \A i \in DOMAIN ps : ps[i].qso \in Qsos /\ ps[i].ver = row[ps[i].qso].ver
  BY ResendPosts
<1>5. \A q \in Qsos : CurVer'[q] = row[q].ver /\ CurVer[q] = row[q].ver
  BY <1>1 DEF CurVer
<1>6. \A q \in Kept' : CurVer[q] <= CurVer'[q]
  BY <1>5, TypeVers DEF Kept
<1> HIDE DEF ps
<1> QED
  BY <1>1, <1>2, <1>3, <1>4, <1>5, <1>6, OrderPosts

\* The restock pushes versions of the log, and pulls only rows the log lacks.
LEMMA OrderAnswer ==
    TypeOK /\ TypeOK' /\ MadeInv /\ VerInv /\ OrderInv /\ (\E b \in BOOLEAN : AnswerSync(b)) => OrderInv'
<1> SUFFICES ASSUME TypeOK, TypeOK', MadeInv, VerInv, OrderInv, NEW b \in BOOLEAN, AnswerSync(b) PROVE OrderInv'
  OBVIOUS
<1>1. storing = None /\ UNCHANGED <<storing, wire, server, unstored>>
  BY DEF AnswerSync, MainFree
<1> DEFINE ps == FlattenSeq(OfflineByQso)
<1>2. ps \in Seq(Packets)
  BY TypeOffline, PerQso, FlattenSeqOf
<1>3. outq' = outq \/ outq' = outq \o ps
  BY DEF AnswerSync, OfflineByQso
<1>4. \A i \in DOMAIN ps : ps[i].qso \in ToPush /\ ps[i].ver = row[ps[i].qso].ver
  BY RestockPosts
<1>5. \A q \in Kept' : row'[q] = row[q]
  <2> SUFFICES ASSUME NEW q \in Kept, row'[q] # row[q] PROVE FALSE
    BY <1>1 DEF Kept
  <2>1. q \in ToPull
    BY DEF AnswerSync, TypeOK, Kept
  <2>2. ~Logged(q) /\ q <= made
    BY <2>1, LoggedIsMade DEF ToPull
  <2> QED
    BY <1>1, <2>2 DEF VerInv, MadeLogged, Kept
<1>6. \A q \in Kept' : CurVer'[q] = row[q].ver /\ CurVer[q] = row[q].ver
  BY <1>1, <1>5 DEF CurVer, Kept
<1>7. \A q \in Kept' : CurVer[q] <= CurVer'[q]
  BY <1>6, TypeVers DEF Kept
<1> HIDE DEF ps
<1> QED
  BY <1>1, <1>2, <1>3, <1>4, <1>6, <1>7, OrderPosts


\* The writer moves the queue's first packet behind those on the wire.
LEMMA OrderWriter == TypeOK /\ OrderInv /\ Writer => OrderInv'
<1> SUFFICES ASSUME TypeOK, OrderInv, NEW ok \in BOOLEAN, WriterFinishes(ok) PROVE OrderInv'
  BY DEF Writer
<1> DEFINE p == Head(outq)
<1>1. /\ outq # <<>> /\ outq' = Tail(outq)
      /\ wire' = IF ok THEN Append(wire, p) ELSE wire
      /\ UNCHANGED <<row, storing, server, unstored>>
  BY DEF WriterFinishes
<1>2. outq \in Seq(Packets) /\ wire \in Seq(Packets) /\ Len(outq) \in Nat /\ Len(wire) \in Nat
      /\ DOMAIN outq = 1 .. Len(outq) /\ DOMAIN wire = 1 .. Len(wire)
  BY DEF TypeOK
<1>3. 1 \in DOMAIN outq /\ p = outq[1] /\ p \in Packets
  BY <1>1, <1>2, HeadPlaces
<1>4. \A i \in DOMAIN outq' : i + 1 \in DOMAIN outq /\ outq'[i] = outq[i + 1] /\ i \in Nat /\ 1 < i + 1
  <2>1. \A i \in DOMAIN outq' : i + 1 \in DOMAIN outq /\ outq'[i] = outq[i + 1]
    BY <1>1, <1>2, TailPlaces
  <2>2. \A i \in DOMAIN outq' : i \in Nat /\ 1 < i + 1
    BY <1>1, <1>2
  <2> QED
    BY <2>1, <2>2
<1> HIDE DEF p
<1>5. \A i \in DOMAIN wire' : (i \in DOMAIN wire /\ wire'[i] = wire[i]) \/ (i \notin DOMAIN wire /\ wire'[i] = p /\ ok)
  BY <1>1, <1>2, <1>3
<1>6. \A i, j \in DOMAIN wire' : i < j /\ j \in DOMAIN wire => i \in DOMAIN wire
  BY <1>1, <1>2, <1>3
<1>7. \A i, j \in DOMAIN wire' : i < j /\ i \notin DOMAIN wire => j \notin DOMAIN wire /\ i = j
  BY <1>1, <1>2, <1>3
<1>8. Kept' = Kept /\ CurVer' = CurVer
  BY <1>1 DEF Kept, CurVer
<1>9. HoldsOne' /\ ServerBelow'
  BY <1>1, <1>8 DEF OrderInv, HoldsOne, ServerBelow
<1>10. QueueBetween'
  BY <1>1, <1>4, <1>8 DEF OrderInv, QueueBetween
<1>11. WireBetween'
  <2>1. p.qso \in Kept => server[p.qso].ver <= p.ver /\ p.ver <= CurVer[p.qso]
    BY <1>3 DEF OrderInv, QueueBetween
  <2> QED
    BY <1>1, <1>5, <1>8, <2>1 DEF OrderInv, WireBetween
<1>12. QueueSorted'
  <2> SUFFICES ASSUME NEW i \in DOMAIN outq', NEW j \in DOMAIN outq', i < j,
                      outq'[i].qso = outq'[j].qso, outq'[i].qso \in Kept
               PROVE  outq'[i].ver <= outq'[j].ver
    BY <1>8 DEF QueueSorted
  <2>1. /\ i + 1 \in DOMAIN outq /\ j + 1 \in DOMAIN outq /\ i + 1 < j + 1
        /\ outq'[i] = outq[i + 1] /\ outq'[j] = outq[j + 1]
    BY <1>4
  <2> HIDE <1>1
  <2> QED
    BY <2>1 DEF OrderInv, QueueSorted
<1>13. WireSorted'
  <2> SUFFICES ASSUME NEW i \in DOMAIN wire', NEW j \in DOMAIN wire', i < j,
                      wire'[i].qso = wire'[j].qso, wire'[i].qso \in Kept
               PROVE  wire'[i].ver <= wire'[j].ver
    BY <1>8 DEF WireSorted
  <2>1. CASE j \in DOMAIN wire
    <3>1. i \in DOMAIN wire /\ wire'[i] = wire[i] /\ wire'[j] = wire[j]
      BY <1>5, <1>6, <2>1
    <3> QED
      BY <2>1, <3>1 DEF OrderInv, WireSorted
  <2>2. CASE j \notin DOMAIN wire
    <3>1. wire'[j] = outq[1] /\ 1 \in DOMAIN outq
      BY <1>3, <1>5, <2>2
    <3>2. i \in DOMAIN wire /\ wire'[i] = wire[i]
      <4>1. i \in DOMAIN wire
        <5>1. i \in Nat /\ j \in Nat
          BY <1>1, <1>2, <1>3
        <5> QED
          BY <1>7, <5>1
      <4> QED
        BY <1>5, <4>1
    <3> QED
      BY <3>1, <3>2 DEF OrderInv, WireFirst
  <2> QED
    BY <2>1, <2>2
<1>14. WireFirst'
  <2> SUFFICES ASSUME NEW i \in DOMAIN wire', NEW j \in DOMAIN outq',
                      wire'[i].qso = outq'[j].qso, wire'[i].qso \in Kept
               PROVE  wire'[i].ver <= outq'[j].ver
    BY <1>8 DEF WireFirst
  <2>1. j + 1 \in DOMAIN outq /\ outq'[j] = outq[j + 1] /\ 1 < j + 1
    BY <1>4
  <2>2. CASE i \in DOMAIN wire
    <3>1. wire'[i] = wire[i]
      BY <1>5, <2>2
    <3> QED
      BY <2>1, <2>2, <3>1 DEF OrderInv, WireFirst
  <2>3. CASE i \notin DOMAIN wire
    <3>1. wire'[i] = outq[1] /\ 1 \in DOMAIN outq
      BY <1>3, <1>5, <2>3
    <3> QED
      BY <2>1, <3>1 DEF OrderInv, QueueSorted
  <2> QED
    BY <2>2, <2>3
<1> QED
  BY <1>9, <1>10, <1>11, <1>12, <1>13, <1>14 DEF OrderInv

\* What the server does with a packet: it holds one record, and never an older version.
LEMMA ReadMovesForward ==
    ASSUME TypeOK, OrderInv, ServerReads, NEW q \in Qsos
    PROVE  /\ server'[q].copies <= 1 /\ (server'[q].copies = 0 => server'[q].ver = 0)
           /\ q \in Kept => server'[q].ver >= server[q].ver
           /\ server'[q].ver = server[q].ver \/ (q = Head(wire).qso /\ server'[q].ver = Head(wire).ver)
<1> DEFINE p == Head(wire)
<1>1. wire # <<>> /\ wire \in Seq(Packets) /\ server \in [Qsos -> [copies : Nat, ver : Versions]]
  BY DEF ServerReads, TypeOK
<1>2. 1 \in DOMAIN wire /\ p = wire[1] /\ p \in Packets
  BY <1>1, HeadPlaces
<1>3. /\ p.qso \in Qsos /\ p.ver \in Nat
      /\ p.qso \in Kept => server[p.qso].ver <= p.ver
  BY <1>2, TypeSteps DEF OrderInv, WireBetween, Versions
<1>4. /\ server[q].copies \in Nat /\ server[q].ver \in Nat /\ server[q].copies <= 1
      /\ server[q].copies = 0 => server[q].ver = 0
  BY TypeVers DEF OrderInv, HoldsOne
<1>5. \/ server' = server
      \/ server' = [server EXCEPT ![p.qso].ver = p.ver] /\ server[p.qso].copies > 0
      \/ server' = [server EXCEPT ![p.qso] = [copies |-> @.copies + 1, ver |-> p.ver]]
         /\ ~ (server[p.qso].copies > 0)
  BY DEF ServerReads, ServerHolds
<1> HIDE DEF p
<1>6. CASE q # p.qso
  <2>1. server'[q] = server[q]
    BY <1>1, <1>3, <1>5, <1>6
  <2> QED
    BY <1>4, <2>1
<1>7. CASE q = p.qso
  <2>1. CASE server' = server
    BY <1>4, <2>1
  <2>2. CASE server' = [server EXCEPT ![p.qso].ver = p.ver] /\ server[p.qso].copies > 0
    <3>1. server'[q].ver = p.ver /\ server'[q].copies = server[q].copies
      BY <1>1, <1>7, <2>2
    <3> QED
      BY <1>3, <1>4, <1>7, <2>2, <3>1 DEF p
  <2>3. CASE server' = [server EXCEPT ![p.qso] = [copies |-> @.copies + 1, ver |-> p.ver]]
             /\ ~ (server[p.qso].copies > 0)
    <3>1. server'[q].ver = p.ver /\ server'[q].copies = server[q].copies + 1 /\ server[q].copies = 0
      BY <1>1, <1>4, <1>7, <2>3
    <3> QED
      BY <1>3, <1>4, <1>7, <3>1 DEF p
  <2> QED
    BY <1>5, <2>1, <2>2, <2>3
<1> QED
  BY <1>6, <1>7

\* The server takes the wire's first packet, whose version is no later one's superior.
LEMMA OrderServerReads == TypeOK /\ OrderInv /\ ServerReads => OrderInv'
<1> SUFFICES ASSUME TypeOK, OrderInv, ServerReads PROVE OrderInv'
  OBVIOUS
<1> DEFINE p == Head(wire)
<1>1. wire # <<>> /\ wire' = Tail(wire) /\ UNCHANGED <<row, storing, outq, unstored>>
  BY DEF ServerReads, history
<1>2. wire \in Seq(Packets) /\ DOMAIN wire = 1 .. Len(wire) /\ Len(wire) \in Nat
  BY DEF TypeOK
<1>3. 1 \in DOMAIN wire /\ p = wire[1]
  BY <1>1, <1>2, HeadPlaces
<1>4. \A i \in DOMAIN wire' : i + 1 \in DOMAIN wire /\ wire'[i] = wire[i + 1] /\ i \in Nat /\ 1 < i + 1
  <2>1. \A i \in DOMAIN wire' : i + 1 \in DOMAIN wire /\ wire'[i] = wire[i + 1]
    BY <1>1, <1>2, TailPlaces
  <2>2. \A i \in DOMAIN wire' : i \in Nat /\ 1 < i + 1
    BY <1>1, <1>2
  <2> QED
    BY <2>1, <2>2
<1>5. Kept' = Kept /\ CurVer' = CurVer /\ Kept \subseteq Qsos
  BY <1>1 DEF Kept, CurVer
<1>6. \A q \in Qsos : /\ server'[q].copies <= 1 /\ (server'[q].copies = 0 => server'[q].ver = 0)
                      /\ server'[q].ver = server[q].ver \/ (q = p.qso /\ server'[q].ver = p.ver)
  BY ReadMovesForward
<1> HIDE DEF p
<1>7. HoldsOne'
  BY <1>6 DEF HoldsOne
<1>8. p.qso \in Kept => p.ver <= CurVer[p.qso]
  BY <1>3 DEF OrderInv, WireBetween
<1>9. ServerBelow'
  BY <1>5, <1>6, <1>8 DEF OrderInv, ServerBelow
<1>10. QueueBetween'
  <2> SUFFICES ASSUME NEW i \in DOMAIN outq, outq[i].qso \in Kept
               PROVE  server'[outq[i].qso].ver <= outq[i].ver /\ outq[i].ver <= CurVer[outq[i].qso]
    BY <1>1, <1>5 DEF QueueBetween
  <2>1. server[outq[i].qso].ver <= outq[i].ver /\ outq[i].ver <= CurVer[outq[i].qso]
    BY DEF OrderInv, QueueBetween
  <2>2. p.qso = outq[i].qso => p.ver <= outq[i].ver
    BY <1>3 DEF OrderInv, WireFirst
  <2> QED
    BY <1>5, <1>6, <2>1, <2>2
<1>11. WireBetween'
  <2> SUFFICES ASSUME NEW i \in DOMAIN wire', wire'[i].qso \in Kept
               PROVE  server'[wire'[i].qso].ver <= wire'[i].ver /\ wire'[i].ver <= CurVer[wire'[i].qso]
    BY <1>5 DEF WireBetween
  <2>1. wire'[i] = wire[i + 1] /\ i + 1 \in DOMAIN wire /\ 1 < i + 1
    BY <1>4
  <2>2. server[wire'[i].qso].ver <= wire'[i].ver /\ wire'[i].ver <= CurVer[wire'[i].qso]
    BY <2>1 DEF OrderInv, WireBetween
  <2>3. p.qso = wire'[i].qso => p.ver <= wire'[i].ver
    BY <1>3, <2>1 DEF OrderInv, WireSorted
  <2> QED
    BY <1>5, <1>6, <2>2, <2>3
<1>12. QueueSorted'
  BY <1>1, <1>5 DEF OrderInv, QueueSorted
<1>13. WireSorted'
  <2> SUFFICES ASSUME NEW i \in DOMAIN wire', NEW j \in DOMAIN wire', i < j,
                      wire'[i].qso = wire'[j].qso, wire'[i].qso \in Kept
               PROVE  wire'[i].ver <= wire'[j].ver
    BY <1>5 DEF WireSorted
  <2>1. /\ i + 1 \in DOMAIN wire /\ j + 1 \in DOMAIN wire /\ i + 1 < j + 1
        /\ wire'[i] = wire[i + 1] /\ wire'[j] = wire[j + 1]
    BY <1>4
  <2> QED
    BY <2>1 DEF OrderInv, WireSorted
<1>14. WireFirst'
  <2> SUFFICES ASSUME NEW i \in DOMAIN wire', NEW j \in DOMAIN outq, wire'[i].qso = outq[j].qso, wire'[i].qso \in Kept
               PROVE  wire'[i].ver <= outq[j].ver
    BY <1>1, <1>5 DEF WireFirst
  <2>1. i + 1 \in DOMAIN wire /\ wire'[i] = wire[i + 1]
    BY <1>4
  <2> QED
    BY <2>1 DEF OrderInv, WireFirst
<1> QED
  BY <1>7, <1>9, <1>10, <1>11, <1>12, <1>13, <1>14 DEF OrderInv

\* A lost link empties the wire and leaves the queue.
LEMMA OrderLinkDrops == TypeOK /\ OrderInv /\ LinkDrops => OrderInv'
<1> SUFFICES ASSUME TypeOK, OrderInv, LinkDrops PROVE OrderInv'
  OBVIOUS
<1>1. wire' = <<>> /\ UNCHANGED <<row, storing, outq, server, unstored>>
  BY DEF LinkDrops
<1>2. Kept' = Kept /\ CurVer' = CurVer
  BY <1>1 DEF Kept, CurVer
<1> QED
  BY <1>1, <1>2 DEF OrderInv, HoldsOne, ServerBelow, QueueBetween, WireBetween, QueueSorted, WireSorted, WireFirst

\* A crash empties the queue and the wire.
LEMMA OrderCrash == TypeOK /\ OrderInv /\ Crash => OrderInv'
<1> SUFFICES ASSUME TypeOK, OrderInv, Crash PROVE OrderInv'
  OBVIOUS
<1>1. /\ wire' = <<>> /\ outq' = <<>> /\ storing' = None
      /\ unstored' = IF storing = None THEN unstored ELSE unstored \cup {storing.qso}
      /\ UNCHANGED <<row, server>>
  BY DEF Crash
<1>2. \A q \in Kept' : q \in Kept /\ CurVer'[q] = CurVer[q]
  BY <1>1 DEF Kept, CurVer
<1> QED
  BY <1>1, <1>2 DEF OrderInv, HoldsOne, ServerBelow, QueueBetween, WireBetween, QueueSorted, WireSorted, WireFirst

\* Every step keeps OrderInv.
LEMMA OrderStep ==
    TypeOK /\ TypeOK' /\ MadeInv /\ DialogInv /\ VerInv /\ OrderInv /\ [Next]_vars => OrderInv'
<1> SUFFICES ASSUME TypeOK, TypeOK', MadeInv, DialogInv, VerInv, OrderInv, [Next]_vars PROVE OrderInv'
  OBVIOUS
<1>1. ASSUME UNCHANGED <<row, storing, outq, wire, server, unstored>> PROVE OrderInv'
  <2>1. \A q \in Kept' : CurVer[q] <= CurVer'[q]
    BY <1>1, TypeVers DEF Kept, CurVer
  <2> QED
    BY <1>1, <2>1, OrderQuiet
<1>2. CASE UNCHANGED vars
  BY <1>1, <1>2 DEF vars
<1>3. CASE OpenEditDialog \/ CancelEditDialog
  BY <1>1, <1>3 DEF OpenEditDialog, CancelEditDialog, history
<1>4. CASE DecideOnConnect \/ FetchLog \/ FetchFails
  BY <1>1, <1>4 DEF DecideOnConnect, FetchLog, FetchFails, history
<1>5. CASE LinkUp
  BY <1>1, <1>5 DEF LinkUp
<1>6. CASE Operator
  BY <1>3, <1>6, OrderLogContact, OrderDelete, OrderSave DEF Operator
<1>7. CASE MainThread
  BY <1>4, <1>7, OrderStore, OrderSettle, OrderHello, OrderAnswer DEF MainThread
<1>8. CASE Environment
  BY <1>4, <1>5, <1>8, OrderServerReads, OrderLinkDrops, OrderCrash DEF Environment
<1> QED
  BY <1>2, <1>6, <1>7, <1>8, OrderWriter DEF Next

\* The step ServerMovesForward allows.
Forward == \A q \in Qsos :
    /\ server'[q].copies <= 1
    /\ q \notin unstored => server'[q].ver >= server[q].ver

\* A step from such a state never takes the server back.
LEMMA StepMovesForward == TypeOK /\ OrderInv /\ [Next]_vars => Forward
<1> SUFFICES ASSUME TypeOK, OrderInv, [Next]_vars PROVE Forward
  OBVIOUS
<1>1. CASE ServerReads
  BY <1>1, ReadMovesForward DEF Forward, Kept
<1>2. CASE server' = server
  BY <1>2, TypeVers DEF Forward, OrderInv, HoldsOne
<1>3. ServerReads \/ server' = server
  <2>1. CASE UNCHANGED vars
    BY <2>1 DEF vars
  <2>2. CASE Operator
    BY <2>2 DEF Operator, LogContact, DeleteLastContact, OpenEditDialog, SaveEditDialog, CancelEditDialog
  <2>3. CASE MainThread
    BY <2>3 DEF MainThread, StoreRow, Settle, ServerHello, AnswerSync, DecideOnConnect
  <2>4. CASE Writer
    BY <2>4 DEF Writer, WriterFinishes
  <2>5. CASE Environment
    BY <2>5 DEF Environment, LinkUp, LinkDrops, FetchLog, FetchFails, Crash
  <2> QED
    BY <2>1, <2>2, <2>3, <2>4, <2>5 DEF Next
<1> QED
  BY <1>1, <1>2, <1>3

\* ServerMovesForward: however often links are lost and packets sent twice, the server holds a
\* QSO once and never goes back to an older version of one (ServerHoldsQSO, ProcessClientBuffer).
THEOREM ServerCorrect == Spec => ServerMovesForward
<1> DEFINE Inv == FlagsInv /\ OrderInv
<1>1. Init => Inv
  BY TypeInit, WholeInit, VerInit, OrderInit DEF FlagsInv
<1>2. Inv /\ [Next]_vars => Inv'
  BY FlagsInvStep, OrderStep DEF FlagsInv, IInv
<1>3. Inv /\ [Next]_vars => [Forward]_vars
  BY StepMovesForward DEF FlagsInv, IInv
<1> HIDE DEF Inv
<1>4. Spec => [][Forward]_vars
  BY <1>1, <1>2, <1>3, PTL DEF Spec
<1> QED
  BY <1>4 DEF ServerMovesForward, Forward
===============================================================================
