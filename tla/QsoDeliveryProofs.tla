-------------------------- MODULE QsoDeliveryProofs ---------------------------
(***************************************************************************)
(* The accounts of the edits: LedgerExact, UnwrittenEditIsOwed and         *)
(* OutcomeIsScheduled hold in every state.                                 *)
(*                                                                         *)
(* They are not inductive. A new QSO's row is stored clean, which is       *)
(* right only if no edit of it can be about: so nothing may be anywhere    *)
(* of a QSO not made (MadeInv) or not logged (UnloggedInv), nor be under   *)
(* way of a clean row about to be stored (StoringInv). That an outcome     *)
(* has its Settle needs a link that was up before anything was posted      *)
(* (LinkInv). There is one lemma per action and part it can disturb; the   *)
(* theorems are at the end.                                                *)
(***************************************************************************)
EXTENDS QsoDeliveryTypes
USE BoundsAssumption, NoneAssumption

\* An element of a queue appended to was there or is the one appended.
LEMMA AppendPlaces ==
    ASSUME NEW S, NEW s \in Seq(S), NEW p \in S, NEW i \in DOMAIN Append(s, p)
    PROVE  (i \in DOMAIN s /\ Append(s, p)[i] = s[i]) \/ Append(s, p)[i] = p
OBVIOUS

\* An element of the queue's tail was one place further on.
LEMMA TailPlaces ==
    ASSUME NEW S, NEW s \in Seq(S), s # <<>>, NEW i \in DOMAIN Tail(s)
    PROVE  i + 1 \in DOMAIN s /\ Tail(s)[i] = s[i + 1]
OBVIOUS

\* The head is the first element.
LEMMA HeadPlaces ==
    ASSUME NEW S, NEW s \in Seq(S), s # <<>>
    PROVE  1 \in DOMAIN s /\ Head(s) = s[1]
OBVIOUS

\* What the resend owes of a QSO is the row's own version: whole if never sent, an edit if dirty.
LEMMA OwedOnes ==
    ASSUME TypeOK, NEW q \in Qsos, NEW k \in DOMAIN OwedPackets(q)
    PROVE  /\ Logged(q)
           /\ OwedPackets(q)[k].qso = q /\ OwedPackets(q)[k].ver = row[q].ver
           /\ \/ OwedPackets(q)[k].kind = "qso" /\ ~row[q].sent
              \/ OwedPackets(q)[k].kind = "edit" /\ row[q].dirty
<1>1. CASE row[q].sent /\ row[q].dirty
  BY <1>1 DEF OwedPackets, Packet
<1>2. CASE row[q].sent /\ ~row[q].dirty
  BY <1>2 DEF OwedPackets, Packet
<1>3. CASE ~row[q].sent /\ row[q].dirty
  BY <1>3 DEF OwedPackets, Packet
<1>4. CASE ~row[q].sent /\ ~row[q].dirty
  BY <1>4 DEF OwedPackets, Packet
<1> QED
  BY <1>1, <1>2, <1>3, <1>4

\* What the resend and the restock post.
LEMMA ResendPosts ==
    ASSUME TypeOK, NEW i \in DOMAIN FlattenSeq(OwedByQso)
    PROVE  LET p == FlattenSeq(OwedByQso)[i]
           IN  /\ p.qso \in Qsos /\ Logged(p.qso) /\ p.ver = row[p.qso].ver
               /\ (p.kind = "qso" /\ ~row[p.qso].sent) \/ (p.kind = "edit" /\ row[p.qso].dirty)
<1>1. OwedByQso \in Seq(Seq(Packets)) /\ DOMAIN OwedByQso = Qsos
  BY TypeOwed, PerQso
<1>2. PICK r \in DOMAIN OwedByQso : \E k \in DOMAIN OwedByQso[r] : FlattenSeq(OwedByQso)[i] = OwedByQso[r][k]
  BY <1>1, FlattenFrom, Zenon
<1>3. r \in Qsos /\ OwedByQso[r] = OwedPackets(r)
  BY <1>1, <1>2 DEF OwedByQso
<1>4. PICK k \in DOMAIN OwedPackets(r) : FlattenSeq(OwedByQso)[i] = OwedPackets(r)[k]
  BY <1>2, <1>3
<1>5. /\ Logged(r)
      /\ OwedPackets(r)[k].qso = r /\ OwedPackets(r)[k].ver = row[r].ver
      /\ \/ OwedPackets(r)[k].kind = "qso" /\ ~row[r].sent
         \/ OwedPackets(r)[k].kind = "edit" /\ row[r].dirty
  BY <1>3, <1>4, OwedOnes, Zenon
<1> DEFINE p == FlattenSeq(OwedByQso)[i]
<1>6. /\ p.qso = r /\ p.ver = row[r].ver
      /\ (p.kind = "qso" /\ ~row[r].sent) \/ (p.kind = "edit" /\ row[r].dirty)
  BY <1>4, <1>5
<1> HIDE DEF p
<1>7. /\ p.qso \in Qsos /\ Logged(p.qso) /\ p.ver = row[p.qso].ver
      /\ (p.kind = "qso" /\ ~row[p.qso].sent) \/ (p.kind = "edit" /\ row[p.qso].dirty)
  BY <1>3, <1>5, <1>6
<1> QED
  BY <1>7 DEF p

\* The restock posts offline packets of QSOs the server lacks.
LEMMA RestockPosts ==
    ASSUME TypeOK, NEW i \in DOMAIN FlattenSeq(OfflineByQso)
    PROVE  LET p == FlattenSeq(OfflineByQso)[i]
           IN  p.kind = "offline" /\ p.qso \in ToPush /\ p.ver = row[p.qso].ver
<1>1. OfflineByQso \in Seq(Seq(Packets)) /\ DOMAIN OfflineByQso = Qsos
  BY TypeOffline, PerQso
<1>2. PICK r \in DOMAIN OfflineByQso : \E k \in DOMAIN OfflineByQso[r] : FlattenSeq(OfflineByQso)[i] = OfflineByQso[r][k]
  BY <1>1, FlattenFrom, Zenon
<1>3. PICK k \in DOMAIN OfflineByQso[r] : FlattenSeq(OfflineByQso)[i] = OfflineByQso[r][k]
  BY <1>2
<1>4. r \in Qsos /\ OfflineByQso[r] = IF r \in ToPush THEN <<Packet("offline", r, row[r].ver)>> ELSE <<>>
  BY <1>1 DEF OfflineByQso
<1>5. r \in ToPush /\ OfflineByQso[r][k] = Packet("offline", r, row[r].ver)
  BY <1>3, <1>4
<1> QED
  BY <1>3, <1>5 DEF Packet

---------------------------------------------------------------------------
\* Every step keeps LinkInv: only a link that is up takes packets.
LEMMA LinkStep == TypeOK /\ LinkInv /\ [Next]_vars => LinkInv'
<1> SUFFICES ASSUME TypeOK, LinkInv, [Next]_vars PROVE LinkInv'
  OBVIOUS
<1> USE DEF LinkInv, Connected
<1>1. CASE UNCHANGED vars
  BY <1>1 DEF vars
<1>2. CASE LogContact
  BY <1>2 DEF LogContact, PostQso
<1>3. CASE \E b \in BOOLEAN : DeleteLastContact(b)
  BY <1>3 DEF DeleteLastContact, PostEdit
<1>4. CASE OpenEditDialog \/ CancelEditDialog
  BY <1>4 DEF OpenEditDialog, CancelEditDialog, bounds
<1>5. CASE SaveEditDialog
  BY <1>5 DEF SaveEditDialog, PostEdit, bounds
<1>6. CASE \E b \in BOOLEAN : StoreRow(b) \/ Settle(b)
  BY <1>6 DEF StoreRow, Settle, bounds
<1>7. CASE \E b \in BOOLEAN : ServerHello(b) \/ AnswerSync(b)
  BY <1>7 DEF ServerHello, AnswerSync, bounds
<1>8. CASE DecideOnConnect \/ FetchLog \/ FetchFails \/ ServerReads
  BY <1>8 DEF DecideOnConnect, FetchLog, FetchFails, ServerReads, bounds
<1>9. CASE Writer
  BY <1>9 DEF Writer, WriterFinishes, bounds
<1>10. CASE LinkUp \/ LinkDrops \/ Crash
  BY <1>10 DEF LinkUp, LinkDrops, Crash, bounds, TypeOK
<1> QED
  BY <1>1, <1>2, <1>3, <1>4, <1>5, <1>6, <1>7, <1>8, <1>9, <1>10
  DEF Next, Operator, MainThread, Environment

\* MarkServerProgress changes the flags of a row, never its version.
LEMMA MarkedKeeps ==
    ASSUME TypeOK, NEW q \in Qsos
    PROVE  /\ Marked[q].ver = row[q].ver
           /\ Marked[q].sent <=> row[q].sent \/ (q \in Sent /\ Logged(q))
           /\ Marked[q].dirty <=> row[q].dirty /\ q \notin EditsDone
<1>1. row[q] \in Rows
  BY TypeSteps
<1>2. Marked[q] = [ver |-> row[q].ver, sent |-> row[q].sent \/ (q \in Sent /\ Logged(q)),
                   dirty |-> row[q].dirty /\ q \notin EditsDone]
  BY <1>1 DEF Marked, Rows
<1> DEFINE s == row[q].sent \/ (q \in Sent /\ Logged(q))
           d == row[q].dirty /\ q \notin EditsDone
<1> HIDE DEF s, d
<1>3. Marked[q] = [ver |-> row[q].ver, sent |-> s, dirty |-> d]
  BY <1>2 DEF s, d
<1>4. Marked[q].ver = row[q].ver /\ Marked[q].sent = s /\ Marked[q].dirty = d
  BY <1>3
<1> QED
  BY <1>4, Zenon DEF s, d

\* Every step keeps DialogInv: no row gets a version while the dialog is open.
LEMMA DialogStep == TypeOK /\ DialogInv /\ [Next]_vars => DialogInv'
<1> SUFFICES ASSUME TypeOK, DialogInv, [Next]_vars PROVE DialogInv'
  OBVIOUS
<1> USE DEF DialogInv, UserFree, MainFree
<1>a. dialog # None => dialog.qso \in Qsos
  BY DEF TypeOK
<1>1. CASE UNCHANGED vars
  BY <1>1 DEF vars, Logged
<1>2. CASE LogContact
  BY <1>2 DEF LogContact
<1>3. CASE \E b \in BOOLEAN : DeleteLastContact(b)
  BY <1>3 DEF DeleteLastContact
<1>4. CASE OpenEditDialog \/ CancelEditDialog \/ SaveEditDialog
  BY <1>4 DEF OpenEditDialog, CancelEditDialog, SaveEditDialog, Logged
<1>5. CASE \E b \in BOOLEAN : StoreRow(b)
  BY <1>5 DEF StoreRow
<1>6. CASE \E b \in BOOLEAN : Settle(b)
  <2>1. \A q \in Qsos : row'[q].ver = row[q].ver
    BY <1>6, MarkedKeeps DEF Settle
  <2> QED
    BY <1>6, <1>a, <2>1 DEF Settle, Logged
<1>7. CASE \E b \in BOOLEAN : AnswerSync(b)
  <2>1. \A q \in Qsos : Logged(q) => row'[q] = row[q]
    BY <1>7 DEF AnswerSync, ToPull, TypeOK
  <2> QED
    BY <1>7, <1>a, <2>1 DEF AnswerSync, Logged
<1>8. CASE (\E b \in BOOLEAN : ServerHello(b)) \/ Writer
  BY <1>8 DEF ServerHello, Writer, WriterFinishes, Logged
<1>9. CASE DecideOnConnect \/ FetchLog \/ FetchFails \/ ServerReads \/ LinkUp \/ LinkDrops \/ Crash
  BY <1>9 DEF DecideOnConnect, FetchLog, FetchFails, ServerReads, LinkUp, LinkDrops, Crash, Logged
<1> QED
  BY <1>1, <1>2, <1>3, <1>4, <1>5, <1>6, <1>7, <1>8, <1>9
  DEF Next, Operator, MainThread, Environment


\* A packet of a QSO that was made, posted last.
LEMMA MadePost ==
    ASSUME TypeOK, MadeInv, NEW k \in {"qso", "edit", "offline"}, NEW q \in Qsos, NEW v \in Versions,
           NEW m \in Nat, q <= m, made <= m,
           NEW i \in DOMAIN Append(outq, Packet(k, q, v))
    PROVE  Append(outq, Packet(k, q, v))[i].qso <= m
<1>1. Packet(k, q, v) \in Packets /\ Packet(k, q, v).qso = q
  BY TypeSteps DEF Packet
<1>2. outq \in Seq(Packets)
  BY DEF TypeOK
<1>3. \/ i \in DOMAIN outq /\ Append(outq, Packet(k, q, v))[i] = outq[i]
      \/ Append(outq, Packet(k, q, v))[i] = Packet(k, q, v)
  BY <1>1, <1>2, AppendPlaces
<1>4. i \in DOMAIN outq => outq[i] \in Packets /\ outq[i].qso <= made /\ outq[i].qso \in Qsos
  <2>1. i \in DOMAIN outq => outq[i] \in Packets
    BY <1>2
  <2> QED
    BY <2>1, TypeSteps DEF MadeInv
<1>5. i \in DOMAIN outq => outq[i].qso <= m
  BY <1>4 DEF TypeOK, Qsos
<1>6. CASE i \in DOMAIN outq /\ Append(outq, Packet(k, q, v))[i] = outq[i]
  BY <1>5, <1>6
<1>7. CASE Append(outq, Packet(k, q, v))[i] = Packet(k, q, v)
  BY <1>1, <1>7
<1> QED
  BY <1>3, <1>6, <1>7

\* A QSO in the log, or in the fetched image, is one that was made.
LEMMA LoggedIsMade == TypeOK /\ MadeInv => \A q \in Qsos : Logged(q) \/ image[q] > 0 => q <= made
<1> SUFFICES ASSUME TypeOK, MadeInv, NEW q \in Qsos PROVE Logged(q) \/ image[q] > 0 => q <= made
  OBVIOUS
<1>1. q \in Nat /\ made \in Nat
  BY DEF TypeOK, Qsos
<1> QED
  BY <1>1 DEF MadeInv

\* An edit of a logged QSO is posted, or with no link it is not.
LEMMA MadePostEdit ==
    ASSUME TypeOK, MadeInv, NEW q \in Qsos, NEW v \in Versions, q <= made, PostEdit(q, v)
    PROVE  \A i \in DOMAIN outq' : outq'[i].qso <= made
<1>1. made \in Nat /\ made <= made
  BY DEF TypeOK
<1>2. \A i \in DOMAIN Append(outq, Packet("edit", q, v)) : Append(outq, Packet("edit", q, v))[i].qso <= made
  BY <1>1, MadePost
<1>3. outq' = outq \/ outq' = Append(outq, Packet("edit", q, v))
  BY DEF PostEdit
<1> QED
  BY <1>2, <1>3 DEF MadeInv

\* LogContact makes the QSO it posts.
LEMMA MadeLogContact == TypeOK /\ MadeInv /\ LogContact => MadeInv'
<1> SUFFICES ASSUME TypeOK, MadeInv, LogContact PROVE MadeInv'
  OBVIOUS
<1>1. /\ made \in Nat /\ made' = made + 1 /\ made' \in Nat /\ made' \in Qsos /\ 1 \in Versions
      /\ UNCHANGED <<row, server, image, wire>>
  BY DEF LogContact, TypeOK, Qsos, Versions
<1>2. \A i \in DOMAIN Append(outq, Packet("qso", made', 1)) : Append(outq, Packet("qso", made', 1))[i].qso <= made'
  BY <1>1, MadePost
<1>3. outq' = outq \/ outq' = Append(outq, Packet("qso", made', 1))
  BY <1>1 DEF LogContact, PostQso
<1>4. \A q \in Qsos : q > made' => q > made
  BY <1>1 DEF Qsos
<1>5. \A i \in DOMAIN outq : outq[i].qso <= made'
  <2>1. \A i \in DOMAIN outq : outq[i] \in Packets
    BY DEF TypeOK
  <2>2. \A i \in DOMAIN outq : outq[i].qso \in Nat
    BY <2>1, TypeSteps DEF Qsos
  <2> QED
    BY <1>1, <2>2 DEF MadeInv
<1>6. \A i \in DOMAIN wire : wire[i].qso <= made'
  <2>1. \A i \in DOMAIN wire : wire[i] \in Packets
    BY DEF TypeOK
  <2>2. \A i \in DOMAIN wire : wire[i].qso \in Nat
    BY <2>1, TypeSteps DEF Qsos
  <2> QED
    BY <1>1, <2>2 DEF MadeInv
<1> QED
  BY <1>1, <1>2, <1>3, <1>4, <1>5, <1>6 DEF MadeInv, Logged

\* DeleteLastContact posts an edit of a QSO that was logged.
LEMMA MadeDelete == TypeOK /\ MadeInv /\ (\E b \in BOOLEAN : DeleteLastContact(b)) => MadeInv'
<1> SUFFICES ASSUME TypeOK, MadeInv, NEW b \in BOOLEAN, DeleteLastContact(b) PROVE MadeInv'
  OBVIOUS
<1>1. PICK q \in Qsos :
        /\ Logged(q) /\ EditOf(q)
        /\ row' = IF b THEN [row EXCEPT ![q].ver = @ + 1, ![q].dirty = TRUE] ELSE row
        /\ PostEdit(q, row[q].ver + 1)
  BY DEF DeleteLastContact
<1>2. row[q].ver + 1 \in Versions /\ q <= made
  BY <1>1, TypeSteps, LoggedIsMade DEF EditOf, Versions
<1>3. \A i \in DOMAIN outq' : outq'[i].qso <= made
  BY <1>1, <1>2, MadePostEdit
<1>4. \A r \in Qsos : r > made => row'[r] = row[r]
  <2> SUFFICES ASSUME NEW r \in Qsos, r > made PROVE row'[r] = row[r]
    OBVIOUS
  <2>1. r # q
    BY <1>2 DEF Qsos, TypeOK
  <2> QED
    BY <1>1, <2>1 DEF TypeOK
<1> QED
  BY <1>3, <1>4 DEF MadeInv, DeleteLastContact, Logged

\* SaveEditDialog posts an edit of the QSO the dialog was opened on.
LEMMA MadeSave == TypeOK /\ MadeInv /\ DialogInv /\ SaveEditDialog => MadeInv'
<1> SUFFICES ASSUME TypeOK, MadeInv, DialogInv, SaveEditDialog PROVE MadeInv'
  OBVIOUS
<1> DEFINE q == dialog.qso
           rec == [dialog.row EXCEPT !.ver = @ + 1, !.dirty = TRUE]
<1>1. /\ EditOf(q) /\ PostEdit(q, rec.ver) /\ dialog # None
      /\ UNCHANGED <<row, server, image, wire, made>>
  BY DEF SaveEditDialog, bounds
<1>2. dialog \in [qso : Qsos, row : Rows]
  BY <1>1 DEF TypeOK
<1>3. q \in Qsos /\ dialog.row \in Rows
  BY <1>2
<1>4. rec.ver \in Versions
  BY <1>1, <1>3, TypeSteps DEF EditOf, Versions, DialogInv, Rows
<1>5. q <= made
  BY <1>1, <1>3, LoggedIsMade DEF DialogInv
<1>6. \A i \in DOMAIN outq' : outq'[i].qso <= made
  <2> HIDE DEF q, rec
  <2> QED
    BY <1>1, <1>3, <1>4, <1>5, MadePostEdit
<1> QED
  BY <1>1, <1>6 DEF MadeInv, Logged

\* StoreRow stores a row of a QSO that was made.
LEMMA MadeStore == TypeOK /\ MadeInv /\ StoringInv /\ (\E b \in BOOLEAN : StoreRow(b)) => MadeInv'
<1> SUFFICES ASSUME TypeOK, MadeInv, StoringInv, NEW b \in BOOLEAN, StoreRow(b) PROVE MadeInv'
  OBVIOUS
<1>1. storing.qso <= made /\ storing \in [qso : Qsos, row : Rows]
  BY DEF StoringInv, StoreRow, TypeOK
<1>2. \A r \in Qsos : r > made => row'[r] = row[r]
  <2> SUFFICES ASSUME NEW r \in Qsos, r > made PROVE row'[r] = row[r]
    OBVIOUS
  <2>1. storing.qso \in Qsos
    BY <1>1
  <2>2. r # storing.qso
    BY <1>1, <2>1 DEF Qsos, TypeOK
  <2> QED
    BY <2>1, <2>2 DEF StoreRow, TypeOK
<1> QED
  BY <1>2 DEF MadeInv, StoreRow, Logged

\* Settle logs nothing new.
LEMMA MadeSettle == TypeOK /\ MadeInv /\ (\E b \in BOOLEAN : Settle(b)) => MadeInv'
<1> SUFFICES ASSUME TypeOK, MadeInv, NEW b \in BOOLEAN, Settle(b) PROVE MadeInv'
  OBVIOUS
<1>1. \A q \in Qsos : row'[q].ver = row[q].ver
  BY MarkedKeeps DEF Settle
<1> QED
  BY <1>1 DEF MadeInv, Settle, Logged, bounds

\* The resend posts packets of logged QSOs.
LEMMA MadeHello == TypeOK /\ MadeInv /\ (\E b \in BOOLEAN : ServerHello(b)) => MadeInv'
<1> SUFFICES ASSUME TypeOK, MadeInv, NEW b \in BOOLEAN, ServerHello(b) PROVE MadeInv'
  OBVIOUS
<1> DEFINE ps == FlattenSeq(OwedByQso)
<1>1. ps \in Seq(Packets) /\ outq \in Seq(Packets)
  BY TypeOwed, PerQso, FlattenSeqOf DEF TypeOK
<1>2. outq' = outq \/ outq' = outq \o ps
  BY DEF ServerHello, ResendOfflineWork, OwedByQso
<1>3. \A i \in DOMAIN ps : ps[i].qso <= made
  BY ResendPosts, LoggedIsMade
<1> HIDE DEF ps
<1>4. \A i \in DOMAIN (outq \o ps) : (outq \o ps)[i].qso <= made
  <2> SUFFICES ASSUME NEW i \in DOMAIN (outq \o ps) PROVE (outq \o ps)[i].qso <= made
    OBVIOUS
  <2>1. \/ i \in DOMAIN outq /\ (outq \o ps)[i] = outq[i]
        \/ i - Len(outq) \in DOMAIN ps /\ (outq \o ps)[i] = ps[i - Len(outq)]
    BY <1>1, ConcatPlaces
  <2> QED
    BY <1>3, <2>1 DEF MadeInv
<1>5. \A i \in DOMAIN outq' : outq'[i].qso <= made
  BY <1>2, <1>4 DEF MadeInv
<1> QED
  BY <1>5 DEF MadeInv, ServerHello, Logged, bounds

\* The restock pushes logged QSOs and pulls QSOs the server has.
LEMMA MadeAnswer == TypeOK /\ MadeInv /\ (\E b \in BOOLEAN : AnswerSync(b)) => MadeInv'
<1> SUFFICES ASSUME TypeOK, MadeInv, NEW b \in BOOLEAN, AnswerSync(b) PROVE MadeInv'
  OBVIOUS
<1> DEFINE ps == FlattenSeq(OfflineByQso)
<1>1. ps \in Seq(Packets) /\ outq \in Seq(Packets)
  BY TypeOffline, PerQso, FlattenSeqOf DEF TypeOK
<1>2. outq' = outq \/ outq' = outq \o ps
  BY DEF AnswerSync, OfflineByQso
<1>3. \A i \in DOMAIN ps : ps[i].qso <= made
  BY RestockPosts, LoggedIsMade DEF ToPush
<1> HIDE DEF ps
<1>4. \A i \in DOMAIN (outq \o ps) : (outq \o ps)[i].qso <= made
  <2> SUFFICES ASSUME NEW i \in DOMAIN (outq \o ps) PROVE (outq \o ps)[i].qso <= made
    OBVIOUS
  <2>1. \/ i \in DOMAIN outq /\ (outq \o ps)[i] = outq[i]
        \/ i - Len(outq) \in DOMAIN ps /\ (outq \o ps)[i] = ps[i - Len(outq)]
    BY <1>1, ConcatPlaces
  <2> QED
    BY <1>3, <2>1 DEF MadeInv
<1>5. \A i \in DOMAIN outq' : outq'[i].qso <= made
  BY <1>2, <1>4 DEF MadeInv
<1>6. \A r \in Qsos : r > made => row'[r] = row[r]
  <2> SUFFICES ASSUME NEW r \in Qsos, r > made PROVE row'[r] = row[r]
    OBVIOUS
  <2>1. r \notin ToPull
    BY DEF ToPull, MadeInv
  <2> QED
    BY <2>1 DEF AnswerSync
<1> QED
  BY <1>5, <1>6 DEF MadeInv, AnswerSync, Logged, bounds, NoImage


\* The writer moves a packet from the queue to the wire.
LEMMA MadeWriter == TypeOK /\ MadeInv /\ Writer => MadeInv'
<1> SUFFICES ASSUME TypeOK, MadeInv, NEW ok \in BOOLEAN, WriterFinishes(ok) PROVE MadeInv'
  BY DEF Writer
<1> DEFINE p == Head(outq)
<1>1. outq # <<>> /\ outq \in Seq(Packets) /\ wire \in Seq(Packets)
  BY DEF TypeOK, WriterFinishes
<1>2. 1 \in DOMAIN outq /\ p = outq[1] /\ p \in Packets
  BY <1>1, HeadPlaces
<1>3. p.qso <= made
  BY <1>2 DEF MadeInv
<1>4. \A i \in DOMAIN outq' : outq'[i].qso <= made
  BY <1>1, TailPlaces DEF WriterFinishes, MadeInv
<1>5. wire' = wire \/ wire' = Append(wire, p)
  BY DEF WriterFinishes
<1> HIDE DEF p
<1>6. \A i \in DOMAIN Append(wire, p) : Append(wire, p)[i].qso <= made
  BY <1>1, <1>2, <1>3, AppendPlaces DEF MadeInv
<1>7. \A i \in DOMAIN wire' : wire'[i].qso <= made
  BY <1>5, <1>6 DEF MadeInv
<1> QED
  BY <1>4, <1>7 DEF MadeInv, WriterFinishes, Logged, bounds

\* The server stores what was on the wire.
LEMMA MadeServerReads == TypeOK /\ MadeInv /\ ServerReads => MadeInv'
<1> SUFFICES ASSUME TypeOK, MadeInv, ServerReads PROVE MadeInv'
  OBVIOUS
<1> DEFINE p == Head(wire)
<1>1. wire # <<>> /\ wire \in Seq(Packets)
  BY DEF TypeOK, ServerReads
<1>2. 1 \in DOMAIN wire /\ p = wire[1] /\ p \in Packets
  BY <1>1, HeadPlaces
<1>3. p.qso <= made /\ p.qso \in Qsos
  BY <1>2, TypeSteps DEF MadeInv
<1>4. \A i \in DOMAIN wire' : wire'[i].qso <= made
  BY <1>1, TailPlaces DEF ServerReads, MadeInv
<1>5. \/ server' = server
      \/ server' = [server EXCEPT ![p.qso].ver = p.ver]
      \/ server' = [server EXCEPT ![p.qso] = [copies |-> @.copies + 1, ver |-> p.ver]]
  BY DEF ServerReads
<1> HIDE DEF p
<1>6. \A r \in Qsos : r > made => server'[r] = server[r]
  <2> SUFFICES ASSUME NEW r \in Qsos, r > made PROVE server'[r] = server[r]
    OBVIOUS
  <2>1. r # p.qso
    BY <1>3 DEF Qsos, TypeOK
  <2> QED
    BY <1>3, <1>5, <2>1 DEF TypeOK
<1> QED
  BY <1>4, <1>6 DEF MadeInv, ServerReads, Logged, bounds, history

\* Nothing is posted, sent or logged of a QSO that was not made.
LEMMA MadeStep == TypeOK /\ MadeInv /\ DialogInv /\ StoringInv /\ [Next]_vars => MadeInv'
<1> SUFFICES ASSUME TypeOK, MadeInv, DialogInv, StoringInv, [Next]_vars PROVE MadeInv'
  OBVIOUS
<1>1. CASE UNCHANGED vars
  BY <1>1 DEF vars, MadeInv, Logged
<1>2. CASE OpenEditDialog \/ CancelEditDialog \/ FetchFails
  BY <1>2 DEF OpenEditDialog, CancelEditDialog, FetchFails, MadeInv, Logged, bounds
<1>3. CASE FetchLog
  BY <1>3 DEF FetchLog, MadeInv, Logged, bounds
<1>4. CASE DecideOnConnect
  <2>1. image' = image \/ image' = NoImage
    BY <1>4 DEF DecideOnConnect
  <2> QED
    BY <1>4, <2>1 DEF DecideOnConnect, MadeInv, Logged, bounds, NoImage
<1>5. CASE LinkUp \/ LinkDrops
  BY <1>5 DEF LinkUp, LinkDrops, MadeInv, Logged, bounds
<1>6. CASE Crash
  BY <1>6 DEF Crash, MadeInv, Logged, NoImage
<1>7. CASE Operator
  BY <1>2, <1>7, MadeLogContact, MadeDelete, MadeSave DEF Operator
<1>8. CASE MainThread
  BY <1>4, <1>8, MadeStore, MadeSettle, MadeHello, MadeAnswer DEF MainThread
<1>9. CASE Environment
  BY <1>2, <1>3, <1>5, <1>6, <1>9, MadeServerReads DEF Environment
<1> QED
  BY <1>1, <1>7, <1>8, <1>9, MadeWriter DEF Next

---------------------------------------------------------------------------
\* Edits of one QSO, posted.
LEMMA PostEditCounts ==
    ASSUME TypeOK, NEW q \in Qsos, NEW v \in Versions, PostEdit(q, v), LedgerExact, NEW r \in Qsos
    PROVE  /\ edits'[r].count = EditsOf(r, outq') + EditsOf(r, outcomes)
           /\ r # q => EditsOf(r, outq') = EditsOf(r, outq)
           /\ edits'[r].failed = edits[r].failed
<1> DEFINE p == Packet("edit", q, v)
<1>1. p \in Packets /\ p.kind = "edit" /\ p.qso = q
  BY TypeSteps DEF Packet
<1>2. outq \in Seq(Packets) /\ edits \in [Qsos -> [count : Nat, failed : BOOLEAN]]
  BY DEF TypeOK
<1>3. EditsOf(r, outq) \in Nat /\ EditsOf(r, outcomes) \in Nat
  BY EditsOfNat DEF TypeOK
<1> HIDE DEF p
<1>4. EditsOf(r, Append(outq, p)) = EditsOf(r, outq) + (IF IsEditOf(p, r) THEN 1 ELSE 0)
  BY <1>1, <1>2, EditsOfAppend, Zenon
<1>5. edits[r].count = EditsOf(r, outq) + EditsOf(r, outcomes)
  BY DEF LedgerExact
<1>6. CASE Connected
  <2>1. outq' = Append(outq, p) /\ edits' = EditPosted(edits, q)
    BY <1>6 DEF PostEdit, p
  <2>2. /\ edits'[r].count = edits[r].count + (IF r = q THEN 1 ELSE 0)
        /\ edits'[r].failed = edits[r].failed
    BY <1>2, <2>1 DEF EditPosted
  <2>3. IsEditOf(p, r) <=> r = q
    BY <1>1 DEF IsEditOf
  <2>4. EditsOf(r, outq') = EditsOf(r, outq) + (IF r = q THEN 1 ELSE 0)
    BY <1>4, <2>1, <2>3
  <2> QED
    BY <1>3, <1>5, <2>2, <2>4
<1>7. CASE ~Connected
  BY <1>5, <1>7 DEF PostEdit
<1> QED
  BY <1>6, <1>7

\* What is settled of an edit: the count keeps up with the queue, what is still pending
\* was pending, and an edit that is done is not pending.
LEMMA SettleCounts ==
    ASSUME TypeOK, LedgerExact, outcomes' = <<>>, edits' = EditsSettled, outq' = outq, NEW q \in Qsos
    PROVE  /\ edits'[q].count = EditsOf(q, outq') + EditsOf(q, outcomes')
           /\ Pending(q)' => Pending(q) /\ q \notin EditsDone
<1> DEFINE n == EditsOf(q, outcomes)
           m == EditsOf(q, outq)
<1>1. n \in Nat /\ m \in Nat /\ edits \in [Qsos -> [count : Nat, failed : BOOLEAN]]
  BY EditsOfNat DEF TypeOK
<1>2. edits[q].count = m + n
  BY DEF LedgerExact
<1>3. EditsOf(q, outcomes') = 0 /\ ~FailedNow(q)'
  BY EditsOfEmpty DEF FailedNow
<1>4. edits'[q] = IF n = 0 THEN edits[q] ELSE IF edits[q].count <= n THEN NoEdits
                  ELSE [count |-> edits[q].count - n, failed |-> edits[q].failed \/ FailedNow(q)]
  BY DEF EditsSettled
<1>5. q \in EditsDone <=> n > 0 /\ edits[q].count <= n /\ ~edits[q].failed /\ ~FailedNow(q)
  BY DEF EditsDone
<1>6. Pending(q) <=> m > 0 \/ edits[q].failed \/ FailedNow(q)
  BY DEF Pending
<1>7. Pending(q)' <=> m > 0 \/ edits'[q].failed
  BY <1>3 DEF Pending
<1> HIDE DEF n, m
<1>8. CASE n = 0
  BY <1>1, <1>2, <1>3, <1>4, <1>5, <1>6, <1>7, <1>8 DEF m
<1>9. CASE n # 0 /\ m = 0
  <2>1. edits'[q] = NoEdits
    BY <1>1, <1>2, <1>4, <1>9
  <2> QED
    BY <1>1, <1>3, <1>7, <1>9, <2>1 DEF NoEdits, m
<1>10. CASE n # 0 /\ m # 0
  <2>1. ~ (edits[q].count <= n)
    BY <1>1, <1>2, <1>10
  <2>2. edits'[q] = [count |-> edits[q].count - n, failed |-> edits[q].failed \/ FailedNow(q)]
    BY <1>4, <1>10, <2>1
  <2>3. edits'[q].count = m
    BY <1>1, <1>2, <2>2
  <2> QED
    BY <1>1, <1>3, <1>5, <1>6, <1>10, <2>1, <2>3 DEF m
<1> QED
  BY <1>8, <1>9, <1>10


\* The parts of IInv about the accounts.
Books == StoringInv /\ UnloggedInv /\ LedgerExact /\ UnwrittenEditIsOwed /\ OutcomeIsScheduled

\* The two forms of UnwrittenEditIsOwed.
LEMMA OwedForm ==
    UnwrittenEditIsOwed <=> \A q \in Qsos \ unstored :
        Pending(q) => row[q].dirty \/ (storing # None /\ storing.qso = q)
BY DEF UnwrittenEditIsOwed, Pending

\* The same of the next state.
LEMMA OwedFormNext ==
    UnwrittenEditIsOwed' <=> \A q \in Qsos \ unstored' :
        Pending(q)' => row'[q].dirty \/ (storing' # None /\ storing'.qso = q)
BY DEF UnwrittenEditIsOwed, Pending

\* A step that leaves queue, ledger and outcomes alone leaves every edit as pending as it was.
LEMMA SamePending ==
    ASSUME UNCHANGED <<outq, edits, outcomes>>
    PROVE  /\ LedgerExact => LedgerExact'
           /\ \A q : Pending(q)' <=> Pending(q)
BY DEF LedgerExact, Pending, FailedNow, EditsOf

\* A step that touches neither the packets nor the rows.
LEMMA BooksQuiet ==
    ASSUME Books, UNCHANGED <<row, storing, outq, delivery, made, unstored>>
    PROVE  Books'
<1>1. UNCHANGED <<row, storing, outq, outcomes, settleDue, edits, made, unstored>>
  BY DEF delivery
<1>2. LedgerExact' /\ \A q : Pending(q)' <=> Pending(q)
  BY <1>1, SamePending DEF Books
<1>3. UnwrittenEditIsOwed'
  BY <1>1, <1>2, OwedForm, OwedFormNext DEF Books
<1>4. StoringInv' /\ UnloggedInv' /\ OutcomeIsScheduled'
  BY <1>1, <1>2 DEF Books, StoringInv, UnloggedInv, OutcomeIsScheduled, Logged
<1> QED
  BY <1>2, <1>3, <1>4 DEF Books

\* LogContact posts no edit, and no edit of the new QSO is about.
LEMMA BooksLogContact == TypeOK /\ MadeInv /\ Books /\ LogContact => Books'
<1> SUFFICES ASSUME TypeOK, MadeInv, Books, LogContact PROVE Books'
  OBVIOUS
<1>1. PICK n \in Qsos :
        /\ storing = None /\ n > made /\ made' = n
        /\ storing' = [qso |-> n, row |-> [ver |-> 1, sent |-> FALSE, dirty |-> FALSE]]
        /\ UNCHANGED <<row, outcomes, settleDue, edits, unstored>>
        /\ outq' = outq \/ outq' = Append(outq, Packet("qso", n, 1))
  <2>1. made + 1 \in Qsos /\ made + 1 > made
    BY DEF LogContact, TypeOK, Qsos
  <2>2. /\ storing = None /\ made' = made + 1
        /\ storing' = [qso |-> made + 1, row |-> [ver |-> 1, sent |-> FALSE, dirty |-> FALSE]]
        /\ UNCHANGED <<row, outcomes, settleDue, edits, unstored>>
        /\ outq' = outq \/ outq' = Append(outq, Packet("qso", made + 1, 1))
    BY DEF LogContact, PostQso, UserFree, MainFree, history
  <2> QED
    BY <2>1, <2>2
<1>a. 1 \in Versions
  BY DEF Versions
<1> DEFINE p == Packet("qso", n, 1)
<1>2. p \in Packets /\ p.kind = "qso"
  BY <1>1, <1>a, TypeSteps DEF Packet
<1>3. outq \in Seq(Packets)
  BY DEF TypeOK
<1> HIDE DEF p
<1>4. \A q \in Qsos : EditsOf(q, outq') = EditsOf(q, outq)
  <2> SUFFICES ASSUME NEW q \in Qsos PROVE EditsOf(q, Append(outq, p)) = EditsOf(q, outq)
    BY <1>1 DEF p
  <2>1. EditsOf(q, Append(outq, p)) = EditsOf(q, outq) + (IF IsEditOf(p, q) THEN 1 ELSE 0)
    BY <1>2, <1>3, EditsOfAppend, Zenon
  <2>2. EditsOf(q, outq) \in Nat /\ ~IsEditOf(p, q)
    BY <1>2, <1>3, EditsOfNat DEF IsEditOf
  <2> QED
    BY <2>1, <2>2
<1>5. \A q \in Qsos : Pending(q)' <=> Pending(q)
  BY <1>1, <1>4 DEF Pending, FailedNow
<1>6. LedgerExact'
  BY <1>1, <1>4 DEF Books, LedgerExact
<1>7. ~Pending(n)
  BY <1>1 DEF Books, UnloggedInv, MadeInv
<1>8. StoringInv'
  <2>1. n <= made' /\ ~Pending(n)'
    BY <1>1, <1>5, <1>7 DEF Qsos
  <2>2. storing'.qso = n /\ storing'.row.ver = 1
    BY <1>1
  <2>3. ~Pending(storing.qso)'
    BY <2>1, <2>2 DEF Pending
  <2> QED
    BY <2>1, <2>2, <2>3 DEF StoringInv
<1>9. UnloggedInv'
  BY <1>1, <1>5 DEF Books, UnloggedInv, Logged
<1>10. UnwrittenEditIsOwed'
  BY <1>1, <1>5, OwedForm, OwedFormNext DEF Books
<1>11. OutcomeIsScheduled'
  BY <1>1 DEF Books, OutcomeIsScheduled
<1> QED
  BY <1>6, <1>8, <1>9, <1>10, <1>11 DEF Books

\* StoreRow stores a dirty row, or notes the QSO whose row the log refused.
LEMMA BooksStore == TypeOK /\ Books /\ (\E b \in BOOLEAN : StoreRow(b)) => Books'
<1> SUFFICES ASSUME TypeOK, Books, NEW b \in BOOLEAN, StoreRow(b) PROVE Books'
  OBVIOUS
<1> DEFINE n == storing.qso
<1>1. /\ storing # None /\ storing' = None
      /\ row' = IF b THEN [row EXCEPT ![n] = storing.row] ELSE row
      /\ unstored' = IF b THEN unstored ELSE unstored \cup {n}
      /\ UNCHANGED <<outq, outcomes, settleDue, edits>>
  BY DEF StoreRow, delivery
<1>2. storing \in [qso : Qsos, row : Rows]
  BY <1>1 DEF TypeOK
<1>3. n \in Qsos /\ storing.row \in Rows /\ row \in [Qsos -> Rows]
  BY <1>2 DEF TypeOK
<1>4. storing.row.ver > 0 /\ (storing.row.dirty \/ ~Pending(n))
  BY <1>1 DEF Books, StoringInv
<1>5. LedgerExact' /\ \A q : Pending(q)' <=> Pending(q)
  BY <1>1, SamePending DEF Books
<1> HIDE DEF n
<1>6. \A q \in Qsos : q # n => row'[q] = row[q]
  BY <1>1, <1>3
<1>7. b => row'[n] = storing.row
  BY <1>1, <1>3
<1>8. UnloggedInv'
  BY <1>1, <1>4, <1>5, <1>6, <1>7 DEF Books, UnloggedInv, Logged
<1>9. UnwrittenEditIsOwed'
  <2> SUFFICES ASSUME NEW q \in Qsos \ unstored', Pending(q) PROVE row'[q].dirty
    BY <1>5, OwedFormNext
  <2>1. q \notin unstored
    BY <1>1
  <2>2. row[q].dirty \/ n = q
    BY <2>1, OwedForm DEF Books, n
  <2>3. CASE q # n
    BY <1>6, <2>2, <2>3
  <2>4. CASE q = n
    BY <1>1, <1>4, <1>7, <2>4
  <2> QED
    BY <2>3, <2>4
<1> QED
  BY <1>1, <1>5, <1>8, <1>9 DEF Books, StoringInv, OutcomeIsScheduled

\* What an edit that was posted leaves pending.
LEMMA PostEditPends ==
    ASSUME TypeOK, LedgerExact, NEW q \in Qsos, NEW v \in Versions, PostEdit(q, v),
           outcomes' = outcomes
    PROVE  /\ LedgerExact'
           /\ \A r \in Qsos : r # q => (Pending(r)' <=> Pending(r))
<1>1. \A r \in Qsos :
        /\ edits'[r].count = EditsOf(r, outq') + EditsOf(r, outcomes)
        /\ r # q => EditsOf(r, outq') = EditsOf(r, outq)
        /\ edits'[r].failed = edits[r].failed
  BY PostEditCounts
<1> QED
  BY <1>1 DEF LedgerExact, Pending, FailedNow

\* DeleteLastContact counts the edit it posts and stores the row dirty.
LEMMA BooksDelete == TypeOK /\ Books /\ (\E b \in BOOLEAN : DeleteLastContact(b)) => Books'
<1> SUFFICES ASSUME TypeOK, Books, NEW b \in BOOLEAN, DeleteLastContact(b) PROVE Books'
  OBVIOUS
<1>1. PICK n \in Qsos :
        /\ Logged(n) /\ EditOf(n)
        /\ row' = IF b THEN [row EXCEPT ![n].ver = @ + 1, ![n].dirty = TRUE] ELSE row
        /\ unstored' = IF b THEN unstored ELSE unstored \cup {n}
        /\ PostEdit(n, row[n].ver + 1)
  BY DEF DeleteLastContact
<1>2. storing = None /\ UNCHANGED <<storing, outcomes, settleDue>>
  BY DEF DeleteLastContact, UserFree, MainFree
<1>3. row[n].ver + 1 \in Versions
  BY <1>1, TypeSteps DEF EditOf, Versions
<1>4. LedgerExact' /\ \A r \in Qsos : r # n => (Pending(r)' <=> Pending(r))
  BY <1>1, <1>2, <1>3, PostEditPends DEF Books
<1>5. \A r \in Qsos : r # n => row'[r] = row[r]
  BY <1>1 DEF TypeOK
<1>6. b => row'[n].dirty /\ row'[n].ver = row[n].ver + 1
  <2>1. row[n] \in Rows /\ row \in [Qsos -> Rows]
    BY TypeSteps DEF TypeOK
  <2>2. b => row'[n] = [[row[n] EXCEPT !.ver = @ + 1] EXCEPT !.dirty = TRUE]
    BY <1>1, <2>1
  <2> QED
    BY <2>1, <2>2 DEF Rows
<1>7. UnloggedInv'
  <2>1. Logged(n)'
    BY <1>1, <1>3, <1>6, TypeSteps DEF Logged, Versions
  <2> QED
    BY <2>1, <1>4, <1>5 DEF Books, UnloggedInv, Logged
<1>8. UnwrittenEditIsOwed'
  <2> SUFFICES ASSUME NEW q \in Qsos \ unstored', Pending(q)' PROVE row'[q].dirty
    BY OwedFormNext
  <2>1. CASE q = n
    BY <1>1, <1>6, <2>1
  <2>2. CASE q # n
    <3>1. q \notin unstored /\ Pending(q)
      BY <1>1, <1>4, <2>2
    <3> QED
      BY <3>1, <1>2, <1>5, <2>2, OwedForm DEF Books
  <2> QED
    BY <2>1, <2>2
<1> QED
  BY <1>2, <1>4, <1>7, <1>8 DEF Books, StoringInv, OutcomeIsScheduled

\* SaveEditDialog counts the edit it posts and holds a dirty row to be stored.
LEMMA BooksSave == TypeOK /\ MadeInv /\ DialogInv /\ Books /\ SaveEditDialog => Books'
<1> SUFFICES ASSUME TypeOK, MadeInv, DialogInv, Books, SaveEditDialog PROVE Books'
  OBVIOUS
<1> DEFINE n == dialog.qso
           rec == [dialog.row EXCEPT !.ver = @ + 1, !.dirty = TRUE]
<1>1. /\ EditOf(n) /\ PostEdit(n, rec.ver) /\ dialog # None /\ storing = None
      /\ storing' = [qso |-> n, row |-> rec]
      /\ UNCHANGED <<row, outcomes, settleDue, made, unstored>>
  BY DEF SaveEditDialog, bounds, MainFree
<1>2. dialog \in [qso : Qsos, row : Rows]
  BY <1>1 DEF TypeOK
<1>3. n \in Qsos /\ dialog.row \in Rows
  BY <1>2
<1>4. Logged(n) /\ dialog.row.ver = row[n].ver
  BY <1>1 DEF DialogInv
<1>5. rec.ver \in Versions /\ rec.ver > 0 /\ rec.dirty
  BY <1>1, <1>3, <1>4, TypeSteps DEF EditOf, Versions, Rows
<1>6. n <= made
  BY <1>3, <1>4, LoggedIsMade
<1> HIDE DEF n, rec
<1>7. LedgerExact' /\ \A r \in Qsos : r # n => (Pending(r)' <=> Pending(r))
  BY <1>1, <1>3, <1>5, PostEditPends DEF Books
<1>8. StoringInv'
  BY <1>1, <1>5, <1>6 DEF StoringInv
<1>9. UnloggedInv'
  BY <1>1, <1>4, <1>7 DEF Books, UnloggedInv, Logged
<1>10. UnwrittenEditIsOwed'
  <2> SUFFICES ASSUME NEW q \in Qsos \ unstored', Pending(q)'
      PROVE row'[q].dirty \/ (storing' # None /\ storing'.qso = q)
    BY OwedFormNext
  <2>1. CASE q = n
    <3>1. storing' \in [qso : Qsos, row : Rows]
      BY <1>1, <1>3, <1>5 DEF rec, Rows
    <3> QED
      BY <1>1, <2>1, <3>1
  <2>2. CASE q # n
    BY <1>1, <1>7, <2>2, OwedForm DEF Books
  <2> QED
    BY <2>1, <2>2
<1> QED
  BY <1>1, <1>7, <1>8, <1>9, <1>10 DEF Books, OutcomeIsScheduled


\* The writer moves an edit from the queue to the outcomes: their sum, and what is pending, stay.
LEMMA WriterCounts ==
    ASSUME TypeOK, NEW ok \in BOOLEAN, WriterFinishes(ok), NEW q \in Qsos
    PROVE  /\ EditsOf(q, outq') + EditsOf(q, outcomes') = EditsOf(q, outq) + EditsOf(q, outcomes)
           /\ Pending(q)' => Pending(q)
<1> DEFINE p == Head(outq)
           o == [kind |-> p.kind, qso |-> p.qso, ok |-> ok]
<1>1. /\ outq # <<>> /\ outq' = Tail(outq) /\ edits' = edits
      /\ outcomes' = IF Reported(p, ok) THEN Append(outcomes, o) ELSE outcomes
  BY DEF WriterFinishes
<1>2. outq \in Seq(Packets) /\ outcomes \in Seq(Outcomes)
  BY DEF TypeOK
<1>3. p \in Packets
  BY <1>1, <1>2
<1>4. o.kind = p.kind /\ o.qso = p.qso /\ o.ok = ok
  OBVIOUS
<1>5. Reported(p, ok) => o \in Outcomes
  BY <1>3 DEF Packets, Outcomes, Reported
<1> DEFINE e == IF IsEditOf(p, q) THEN 1 ELSE 0
<1>6. IsEditOf(o, q) <=> IsEditOf(p, q)
  BY <1>4 DEF IsEditOf
<1>7. EditsOf(q, outq) = EditsOf(q, outq') + e
  BY <1>1, <1>2, EditsOfTail, Zenon
<1>8. ~Reported(p, ok) => ~IsEditOf(p, q)
  BY DEF Reported, IsEditOf
<1> HIDE DEF p, o
<1>9. EditsOf(q, outcomes') = EditsOf(q, outcomes) + e
  <2>1. CASE Reported(p, ok)
    <3>1. EditsOf(q, Append(outcomes, o)) = EditsOf(q, outcomes) + (IF IsEditOf(o, q) THEN 1 ELSE 0)
      BY <1>2, <1>5, <2>1, EditsOfAppend, Zenon
    <3> QED
      BY <1>1, <1>6, <2>1, <3>1
  <2>2. CASE ~Reported(p, ok)
    <3>1. EditsOf(q, outcomes) \in Nat
      BY <1>2, EditsOfNat
    <3> QED
      BY <1>1, <1>8, <2>2, <3>1
  <2> QED
    BY <2>1, <2>2
<1>10. /\ EditsOf(q, outq) \in Nat /\ EditsOf(q, outq') \in Nat
       /\ EditsOf(q, outcomes) \in Nat /\ e \in Nat
  <2>1. outq' \in Seq(Packets)
    BY <1>1, <1>2
  <2> QED
    BY <1>2, <2>1, EditsOfNat
<1>11. EditsOf(q, outq') + EditsOf(q, outcomes') = EditsOf(q, outq) + EditsOf(q, outcomes)
  <2> HIDE DEF e
  <2> QED
    BY <1>7, <1>9, <1>10
<1>12. FailedNow(q)' => FailedNow(q) \/ EditsOf(q, outq) > 0
  <2> SUFFICES ASSUME FailedNow(q)' PROVE FailedNow(q) \/ EditsOf(q, outq) > 0
    OBVIOUS
  <2>1. PICK i \in DOMAIN outcomes' : outcomes'[i] = [kind |-> "edit", qso |-> q, ok |-> FALSE]
    BY DEF FailedNow
  <2>2. CASE i \in DOMAIN outcomes /\ outcomes'[i] = outcomes[i]
    BY <2>1, <2>2 DEF FailedNow
  <2>3. CASE outcomes'[i] = o
    <3>1. IsEditOf(p, q)
      BY <1>4, <2>1, <2>3 DEF IsEditOf
    <3> QED
      BY <1>7, <1>10, <3>1
  <2>4. \/ i \in DOMAIN outcomes /\ outcomes'[i] = outcomes[i]
        \/ outcomes'[i] = o
    <3>1. CASE Reported(p, ok)
      <4>1. outcomes' = Append(outcomes, o)
        BY <1>1, <3>1
      <4> QED
        BY <1>2, <1>5, <2>1, <3>1, <4>1, AppendPlaces
    <3>2. CASE ~Reported(p, ok)
      BY <1>1, <2>1, <3>2
    <3> QED
      BY <3>1, <3>2
  <2> QED
    BY <2>2, <2>3, <2>4
<1>13. EditsOf(q, outq') > 0 => EditsOf(q, outq) > 0
  BY <1>7, <1>10
<1> QED
  BY <1>1, <1>11, <1>12, <1>13 DEF Pending

\* The writer keeps the books: it reports what it took, and asks for a Settle.
LEMMA BooksWriter == TypeOK /\ LinkInv /\ Books /\ Writer => Books'
<1> SUFFICES ASSUME TypeOK, LinkInv, Books, NEW ok \in BOOLEAN, WriterFinishes(ok) PROVE Books'
  BY DEF Writer
<1>1. UNCHANGED <<row, storing, edits, made, unstored>>
  BY DEF WriterFinishes, bounds
<1>2. \A q \in Qsos :
        /\ EditsOf(q, outq') + EditsOf(q, outcomes') = EditsOf(q, outq) + EditsOf(q, outcomes)
        /\ Pending(q)' => Pending(q)
  BY WriterCounts
<1>3. LedgerExact'
  BY <1>1, <1>2 DEF Books, LedgerExact
<1>4. StoringInv'
  <2>1. storing # None => storing.qso \in Qsos
    BY DEF TypeOK
  <2>2. storing # None => (Pending(storing.qso)' => Pending(storing.qso))
    <3> SUFFICES ASSUME storing # None PROVE Pending(storing.qso)' => Pending(storing.qso)
      OBVIOUS
    <3>1. PICK n \in Qsos : n = storing.qso
      BY <2>1
    <3>2. Pending(n)' => Pending(n)
      BY <1>2
    <3> QED
      BY <1>1, <3>1, <3>2 DEF Pending, FailedNow
  <2> QED
    BY <1>1, <2>2 DEF Books, StoringInv
<1>5. UnloggedInv'
  BY <1>1, <1>2 DEF Books, UnloggedInv, Logged
<1>6. UnwrittenEditIsOwed'
  BY <1>1, <1>2, OwedForm, OwedFormNext DEF Books
<1>7. OutcomeIsScheduled'
  <2>1. links > 0
    BY DEF WriterFinishes, LinkInv
  <2>2. links \in Nat
    BY DEF TypeOK
  <2> QED
    BY <2>1, <2>2 DEF Books, OutcomeIsScheduled, WriterFinishes, FirstOutcome
<1> QED
  BY <1>3, <1>4, <1>5, <1>6, <1>7 DEF Books

\* Settle clears the flag of the edits that are done, none of which is pending.
LEMMA BooksSettle == TypeOK /\ Books /\ (\E b \in BOOLEAN : Settle(b)) => Books'
<1> SUFFICES ASSUME TypeOK, Books, NEW b \in BOOLEAN, Settle(b) PROVE Books'
  OBVIOUS
<1>1. /\ storing = None /\ outcomes' = <<>> /\ edits' = EditsSettled
      /\ row' = IF b THEN Marked ELSE row
      /\ UNCHANGED <<storing, outq, unstored>>
  BY DEF Settle, MainFree, history
<1>2. \A q \in Qsos :
        /\ edits'[q].count = EditsOf(q, outq') + EditsOf(q, outcomes')
        /\ Pending(q)' => Pending(q) /\ q \notin EditsDone
  BY <1>1, SettleCounts DEF Books
<1>3. \A q \in Qsos : row'[q].ver = row[q].ver /\ (row[q].dirty /\ q \notin EditsDone => row'[q].dirty)
  BY <1>1, MarkedKeeps
<1>4. LedgerExact'
  BY <1>2 DEF LedgerExact
<1>5. UnloggedInv'
  BY <1>2, <1>3 DEF Books, UnloggedInv, Logged
<1>6. UnwrittenEditIsOwed'
  BY <1>1, <1>2, <1>3, OwedForm, OwedFormNext DEF Books
<1>7. StoringInv' /\ OutcomeIsScheduled'
  BY <1>1 DEF StoringInv, OutcomeIsScheduled
<1> QED
  BY <1>4, <1>5, <1>6, <1>7 DEF Books

\* What the resend owes of a QSO has one edit if the row is dirty.
LEMMA OwedEdits ==
    ASSUME TypeOK, NEW q \in Qsos
    PROVE  EditsOf(q, OwedPackets(q)) = IF Logged(q) /\ row[q].dirty THEN 1 ELSE 0
<1> DEFINE e == Packet("edit", q, row[q].ver)
           w == Packet("qso", q, row[q].ver)
<1>1. e \in Packets /\ w \in Packets /\ e.kind = "edit" /\ e.qso = q /\ w.kind = "qso"
  BY TypeSteps DEF Packet
<1>2. OwedPackets(q) = IF ~Logged(q) THEN <<>>
                       ELSE (IF row[q].sent THEN <<>> ELSE <<w>>) \o (IF row[q].dirty THEN <<e>> ELSE <<>>)
  BY DEF OwedPackets
<1> HIDE DEF e, w
<1>3. IsEditOf(e, q) /\ ~IsEditOf(w, q)
  BY <1>1 DEF IsEditOf
<1>4. <<>> \in Seq(Packets) /\ <<w>> \in Seq(Packets) /\ <<e>> \in Seq(Packets)
  BY <1>1
<1>5. EditsOf(q, <<w>>) = 0 /\ EditsOf(q, <<e>>) = 1 /\ EditsOf(q, <<>>) = 0
  BY <1>3, EditsOfOne, EditsOfEmpty
<1> DEFINE a == IF row[q].sent THEN <<>> ELSE <<w>>
           c == IF row[q].dirty THEN <<e>> ELSE <<>>
<1>6. a \in Seq(Packets) /\ c \in Seq(Packets) /\ EditsOf(q, a) = 0
      /\ EditsOf(q, c) = IF row[q].dirty THEN 1 ELSE 0
  BY <1>4, <1>5
<1>7. OwedPackets(q) = IF ~Logged(q) THEN <<>> ELSE a \o c
  BY <1>2
<1> HIDE DEF a, c
<1>8. EditsOf(q, a \o c) = EditsOf(q, a) + EditsOf(q, c)
  BY <1>6, EditsOfConcat, Zenon
<1> QED
  BY <1>5, <1>6, <1>7, <1>8

\* The resend posts one edit of a QSO whose row is dirty, of another none.
LEMMA HelloEdits ==
    ASSUME TypeOK, NEW q \in Qsos
    PROVE  EditsOf(q, FlattenSeq(OwedByQso)) = IF Logged(q) /\ row[q].dirty THEN 1 ELSE 0
<1> DEFINE n == EditsOf(q, OwedPackets(q))
<1>1. OwedByQso \in Seq(Seq(Packets)) /\ DOMAIN OwedByQso = Qsos
  BY TypeOwed, PerQso
<1>3. \A r \in Qsos : OwedByQso[r] = OwedPackets(r) /\ OwedPackets(r) \in Seq(Packets)
  BY TypeOwed DEF OwedByQso
<1>4. \A r \in Qsos : r # q => EditsOf(q, OwedPackets(r)) = 0
  <2> SUFFICES ASSUME NEW r \in Qsos, r # q PROVE EditsOf(q, OwedPackets(r)) = 0
    OBVIOUS
  <2>1. \A k \in DOMAIN OwedPackets(r) : ~IsEditOf(OwedPackets(r)[k], q)
    BY OwedOnes DEF IsEditOf
  <2> QED
    BY <1>3, <2>1, EditsOfNat
<1>5. EditsOf(q, FlattenSeq(OwedByQso)) = n
  <2>1. \A r \in DOMAIN OwedByQso : r # q => EditsOf(q, OwedByQso[r]) = 0
    BY <1>1, <1>3, <1>4
  <2>2. q \in DOMAIN OwedByQso
    BY <1>1
  <2>3. EditsOf(q, FlattenSeq(OwedByQso)) = EditsOf(q, OwedByQso[q])
    BY <1>1, <2>1, <2>2, FlattenEdits, Zenon
  <2> QED
    BY <1>3, <2>3, Zenon
<1>6. n = IF Logged(q) /\ row[q].dirty THEN 1 ELSE 0
  BY OwedEdits
<1> QED
  BY <1>5, <1>6

\* After the resend the ledger counts what was queued and what the resend added.
LEMMA HelloCounts ==
    ASSUME TypeOK, LedgerExact, NEW q \in Qsos, ResendOfflineWork, outcomes' = outcomes
    PROVE  /\ edits'[q].count = EditsOf(q, outq') + EditsOf(q, outcomes')
           /\ Pending(q)' => Pending(q) \/ (Logged(q) /\ row[q].dirty)
<1> DEFINE ps == FlattenSeq(OwedByQso)
           n == IF Logged(q) /\ row[q].dirty THEN 1 ELSE 0
<1>2. ps \in Seq(Packets) /\ outq \in Seq(Packets)
  BY TypeOwed, PerQso, FlattenSeqOf DEF TypeOK
<1>5. EditsOf(q, ps) = n
  BY HelloEdits
<1>6. n \in Nat
  OBVIOUS
<1>7. EditsOf(q, outq') = EditsOf(q, outq) + n
  <2>1. outq' = outq \o ps
    BY DEF ResendOfflineWork, OwedByQso
  <2> HIDE DEF ps, n
  <2>2. EditsOf(q, outq \o ps) = EditsOf(q, outq) + EditsOf(q, ps)
    BY <1>2, EditsOfConcat, Zenon
  <2> QED
    BY <1>5, <2>1, <2>2
<1>8. edits'[q].count = edits[q].count + n /\ edits'[q].failed = edits[q].failed
  <2>1. edits'[q] = IF n = 0 THEN edits[q] ELSE EditPosted(edits, q)[q]
    <3>1. EditsOf(q, OwedPackets(q)) = n
      BY OwedEdits
    <3> HIDE DEF n
    <3> QED
      BY <3>1 DEF ResendOfflineWork
  <2>2. edits \in [Qsos -> [count : Nat, failed : BOOLEAN]]
    BY DEF TypeOK
  <2>3. EditPosted(edits, q)[q] = [edits[q] EXCEPT !.count = @ + 1]
    BY <2>2 DEF EditPosted
  <2>4. edits[q] \in [count : Nat, failed : BOOLEAN]
    BY <2>2
  <2> QED
    BY <2>1, <2>3, <2>4
<1>9. EditsOf(q, outq) \in Nat /\ EditsOf(q, outcomes) \in Nat
  BY EditsOfNat DEF TypeOK
<1>10. edits[q].count = EditsOf(q, outq) + EditsOf(q, outcomes)
  BY DEF LedgerExact
<1>12. FailedNow(q)' <=> FailedNow(q)
  BY DEF FailedNow
<1>13. n > 0 => Logged(q) /\ row[q].dirty
  OBVIOUS
<1> HIDE DEF n, ps
<1>11. edits'[q].count = EditsOf(q, outq') + EditsOf(q, outcomes')
  BY <1>6, <1>7, <1>8, <1>9, <1>10
<1> QED
  BY <1>6, <1>7, <1>8, <1>9, <1>11, <1>12, <1>13 DEF Pending

\* The resend adds an edit of dirty rows only, and counts each.
LEMMA BooksHello == TypeOK /\ Books /\ (\E b \in BOOLEAN : ServerHello(b)) => Books'
<1> SUFFICES ASSUME TypeOK, Books, NEW b \in BOOLEAN, ServerHello(b) PROVE Books'
  OBVIOUS
<1>1. storing = None /\ UNCHANGED <<row, storing, outcomes, settleDue, made, unstored>>
  BY DEF ServerHello, MainFree, bounds
<1>2. CASE b = FALSE
  BY <1>1, <1>2, BooksQuiet DEF ServerHello, delivery
<1>3. CASE b = TRUE
  <2>1. \A q \in Qsos :
          /\ edits'[q].count = EditsOf(q, outq') + EditsOf(q, outcomes')
          /\ Pending(q)' => Pending(q) \/ (Logged(q) /\ row[q].dirty)
    BY <1>1, <1>3, HelloCounts DEF ServerHello, Books
  <2>2. LedgerExact'
    BY <2>1 DEF LedgerExact
  <2>3. UnloggedInv'
    BY <1>1, <2>1 DEF Books, UnloggedInv, Logged
  <2>4. UnwrittenEditIsOwed'
    BY <1>1, <2>1, OwedForm, OwedFormNext DEF Books
  <2> QED
    BY <1>1, <2>2, <2>3, <2>4 DEF Books, StoringInv, OutcomeIsScheduled
<1> QED
  BY <1>2, <1>3

\* The restock posts no edits, and its pull writes rows with nothing pending.
LEMMA BooksAnswer == TypeOK /\ Books /\ (\E b \in BOOLEAN : AnswerSync(b)) => Books'
<1> SUFFICES ASSUME TypeOK, Books, NEW b \in BOOLEAN, AnswerSync(b) PROVE Books'
  OBVIOUS
<1> DEFINE ps == FlattenSeq(OfflineByQso)
<1>1. storing = None /\ UNCHANGED <<storing, outcomes, settleDue, edits, made, unstored>>
  BY DEF AnswerSync, MainFree, bounds, delivery
<1>2. ps \in Seq(Packets) /\ outq \in Seq(Packets)
  BY TypeOffline, PerQso, FlattenSeqOf DEF TypeOK
<1>3. outq' = outq \/ outq' = outq \o ps
  BY DEF AnswerSync, OfflineByQso
<1>4. \A q \in Qsos : EditsOf(q, ps) = 0
  <2> SUFFICES ASSUME NEW q \in Qsos PROVE EditsOf(q, ps) = 0
    OBVIOUS
  <2>1. \A i \in DOMAIN ps : ~IsEditOf(ps[i], q)
    BY RestockPosts DEF IsEditOf
  <2> HIDE DEF ps
  <2> QED
    BY <1>2, <2>1, EditsOfNat
<1> HIDE DEF ps
<1>5. \A q \in Qsos : EditsOf(q, outq') = EditsOf(q, outq)
  <2> SUFFICES ASSUME NEW q \in Qsos PROVE EditsOf(q, outq \o ps) = EditsOf(q, outq)
    BY <1>3
  <2>1. EditsOf(q, outq \o ps) = EditsOf(q, outq) + EditsOf(q, ps)
    BY <1>2, EditsOfConcat, Zenon
  <2>2. EditsOf(q, outq) \in Nat
    BY <1>2, EditsOfNat
  <2> QED
    BY <1>4, <2>1, <2>2
<1>6. \A q \in Qsos : Pending(q)' <=> Pending(q)
  BY <1>1, <1>5 DEF Pending, FailedNow
<1>7. LedgerExact'
  BY <1>1, <1>5 DEF Books, LedgerExact
<1>8. \A q \in Qsos : row'[q] = row[q] \/ ~Logged(q)
  <2>1. \A q \in Qsos : q \in ToPull => ~Logged(q)
    BY DEF ToPull
  <2>2. row \in [Qsos -> Rows]
    BY DEF TypeOK
  <2> QED
    BY <2>1, <2>2 DEF AnswerSync
<1>9. UnloggedInv'
  BY <1>6, <1>8 DEF Books, UnloggedInv, Logged
<1>10. UnwrittenEditIsOwed'
  <2> SUFFICES ASSUME NEW q \in Qsos \ unstored', Pending(q)' PROVE row'[q].dirty
    BY OwedFormNext
  <2>1. Pending(q) /\ q \notin unstored
    BY <1>1, <1>6
  <2>2. Logged(q) /\ row[q].dirty
    BY <1>1, <2>1, OwedForm DEF Books, UnloggedInv
  <2> QED
    BY <1>8, <2>2
<1> QED
  BY <1>1, <1>7, <1>9, <1>10 DEF Books, StoringInv, OutcomeIsScheduled

\* A crash leaves nothing pending: queue, ledger and outcomes are gone.
LEMMA BooksCrash == TypeOK /\ Books /\ Crash => Books'
<1> SUFFICES ASSUME TypeOK, Books, Crash PROVE Books'
  OBVIOUS
<1>1. /\ storing' = None /\ outq' = <<>> /\ outcomes' = <<>>
      /\ edits' = [q \in Qsos |-> NoEdits]
  BY DEF Crash
<1>2. \A q \in Qsos : ~Pending(q)'
  BY <1>1, EditsOfEmpty DEF Pending, FailedNow, NoEdits
<1>3. LedgerExact'
  BY <1>1, EditsOfEmpty DEF LedgerExact, NoEdits
<1> QED
  BY <1>1, <1>2, <1>3, OwedFormNext DEF Books, StoringInv, UnloggedInv, OutcomeIsScheduled

\* Every step keeps the books.
LEMMA BooksStep == TypeOK /\ LinkInv /\ MadeInv /\ DialogInv /\ Books /\ [Next]_vars => Books'
<1> SUFFICES ASSUME TypeOK, LinkInv, MadeInv, DialogInv, Books, [Next]_vars PROVE Books'
  OBVIOUS
<1>1. CASE UNCHANGED vars
  BY <1>1, BooksQuiet DEF vars, delivery
<1>2. CASE OpenEditDialog \/ CancelEditDialog
  BY <1>2, BooksQuiet DEF OpenEditDialog, CancelEditDialog, bounds, history
<1>3. CASE DecideOnConnect \/ FetchLog \/ FetchFails \/ ServerReads
  BY <1>3, BooksQuiet DEF DecideOnConnect, FetchLog, FetchFails, ServerReads, bounds, history
<1>4. CASE LinkUp \/ LinkDrops
  BY <1>4, BooksQuiet DEF LinkUp, LinkDrops, bounds
<1>5. CASE Operator
  BY <1>2, <1>5, BooksLogContact, BooksDelete, BooksSave DEF Operator
<1>6. CASE MainThread
  BY <1>3, <1>6, BooksStore, BooksSettle, BooksHello, BooksAnswer DEF MainThread
<1>7. CASE Environment
  BY <1>3, <1>4, <1>7, BooksCrash DEF Environment
<1> QED
  BY <1>1, <1>5, <1>6, <1>7, BooksWriter DEF Next

\* The invariant is inductive.
LEMMA IInvStep == IInv /\ [Next]_vars => IInv'
BY TypeStep, LinkStep, MadeStep, DialogStep, BooksStep DEF IInv, Books

\* The inductive invariant of QsoDelivery: the accounts of the edits, with what they rest on,
\* hold in every state of the program, for any number of QSOs, edits, links and accidents.
THEOREM Inductive == Spec => []IInv
BY TypeInit, IInvStep, PTL DEF Spec

\* TypeOK: every variable keeps its type.
THEOREM TypeCorrect == Spec => []TypeOK
<1>1. IInv => TypeOK
  BY DEF IInv
<1> QED
  BY <1>1, Inductive, PTL

\* EditsAreAccountedFor: between Post, the writer's report and Settle (uNetResend.pas) no edit
\* falls out of the ledger, its row stays dirty, and a Settle is queued to look at it.
THEOREM AccountsCorrect == Spec => []EditsAreAccountedFor
<1>1. IInv => EditsAreAccountedFor
  BY DEF IInv, EditsAreAccountedFor
<1> QED
  BY <1>1, Inductive, PTL
===============================================================================
