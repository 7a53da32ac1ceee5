----------------------------- MODULE QsoDelivery -----------------------------
(***************************************************************************)
(* How one station's QSOs and edits reach the multi-op server: the two     *)
(* flags of a log row (sent_to_server, server_dirty), the ledger of edit   *)
(* packets in flight (TNetDelivery, uNetResend.pas), the resend after a    *)
(* link-up (ResendOfflineWork) and the restock from the server's log       *)
(* (uGetServerLog.pas), with link losses and accidents of the program.     *)
(*                                                                         *)
(* The main thread runs one handler at a time; the writer thread, the      *)
(* fetch thread, the link and the server interleave with it.  A QSO's      *)
(* content is a version number: 1 as logged, one more for every edit.      *)
(* The send queue is the PacketOutbox that NetSendQueue implements, with   *)
(* the write and the report of its outcome in one step: between the two    *)
(* nobody could tell the difference, the outcome waits for Settle.  Of the *)
(* other stations only what the server's log keeps of this one's QSOs is   *)
(* here.                                                                   *)
(***************************************************************************)
EXTENDS Naturals, Sequences, FiniteSets, SequencesExt

CONSTANTS
    NumQsos,        \* QSOs are logged in the order 1, 2, ..., as their rows are stored
    MaxVersion,     \* edits are bounded
    MaxLinks,       \* links are bounded; nothing fails on the last one
    MaxAccidents,   \* crashes and rows the log refuses are bounded
    None

ASSUME BoundsAssumption ==
    NumQsos \in Nat /\ MaxVersion \in Nat \ {0} /\ MaxLinks \in Nat /\ MaxAccidents \in Nat

VARIABLES
    row,        \* the station's log: version (0 not logged) and the two flags
    storing,    \* a handler that has posted a packet and not yet stored its row
    dialog,     \* the record the modal edit dialog was opened on
    link,       \* "down", "up", "ready" (the server's HELLO has been handled)
    resent,     \* GResentKeys, and as what the resend posted a QSO on this link
    outq,       \* packets posted and not yet written
    outcomes,   \* FOutcomes: reported by the writer and not yet settled
    settleDue,  \* a Settle is queued to the main thread: the link it was queued on, or 0
    edits,      \* FEdits: per QSO, edit packets in flight and whether one failed
    wire,       \* packets written and not yet read by the server
    server,     \* the server's log: per QSO, how many records and the newest's version
    sync,       \* the catch-up: "idle", "fetching", "fetched", or what the operator is asked
    image,      \* the fetched server log: per QSO its version, 0 if absent
    made,       \* QSO identities handed out (NextQsoSequence)
    links, accidents,
    written,    \* history: packets that went to the socket
    lostEdits,  \* history: QSOs an edit of which was written but never read
    leftOut,    \* history: QSOs the restock of this link leaves to nobody
    raced,      \* history: QSOs edited with no link while an earlier edit was not settled
    unstored    \* history: QSOs whose packet was posted and whose row was not stored

delivery == <<outcomes, settleDue, edits>>
bounds == <<made, links, accidents>>
history == <<written, lostEdits, leftOut, raced, unstored>>
vars == <<row, storing, dialog, link, resent, outq, outcomes, settleDue, edits, wire,
          server, sync, image, made, links, accidents, written, lostEdits, leftOut, raced,
          unstored>>

Qsos == 1 .. NumQsos
Versions == 0 .. MaxVersion
Rows == [ver : Versions, sent : BOOLEAN, dirty : BOOLEAN]
ASSUME NoneAssumption == None \notin [qso : Qsos, row : Rows]

Packets == [kind : {"qso", "edit", "offline"}, qso : Qsos, ver : Versions]
Outcomes == {o \in [kind : {"qso", "edit", "offline"}, qso : Qsos, ok : BOOLEAN] :
                o.kind = "offline" => ~o.ok}
NotLogged == [ver |-> 0, sent |-> FALSE, dirty |-> FALSE]
NoEdits == [count |-> 0, failed |-> FALSE]
NoImage == [q \in Qsos |-> 0]

Questions == {"pull", "push", "both"}

Logged(q) == row[q].ver > 0
Connected == link # "down"
Packet(k, q, v) == [kind |-> k, qso |-> q, ver |-> v]
EditsOf(q, s) == Cardinality({i \in DOMAIN s : s[i].kind = "edit" /\ s[i].qso = q})

\* The main thread takes the next handler; a user's action also needs the modal dialog closed.
MainFree == storing = None
UserFree == MainFree /\ dialog = None /\ sync \notin Questions

Init ==
    /\ row = [q \in Qsos |-> NotLogged]
    /\ storing = None
    /\ dialog = None
    /\ link = "down"
    /\ resent = [q \in Qsos |-> "no"]
    /\ outq = <<>>
    /\ outcomes = <<>>
    /\ settleDue = 0
    /\ edits = [q \in Qsos |-> NoEdits]
    /\ wire = <<>>
    /\ server = [q \in Qsos |-> [copies |-> 0, ver |-> 0]]
    /\ sync = "idle"
    /\ image = NoImage
    /\ made = 0
    /\ links = 0
    /\ accidents = 0
    /\ written = {}
    /\ lostEdits = {}
    /\ leftOut = {}
    /\ raced = {}
    /\ unstored = {}

---------------------------------------------------------------------------
(***************************************************************************)
(* Mutated forms of definitions below; no definition uses them.            *)
(***************************************************************************)

\* The ledger notes that an edit is in flight, not how many.
Bug_NoteOnce(ledger, q) ==
    IF ledger[q].count = 0 THEN [ledger EXCEPT ![q].count = 1] ELSE ledger

\* An edit is done when its last packet is done with; state.Failed is not asked.
Bug_DoneWhateverBecame ==
    {q \in Qsos : EditsOf(q, outcomes) > 0 /\ edits[q].count <= EditsOf(q, outcomes)}

\* The resend collects the QSOs never sent and forgets the edited ones.
Bug_EditsNotResent(q) ==
    IF ~Logged(q) \/ row[q].sent THEN <<>> ELSE <<Packet("qso", q, row[q].ver)>>

\* The server stores what it is sent, without asking whether it holds it.
Bug_NeverHeld(q) == FALSE

---------------------------------------------------------------------------
\* TNetDelivery.EditPosted.
EditPosted(ledger, q) == [ledger EXCEPT ![q].count = @ + 1]

\* PostQsoPacket: with no link nothing is posted; an edit that was posted is counted.
PostQso(q, v) ==
    /\ outq' = IF Connected THEN Append(outq, Packet("qso", q, v)) ELSE outq
    /\ UNCHANGED edits

PostEdit(q, v) ==
    IF Connected
    THEN /\ outq' = Append(outq, Packet("edit", q, v))
         /\ edits' = EditPosted(edits, q)
    ELSE UNCHANGED <<outq, edits>>

\* Edits are bounded; one made with no link while another is in flight is noted.
EditOf(q) ==
    /\ row[q].ver < MaxVersion
    /\ raced' = IF ~Connected /\ edits[q].count > 0 THEN raced \cup {q} ELSE raced

\* LogContact: the packet is posted first, then the row is stored, unsent.
LogContact ==
    /\ UserFree
    /\ made < NumQsos
    /\ made' = made + 1
    /\ LET q == made + 1 IN
        /\ PostQso(q, 1)
        /\ storing' = [qso |-> q, row |-> [ver |-> 1, sent |-> FALSE, dirty |-> FALSE]]
    /\ UNCHANGED <<row, dialog, link, resent, outcomes, settleDue, wire, server, sync, image,
                   links, accidents, history>>

\* ... tAddQSOToLog, LogStoreUpdateQSOAtIndex: the whole row is written, or the log
\* refuses it (another connection holds the lock) and the operator is told.
StoreRow(stored) ==
    /\ storing # None
    /\ stored \/ accidents < MaxAccidents
    /\ row' = IF stored THEN [row EXCEPT ![storing.qso] = storing.row] ELSE row
    /\ storing' = None
    /\ leftOut' = IF stored /\ row[storing.qso].sent /\ ~storing.row.sent
                  THEN leftOut \cup {storing.qso} ELSE leftOut
    /\ unstored' = IF stored THEN unstored ELSE unstored \cup {storing.qso}
    /\ accidents' = IF stored THEN accidents ELSE accidents + 1
    /\ UNCHANGED <<dialog, link, resent, outq, delivery, wire, server, sync, image,
                   made, links, written, lostEdits, raced>>

\* The newest QSO is deleted or restored: the row is stored dirty (or refused), then the
\* edit posted.
DeleteLastContact(stored) ==
    /\ UserFree
    /\ stored \/ accidents < MaxAccidents
    /\ accidents' = IF stored THEN accidents ELSE accidents + 1
    /\ \E q \in Qsos :
        /\ Logged(q)
        /\ \A r \in Qsos : Logged(r) => r <= q
        /\ EditOf(q)
        /\ row' = IF stored THEN [row EXCEPT ![q].ver = @ + 1, ![q].dirty = TRUE] ELSE row
        /\ unstored' = IF stored THEN unstored ELSE unstored \cup {q}
        /\ PostEdit(q, row[q].ver + 1)
    /\ UNCHANGED <<storing, dialog, link, resent, outcomes, settleDue, wire, server, sync,
                   image, made, links, written, lostEdits, leftOut>>

\* The edit dialog reads the whole record when it opens ...
OpenEditDialog ==
    /\ UserFree
    /\ \E q \in Qsos : Logged(q) /\ dialog' = [qso |-> q, row |-> row[q]]
    /\ UNCHANGED <<row, storing, link, resent, outq, delivery, wire, server, sync, image,
                   bounds, history>>

\* ... and saves that record, edited and dirty: posted first, then stored.
SaveEditDialog ==
    /\ MainFree /\ dialog # None /\ sync \notin Questions
    /\ LET q == dialog.qso
           rec == [dialog.row EXCEPT !.ver = @ + 1, !.dirty = TRUE]
       IN /\ EditOf(q)
          /\ PostEdit(q, rec.ver)
          /\ storing' = [qso |-> q, row |-> rec]
    /\ dialog' = None
    /\ UNCHANGED <<row, link, resent, outcomes, settleDue, wire, server, sync, image,
                   bounds, written, lostEdits, leftOut, unstored>>

CancelEditDialog ==
    /\ MainFree /\ dialog # None
    /\ dialog' = None
    /\ UNCHANGED <<row, storing, link, resent, outq, delivery, wire, server, sync, image,
                   bounds, history>>

---------------------------------------------------------------------------
\* The writer thread: WriteToSocket, then OnWritten or OnLost (ReportPacketOutcome).  The
\* restock's packets carry no tag and are reported only when the write failed.  With no link
\* every write fails.
Reported(p, ok) == p.kind = "offline" => ~ok
FirstOutcome == outcomes = <<>>
WriterFinishes(ok) ==
    /\ outq # <<>>
    /\ ok => Connected
    /\ ok \/ ~Connected \/ links < MaxLinks
    /\ LET p == Head(outq)
       IN /\ wire' = IF ok THEN Append(wire, p) ELSE wire
          /\ written' = IF ok THEN written \cup {p} ELSE written
          /\ IF Reported(p, ok)
             THEN /\ outcomes' = Append(outcomes, [kind |-> p.kind, qso |-> p.qso, ok |-> ok])
                  /\ settleDue' = IF FirstOutcome THEN links ELSE settleDue
             ELSE UNCHANGED <<outcomes, settleDue>>
    /\ outq' = Tail(outq)
    /\ UNCHANGED <<row, storing, dialog, link, resent, edits, server, sync, image, bounds,
                   lostEdits, leftOut, raced, unstored>>

\* TNetDelivery.Settle: what the outcomes taken say.
Sent == {q \in Qsos : \E i \in DOMAIN outcomes :
            outcomes[i] = [kind |-> "qso", qso |-> q, ok |-> TRUE]}
FailedNow(q) == \E i \in DOMAIN outcomes :
            outcomes[i] = [kind |-> "edit", qso |-> q, ok |-> FALSE]
EditsSettled == [q \in Qsos |->
    LET n == EditsOf(q, outcomes)
    IN  IF n = 0 THEN edits[q]
        ELSE IF edits[q].count <= n THEN NoEdits     \* the last one: its entry is deleted
        ELSE [count |-> edits[q].count - n, failed |-> edits[q].failed \/ FailedNow(q)]]
EditsDone == {q \in Qsos :
    /\ EditsOf(q, outcomes) > 0
    /\ edits[q].count <= EditsOf(q, outcomes)
    /\ ~edits[q].failed /\ ~FailedNow(q)}

\* MarkServerProgress: the flags and nothing beside them, of rows that are in the log.
Marked == [q \in Qsos |->
    [row[q] EXCEPT !.sent = @ \/ (q \in Sent /\ Logged(q)),
                   !.dirty = @ /\ q \notin EditsDone]]

\* SettleServerProgress; the log may refuse the write, the outcomes are gone all the same.
Settle(stored) ==
    /\ MainFree
    /\ settleDue # 0
    /\ stored \/ links < MaxLinks
    /\ settleDue' = 0
    /\ outcomes' = <<>>
    /\ edits' = EditsSettled
    /\ row' = IF stored THEN Marked ELSE row
    /\ UNCHANGED <<storing, dialog, link, resent, outq, wire, server, sync, image, bounds,
                   history>>

---------------------------------------------------------------------------
\* The connect thread: Connect first lets the old link's queue fail, then the link is up
\* and a new session begins.
LinkUp ==
    /\ link = "down"
    /\ outq = <<>>
    /\ links < MaxLinks
    /\ links' = links + 1
    /\ link' = "up"
    /\ resent' = [q \in Qsos |-> "no"]
    /\ leftOut' = {}
    /\ UNCHANGED <<row, storing, dialog, outq, delivery, wire, server, sync, image, made,
                   accidents, written, lostEdits, raced, unstored>>

\* The link is lost and with it what the server has not read.
WireEdits == {wire[i].qso : i \in {j \in DOMAIN wire : wire[j].kind = "edit"}}
LinkDrops ==
    /\ Connected
    /\ links < MaxLinks
    /\ link' = "down"
    /\ wire' = <<>>
    /\ lostEdits' = lostEdits \cup WireEdits
    /\ UNCHANGED <<row, storing, dialog, resent, outq, delivery, server, sync, image, bounds,
                   written, leftOut, raced, unstored>>

\* ResendOfflineWork: every row that owes something, in log order; the QSO whole, and the edit.
Owing(q) == Logged(q) /\ (~row[q].sent \/ row[q].dirty)
OwedPackets(q) ==
    IF ~Logged(q) THEN <<>>
    ELSE (IF row[q].sent THEN <<>> ELSE <<Packet("qso", q, row[q].ver)>>)
         \o (IF row[q].dirty THEN <<Packet("edit", q, row[q].ver)>> ELSE <<>>)
ResendOfflineWork ==
    /\ outq' = outq \o FlattenSeq([q \in Qsos |-> OwedPackets(q)])
    /\ edits' = [q \in Qsos |-> IF EditsOf(q, OwedPackets(q)) = 0 THEN edits[q]
                                ELSE EditPosted(edits, q)[q]]
    /\ resent' = [q \in Qsos |-> IF ~Owing(q) THEN "no" ELSE IF row[q].sent THEN "edit" ELSE "whole"]

\* The drain that handles the server's HELLO ends with NetServiceResend, which may fail to
\* read the log, and NetServiceCatchUp, which starts a fetch unless one is under way.  It
\* runs after the Settle that was queued before the link came up.
ServerHello(readable) ==
    /\ MainFree
    /\ link = "up"
    /\ settleDue \in {0, links}
    /\ readable \/ links < MaxLinks
    /\ link' = "ready"
    /\ IF readable THEN ResendOfflineWork ELSE UNCHANGED <<outq, edits, resent>>
    /\ sync' = IF sync = "idle" THEN "fetching" ELSE sync
    /\ leftOut' = IF sync = "idle" THEN leftOut ELSE Qsos
    /\ UNCHANGED <<row, storing, dialog, outcomes, settleDue, wire, server, image, bounds,
                   written, lostEdits, raced, unstored>>

\* The server reads a packet: a QSO it holds is not stored again, an edit of one it does
\* not hold changes nothing.
ServerHolds(q) == server[q].copies > 0
ServerReads ==
    /\ wire # <<>>
    /\ LET p == Head(wire)
           held == ServerHolds(p.qso)
       IN server' = IF p.kind = "edit"
                    THEN IF held THEN [server EXCEPT ![p.qso].ver = p.ver] ELSE server
                    ELSE IF held THEN server
                    ELSE [server EXCEPT ![p.qso] = [copies |-> @.copies + 1, ver |-> p.ver]]
    /\ wire' = Tail(wire)
    /\ UNCHANGED <<row, storing, dialog, link, resent, outq, delivery, sync, image, bounds,
                   history>>

---------------------------------------------------------------------------
\* The fetch thread, on its own connection: the server's log as it is now, or a failure.
FetchLog ==
    /\ sync = "fetching"
    /\ sync' = "fetched"
    /\ image' = [q \in Qsos |-> server[q].ver]
    /\ UNCHANGED <<row, storing, dialog, link, resent, outq, delivery, wire, server, bounds,
                   history>>

FetchFails ==
    /\ sync = "fetching"
    /\ ~Connected \/ links < MaxLinks \/ leftOut = Qsos
    /\ sync' = "idle"
    /\ UNCHANGED <<row, storing, dialog, link, resent, outq, delivery, wire, server, image,
                   bounds, history>>

\* MakePlan, MakePushPlan: what the image has and the log lacks, and the rows marked sent
\* that the image lacks, except those the resend posted on this link.
ToPull == {q \in Qsos : ~Logged(q) /\ image[q] > 0}
ToPush == {q \in Qsos : Logged(q) /\ ~Owing(q) /\ resent[q] = "no" /\ image[q] = 0}

\* A QSO marked sent that the server lacks, left to the resend, which sends an edit alone.
LeftOut == {q \in Qsos : image[q] = 0 /\ row[q].sent /\ (row[q].dirty \/ resent[q] = "edit")}

\* DecideOnConnect: a push is offered only on a usable link; nothing to do, or a question.
DecideOnConnect ==
    /\ MainFree
    /\ sync = "fetched"
    /\ LET push == ToPush # {} /\ link = "ready"
       IN sync' = IF ToPull # {} THEN (IF push THEN "both" ELSE "pull")
                  ELSE IF push THEN "push" ELSE "idle"
    /\ image' = IF sync' = "idle" THEN NoImage ELSE image
    /\ leftOut' = leftOut \cup LeftOut
    /\ UNCHANGED <<row, storing, dialog, link, resent, outq, delivery, wire, server, bounds,
                   written, lostEdits, raced, unstored>>

\* The answer.  SendLogToServer posts OFFLINEQSOs if the link is still usable, then
\* AddServerLogToLog appends what the log lacks, sent and clean; both plan again.
AnswerSync(yes) ==
    /\ MainFree
    /\ sync \in Questions
    /\ yes \/ links < MaxLinks
    /\ outq' = IF yes /\ sync \in {"push", "both"} /\ link = "ready"
               THEN outq \o FlattenSeq([q \in Qsos |->
                        IF q \in ToPush THEN <<Packet("offline", q, row[q].ver)>> ELSE <<>>])
               ELSE outq
    /\ row' = IF yes /\ sync \in {"pull", "both"}
              THEN [q \in Qsos |-> IF q \in ToPull
                                   THEN [ver |-> image[q], sent |-> TRUE, dirty |-> FALSE]
                                   ELSE row[q]]
              ELSE row
    /\ sync' = "idle"
    /\ image' = NoImage
    /\ leftOut' = leftOut \cup LeftOut
    /\ UNCHANGED <<storing, dialog, link, resent, delivery, wire, server, bounds, written,
                   lostEdits, raced, unstored>>

\* The program dies and is started again: the log is all it keeps.
Crash ==
    /\ accidents < MaxAccidents
    /\ links < MaxLinks
    /\ accidents' = accidents + 1
    /\ storing' = None
    /\ dialog' = None
    /\ link' = "down"
    /\ outq' = <<>>
    /\ outcomes' = <<>>
    /\ settleDue' = 0
    /\ edits' = [q \in Qsos |-> NoEdits]
    /\ sync' = "idle"
    /\ image' = NoImage
    /\ wire' = <<>>
    /\ lostEdits' = lostEdits \cup WireEdits
    /\ unstored' = IF storing = None THEN unstored ELSE unstored \cup {storing.qso}
    /\ UNCHANGED <<row, resent, server, made, links, written, leftOut, raced>>

---------------------------------------------------------------------------
Operator ==
    \/ LogContact
    \/ \E b \in BOOLEAN : DeleteLastContact(b)
    \/ OpenEditDialog \/ SaveEditDialog \/ CancelEditDialog
MainThread ==
    \/ \E b \in BOOLEAN : StoreRow(b) \/ Settle(b) \/ ServerHello(b) \/ AnswerSync(b)
    \/ DecideOnConnect
Writer == \E ok \in BOOLEAN : WriterFinishes(ok)
Environment == LinkUp \/ LinkDrops \/ ServerReads \/ FetchLog \/ FetchFails \/ Crash

Next == Operator \/ MainThread \/ Writer \/ Environment

Spec == Init /\ [][Next]_vars

(***************************************************************************)
(* Fairness: the main thread runs its queue, the writer writes (and a      *)
(* write on a link that stays up succeeds), the log can be written, the    *)
(* retry timer brings the link back, the server answers and reads, a fetch *)
(* ends.  The operator owes nothing, except an answer to a question and    *)
(* that a dialog is closed.                                                *)
(***************************************************************************)
Fairness ==
    /\ WF_vars(StoreRow(TRUE)) /\ WF_vars(CancelEditDialog)
    /\ WF_vars(Settle(TRUE)) /\ WF_vars(ServerHello(TRUE))
    /\ WF_vars(DecideOnConnect) /\ WF_vars(AnswerSync(TRUE))
    /\ WF_vars(WriterFinishes(Connected))
    /\ WF_vars(LinkUp) /\ WF_vars(ServerReads) /\ WF_vars(FetchLog)

FairSpec == Spec /\ Fairness
---------------------------------------------------------------------------
\* Every variable has its type.  (State of uNet, uNetResend, uGetServerLog and the log.)
TypeOK ==
    /\ row \in [Qsos -> Rows]
    /\ storing \in [qso : Qsos, row : Rows] \cup {None}
    /\ dialog \in [qso : Qsos, row : Rows] \cup {None}
    /\ link \in {"down", "up", "ready"}
    /\ resent \in [Qsos -> {"no", "whole", "edit"}]
    /\ outq \in Seq(Packets)
    /\ outcomes \in Seq(Outcomes)
    /\ settleDue \in 0 .. MaxLinks
    /\ edits \in [Qsos -> [count : Nat, failed : BOOLEAN]]
    /\ wire \in Seq(Packets)
    /\ server \in [Qsos -> [copies : Nat, ver : Versions]]
    /\ sync \in {"idle", "fetching", "fetched"} \cup Questions
    /\ image \in [Qsos -> Versions]
    /\ made \in 0 .. NumQsos /\ links \in 0 .. MaxLinks /\ accidents \in 0 .. MaxAccidents
    /\ written \subseteq Packets
    /\ lostEdits \subseteq Qsos /\ leftOut \subseteq Qsos
    /\ raced \subseteq Qsos /\ unstored \subseteq Qsos

\* A row says "sent" only when a packet with the whole QSO went to the socket, whatever
\* links were lost, stores refused or accidents survived in between ("A QSO counts as SENT
\* when the writer thread has handed its bytes to the socket", uNetResend.pas:44-45).
SentMeansWritten ==
    \A q \in Qsos : row[q].sent => \E p \in written : p.kind = "qso" /\ p.qso = q

\* The ledger counts exactly the edit packets whose outcome is not settled: queued, or
\* written and waiting for Settle.  (Were it short, a settle would clear a flag early.)
LedgerExact == \A q \in Qsos : edits[q].count = EditsOf(q, outq) + EditsOf(q, outcomes)

\* An edit that is still queued, or one of whose packets failed, keeps its row dirty: an
\* earlier edit's success never clears the need of a later one (uNetResend.pas:51-54).
\* Excused is an edit whose own row the log refused or a crash cut off.
UnwrittenEditIsOwed ==
    \A q \in Qsos \ unstored :
        EditsOf(q, outq) > 0 \/ edits[q].failed \/ FailedNow(q)
            => row[q].dirty \/ (storing # None /\ storing.qso = q)

\* A row that owes the server nothing has had the very version it holds written to the
\* socket: no edit is lost between the dialog, the ledger, the resend and a restart.
\* Excused are the race EditsSurviveTheRace is about and a QSO with an edit the log refused:
\* that edit's outcome clears the flag of the older row which stayed.
CleanMeansWritten ==
    \A q \in Qsos \ (raced \cup unstored) : Logged(q) /\ ~Owing(q) =>
        \E p \in written : p.qso = q /\ p.ver = row[q].ver

\* What a row's flags say is true: FlagsTellTheTruth is the promise uNetResend makes with
\* sent_to_server and the dirty flag, over links lost, refused stores and restarts.
FlagsTellTheTruth == SentMeansWritten /\ CleanMeansWritten

\* The same with nothing excused: with no link, an edited row stays dirty until the edit
\* goes ("With no link the row simply stays dirty and goes when one comes",
\* logsubs2.pas:681-682).
EditsSurviveTheRace ==
    \A q \in Qsos : Logged(q) /\ ~Owing(q) =>
        \E p \in written : p.qso = q /\ p.ver = row[q].ver

\* No outcome waits for ever: while one is unsettled a Settle is queued, although Report
\* asks for one only when it finds the list empty.
OutcomeIsScheduled == outcomes # <<>> => settleDue # 0

\* No edit falls out of the books between Post, the writer's report and Settle: it is
\* counted while it is under way, its row is dirty, and its outcome will be looked at.
EditsAreAccountedFor == LedgerExact /\ UnwrittenEditIsOwed /\ OutcomeIsScheduled

\* However often links are lost and packets sent twice, the server never holds a QSO twice
\* and never goes back to an older version of one.  Excused is an edit the server had and
\* the station's own log did not keep: the older row is still owed and overwrites it.
ServerMovesForward ==
    [][\A q \in Qsos :
        /\ server'[q].copies <= 1
        /\ q \notin unstored => server'[q].ver >= server[q].ver]_vars

\* On a link that stays, everything the log holds arrives.  (A flag may stay set: an edit
\* made before the failure of an older one is settled counts as failed with it, and goes
\* once more on a later link.)  Excused are, besides an unstored or raced edit: one written
\* to a socket and never read, which nothing repeats; a QSO lacking at the server that the
\* restock leaves out because its row is marked sent and an edit of it is owed, or because
\* an earlier fetch was still under way; and one a stale edit dialog
\* marked unsent during this link.
LastLink == <>[](links = MaxLinks)
EverythingArrives ==
    LastLink => <>[](\A q \in Qsos : Logged(q) =>
        /\ q \notin leftOut => row[q].sent /\ server[q].copies = 1
        /\ server[q].copies = 1 /\ q \notin lostEdits \cup raced \cup unstored
            => server[q].ver = row[q].ver)
=============================================================================
