--------------------------- MODULE NetProbeCases ---------------------------
(***************************************************************************)
(* The cases of tools/netprobe as scripts of steps. A step that makes a    *)
(* check is one RESULT line of the tool; QSOs have ids no other case uses, *)
(* and the id pair (0, 0) is key 0.                                        *)
(***************************************************************************)
EXTENDS ProbedServer

Burst == 3          \* bound: --burst, QSOs in one write
Whatever == -1
AnyMessage == Msg("", Whatever, Whatever, "")
Unread == << <<Whatever, "">> >>     \* a download that was not got

ARRL == "ARRL-DX-CW"
CQWW == "CQ-WW-CW"
LONGID == "REGION 1 FIELD DAY-RCC-SSB"

(***************************************************************************)
(* Steps.                                                                  *)
(***************************************************************************)
Step(op, p) == [op |-> op, p |-> p]
Select(id, x, y, text) == [id |-> id, x |-> x, y |-> y, text |-> text]

OpenWith(p, msgs) == <<Step("open", p) @@ [msgs |-> <<msgs>>]>>
Opened(p, ordinal) == OpenWith(p, <<Hello(PROTOCOL, ordinal, ARRL)>>)
Joined(p, ordinal, contest) == OpenWith(p, <<Hello(PROTOCOL, ordinal, contest)>>)
Settled(p) == <<Step("settle", p)>>
Sent(p, msgs) == <<Step("send", p) @@ [msgs |-> msgs]>>
Gone(p) == <<Step("close", p)>>
Receives(p, m) == <<Step("take", p) @@ Select(m.id, Whatever, Whatever, "") @@ [want |-> m]>>
Told(p, message, param) ==
    <<Step("take", p) @@ Select("SERVERMESSAGE", message, Whatever, "")
        @@ [want |-> IF param = Whatever THEN AnyMessage ELSE ServerMessage(message, param)]>>
HearsOf(p, ordinal, contest) ==
    <<Step("take", p) @@ Select("HELLO", Whatever, ordinal, "")
        @@ [want |-> Hello(PROTOCOL, ordinal, contest)]>>
Gets(p, id) == <<Step("take", p) @@ Select(id, Whatever, Whatever, "") @@ [want |-> AnyMessage]>>
Never(p, id) == <<Step("none", p) @@ Select(id, Whatever, Whatever, "")>>
NotTold(p, message) == <<Step("none", p) @@ Select("SERVERMESSAGE", message, Whatever, "")>>
HearsNothingOf(p, ordinal, contest) == <<Step("none", p) @@ Select("HELLO", Whatever, ordinal, contest)>>
Drained(p, id, message) == <<Step("drain", p) @@ Select(id, message, Whatever, "")>>
Counts(p, id, message, n, exact) ==
    <<Step("count", p) @@ Select(id, message, Whatever, "") @@ [n |-> n, exact |-> exact]>>
Forgets(p, id, message) == <<Step("forget", p) @@ Select(id, message, Whatever, "")>>
IsAlive(p) == <<Step("ask", p) @@ [msgs |-> <<Intercom>>]>> \o Gets(p, "INTERCOM")
IsClosed(p) == <<Step("closed", p)>>
Has(p, ids) == <<Step("has", p) @@ [ids |-> ids]>>
Only(p, ids) == <<Step("only", p) @@ [ids |-> ids]>>

\* Downloads of the server's log: kept, and compared with the one kept.
Log(keep, check, must, grew, suffix, lacks) ==
    <<Step("log", "") @@ [keep |-> keep, check |-> check, must |-> must,
                          grew |-> grew, suffix |-> suffix, lacks |-> lacks]>>
Before == Log(TRUE, FALSE, FALSE, Whatever, <<>>, {})
Grew(n) == Log(FALSE, TRUE, FALSE, n, <<>>, {})
Appended(n, recs) == Log(TRUE, TRUE, FALSE, n, recs, {})

Keys(log) == [i \in DOMAIN log |-> log[i][1]]
Compare(s, base, log) ==
    /\ s.grew # Whatever => Len(log) - Len(base) = s.grew
    /\ IsSuffix(s.suffix, log)
    /\ s.lacks \cap ToSet(log) = {}
    /\ s.suffix # <<>> => \A i, j \in DOMAIN log : log[i][1] = log[j][1] /\ i # j => log[i][1] = 0

(***************************************************************************)
(* The cases.                                                              *)
(***************************************************************************)
Pair == Opened("A", 1) \o Opened("B", 2) \o Settled("A") \o Settled("B")
QSOs(kind, first) == [i \in 1..Burst |-> Qso(kind, first + i, "K1BST")]
Records(qsos) == [i \in DOMAIN qsos |-> Stored(qsos[i])]

Connect == Opened("A", 1) \o Settled("A") \o Has("A", {"LOGCOMPARE"}) \o IsAlive("A")

SpotCase == Pair \o Sent("A", <<Spot>>) \o Receives("B", Spot) \o IsAlive("A")

QsoCase ==
    LET qso == Qso("QSOINFO", 10, "K1QSO")
    IN Pair \o Before \o Sent("A", <<qso>>)
         \o Receives("B", qso) \o Never("A", "QSOINFO")
         \o Appended(1, <<Stored(qso)>>)

BurstCase ==
    Pair \o Before \o Sent("A", QSOs("QSOINFO", 20))
      \o Counts("B", "QSOINFO", Whatever, Burst, TRUE) \o Grew(Burst)

EditCase ==
    LET original == Qso("QSOINFO", 30, "K1OLD")
        edit == Qso("EDITEDQSO", 30, "K1NEW")
    IN Pair \o Sent("A", <<original>>) \o Drained("B", "QSOINFO", Whatever) \o Settled("B") \o Before
         \o Sent("A", <<edit>>) \o Receives("B", edit) \o Told("A", Updated, Whatever)
         \o Log(FALSE, TRUE, FALSE, 0, <<Stored(edit)>>, {})

\* Mutant: any 8260 will do.
DiscCaseAnyParam == Pair \o Gone("B") \o Told("A", Left, Whatever)
DiscCase == Pair \o Gone("B") \o Told("A", Left, 2)

DupCase ==
    Opened("A", 1) \o Settled("A") \o Opened("C", 1)
      \o Told("C", InUse, Whatever) \o NotTold("A", InUse)
      \o Sent("A", <<Hello(PROTOCOL, 1, ARRL)>>) \o NotTold("A", InUse)
      \o Gone("A") \o Settled("A") \o Opened("D", 1) \o NotTold("D", InUse)

SerialCase ==
    Opened("A", 1) \o Settled("A")
      \o <<Step("note", "A") @@ Select("SERVERMESSAGE", Serial, Whatever, "")>>
      \o Opened("B", 2) \o Told("B", Serial, 0)
      \o Sent("A", <<ServerMessage(Serial, 1)>>) \o Told("B", Serial, 1)

TimeCase ==
    Pair \o Sent("A", <<TimeSync, Intercom>>) \o Gets("B", "INTERCOM") \o Never("B", "TIMESYN")
      \o Drained("A", "INTERCOM", Whatever) \o IsAlive("A")

Refused(p, protocol) ==
    OpenWith(p, <<Hello(protocol, 6, "X")>>) \o Told(p, Mismatch, PROTOCOL) \o IsClosed(p)
OutOfRange(p, ordinal) == OpenWith(p, <<Hello(PROTOCOL, ordinal, "X")>>) \o Told(p, InUse, Whatever)

HelloCase ==
    LET qso == Qso("QSOINFO", 40, "K1HLO")
    IN Joined("A", 1, ARRL) \o HearsOf("A", 0, "") \o IsAlive("A")
         \o Joined("B", 2, LONGID) \o HearsOf("B", 1, ARRL) \o HearsOf("A", 2, LONGID)
         \o HearsNothingOf("B", 2, "")
         \o Sent("A", <<Hello(PROTOCOL, 1, CQWW)>>) \o HearsOf("B", 1, CQWW)
         \o Joined("C", 3, "CQ-WW-SSB") \o HearsOf("C", 1, CQWW) \o HearsOf("C", 2, LONGID)
         \o Sent("A", <<qso>>) \o Receives("B", qso)
         \o OpenWith("V1", <<ComputerId(4)>>) \o IsClosed("V1")
         \o Only("V1", {"LOGCOMPARE", "SERVERMESSAGE"})
         \o OpenWith("Q", <<Qso("QSOINFO", 41, "K1NOH")>>) \o IsClosed("Q") \o Never("A", "QSOINFO")
         \o Refused("P1", 1) \o Refused("P3", 3) \o HearsNothingOf("A", 6, "")
         \o Joined("D", 1, "DUP") \o Told("D", InUse, Whatever) \o HearsNothingOf("B", Whatever, "DUP")
         \o OutOfRange("I0", 0) \o OutOfRange("I27", 27)

ResendCase ==
    LET first == Qso("QSOINFO", 50, "K1RS1")
        again == Qso("OFFLINEQSO", 50, "K1RS1")
        offline == Qso("OFFLINEQSO", 51, "K1RS2")
        anon == Qso("QSOINFO", 0, "K1RS3")
        edit == Qso("EDITEDQSO", 50, "K1RS1X")
        burst == QSOs("QSOINFO", 60)
    IN Pair \o Before
         \o Sent("A", <<first>>) \o Receives("B", first) \o Log(TRUE, TRUE, FALSE, 1, <<>>, {})
         \o Sent("A", <<first>>) \o Never("B", "QSOINFO") \o Grew(0) \o IsAlive("A")
         \o Drained("A", "SERVERMESSAGE", Updated)
         \o Sent("A", <<again>>) \o Told("A", Updated, Whatever) \o Grew(0)
         \o Sent("A", <<offline>>) \o Told("A", Updated, Whatever) \o Grew(1)
         \o Drained("B", "OFFLINEQSO", Whatever) \o Drained("B", "QSOINFO", Whatever) \o Before
         \o Sent("A", <<anon>>) \o Sent("A", <<anon>>)
         \o Counts("B", "QSOINFO", Whatever, 2, FALSE) \o Grew(2) \o Before
         \o Sent("A", <<edit>>) \o Receives("B", edit)
         \o Log(TRUE, TRUE, FALSE, 0, <<>>, {Stored(first)})
         \o Forgets("B", "QSOINFO", Whatever)
         \o Sent("A", burst) \o Counts("B", "QSOINFO", Whatever, Burst, FALSE)
         \o Sent("A", burst) \o Settled("B") \o Counts("B", "QSOINFO", Whatever, Burst, TRUE)
         \o Grew(Burst) \o IsAlive("A") \o IsAlive("B")

CatchupCase ==
    LET ours == QSOs("QSOINFO", 70)
        edit == Qso("EDITEDQSO", 71, "K1CUEDIT")
    IN Opened("A", 1) \o Settled("A")
         \o Sent("A", ours) \o Settled("A")
         \o Opened("C", 3) \o Settled("C")
         \o Log(TRUE, TRUE, TRUE, Whatever, Records(ours), {})
         \o <<Step("announced", "C") @@ Select("LOGCOMPARE", Whatever, Whatever, "")>>
         \o Never("C", "QSOINFO") \o HearsOf("C", 1, ARRL)
         \o Grew(0)
         \o Sent("A", <<edit>>) \o Drained("A", "SERVERMESSAGE", Updated) \o Settled("A")
         \o Log(FALSE, TRUE, FALSE, 0, Records([ours EXCEPT ![1] = edit]), {})
         \o IsAlive("A") \o IsAlive("C")

\* Mutant: the acknowledgements of the first sending are left in the inbox.
RestockRoundRemembers(first) ==
    LET ours == QSOs("OFFLINEQSO", first)
    IN Before \o Sent("A", ours) \o Counts("A", "SERVERMESSAGE", Updated, Burst, TRUE)
         \o Appended(Burst, Records(ours))
         \o Sent("A", ours) \o Counts("A", "SERVERMESSAGE", Updated, Burst, TRUE) \o Grew(0)

RestockRound(first) ==
    LET ours == QSOs("OFFLINEQSO", first)
        quiet == Never("B", "QSOINFO") \o Never("B", "OFFLINEQSO")
    IN Before \o Forgets("A", "SERVERMESSAGE", Updated) \o Forgets("B", "QSOINFO", Whatever)
         \o Forgets("B", "OFFLINEQSO", Whatever)
         \o Sent("A", ours) \o Counts("A", "SERVERMESSAGE", Updated, Burst, TRUE) \o quiet
         \o Appended(Burst, Records(ours))
         \o Forgets("A", "SERVERMESSAGE", Updated)
         \o Sent("A", ours) \o Counts("A", "SERVERMESSAGE", Updated, Burst, TRUE)
         \o Grew(0) \o quiet \o IsAlive("A") \o IsAlive("B")

RestockCase == Pair \o RestockRound(80) \o RestockRound(90)

ScriptOf(case) ==
    CASE case = "connect" -> Connect      [] case = "spot" -> SpotCase
      [] case = "qso" -> QsoCase          [] case = "burst" -> BurstCase
      [] case = "edit" -> EditCase        [] case = "disc" -> DiscCase
      [] case = "dup" -> DupCase          [] case = "serial" -> SerialCase
      [] case = "time" -> TimeCase        [] case = "hello" -> HelloCase
      [] case = "resend" -> ResendCase    [] case = "catchup" -> CatchupCase
      [] case = "restock" -> RestockCase
=============================================================================
