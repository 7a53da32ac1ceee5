---------------------------- MODULE ProbedServer ----------------------------
(***************************************************************************)
(* The multi-op server as the probe of tools/netprobe sees it: what it     *)
(* keeps, and what it sends for each message that reaches it, together     *)
(* with the faulty servers the probe exists to find. A handler runs whole: *)
(* the server parses on one thread.                                        *)
(***************************************************************************)
EXTENDS Integers, Sequences, SequencesExt, FiniteSets, FiniteSetsExt, Functions

CONSTANTS Lockout       \* SERIAL NUMBER LOCKOUT of the server

PROTOCOL == 2
InUse == 8320
Mismatch == 8330
Updated == 8300
Serial == 8310
Left == 8260

\* A message: its id, two numbers and a text, whatever it carries.
Msg(id, x, y, text) == [id |-> id, x |-> x, y |-> y, text |-> text]
Hello(protocol, ordinal, contest) == Msg("HELLO", protocol, ordinal, contest)
ComputerId(ordinal) == Msg("COMPUTERID", 0, ordinal, "")
Qso(kind, key, call) == Msg(kind, key, 0, call)
Intercom == Msg("INTERCOM", 0, 0, "")
TimeSync == Msg("TIMESYN", 0, 0, "")
Spot == Msg("DXSPOT", 0, 0, "K1ABC")
ServerMessage(message, param) == Msg("SERVERMESSAGE", message, param, "")
LogCompare(size) == Msg("LOGCOMPARE", size, 0, "")

NoHello == Hello(0, 0, "")
Stored(m) == <<m.x, m.text>>

\* Server: [peers: connection -> slot, log, next: the serial to give, gone:
\* ids of stations that left, first: the first hello of each id]
NewServer(log) == [peers |-> <<>>, log |-> log, next |-> 7, gone |-> {}, first |-> <<>>]
NewPeer == [ord |-> 0, seen |-> FALSE, hello |-> NoHello, reserved |-> FALSE]

\* What a handler did: the server after it, what it sent to whom, in order,
\* and whether the connection is dropped.
Did(s, sent, drop) == [server |-> s, sent |-> sent, drop |-> drop]
To(ps, m) == FoldSet(LAMBDA p, sent : Append(sent, [to |-> p, m |-> m]), <<>>, ps)
Others(s, c) == DOMAIN s.peers \ {c}

Holds(s, key, fault) ==
    /\ key # 0 \/ fault = "anonymous ids are a key"
    /\ fault # "no duplicate check"
    /\ \E i \in DOMAIN s.log : s.log[i][1] = key

PushSerial(s) ==
    IF Lockout
    THEN To({p \in DOMAIN s.peers : ~s.peers[p].reserved}, ServerMessage(Serial, s.next))
    ELSE <<>>

Admit(s, c) ==
    LET t == [s EXCEPT !.peers = [p \in {c} |-> NewPeer] @@ s.peers]
    IN Did(t, To({c}, LogCompare(Len(s.log))) \o PushSerial(t), FALSE)

Depart(s, c, fault) ==
    LET t == [s EXCEPT !.peers = Restrict(s.peers, Others(s, c)), !.gone = @ \cup {s.peers[c].ord}]
        param == s.peers[c].ord + IF fault = "a letter in 8260" THEN 64 ELSE 0
    IN Did(t, To(DOMAIN t.peers, ServerMessage(Left, param)), TRUE)

SetComputerID(s, c, ordinal, fault) ==
    /\ fault = "takes any id"
       \/ /\ ordinal \in 1..26
          /\ \A p \in Others(s, c) : s.peers[p].ord # ordinal
    /\ fault = "keeps the id of a station that left" => ordinal \notin s.gone

\* AcceptHello: judged, answered, recorded and passed on, in that order.
AcceptHello(s, c, m, fault) ==
    LET first == ~s.peers[c].seen
        told(t, i) == IF fault = "replays the first contest" THEN t.first[t.peers[i].ord] ELSE t.peers[i].hello
        answer == IF first THEN To({c}, Hello(PROTOCOL, 0, "")) ELSE <<>>
        seen == [s EXCEPT !.peers[c].seen = TRUE]
        kept == [seen EXCEPT !.peers[c].ord = m.y, !.peers[c].hello = m,
                             !.first = s.first @@ [o \in {m.y} |-> m]]
        known == {p \in Others(s, c) : s.peers[p].hello # NoHello}
        peers == {p \in Others(s, c) : s.peers[p].seen}
    IN IF m.x # PROTOCOL /\ fault # "speaks any protocol" THEN
              Did(s, IF fault = "drops a protocol in silence" THEN <<>>
                     ELSE To({c}, ServerMessage(Mismatch, PROTOCOL)), TRUE)
       ELSE IF ~SetComputerID(seen, c, m.y, fault) THEN
              Did(seen, answer \o To({c}, ServerMessage(InUse, 0))
                        \o IF fault = "announces a refused station" THEN To(peers, m) ELSE <<>>, FALSE)
       ELSE   Did(kept, answer
                        \o (IF first THEN FoldSet(LAMBDA i, sent : sent \o To({c}, told(kept, i)), <<>>, known)
                            ELSE <<>>)
                        \o To(IF fault = "echoes a hello" THEN peers \cup {c} ELSE peers, m), FALSE)

\* One message of a client that may speak (ProcessClientBuffer's case).
Handle(s, c, m, fault) ==
    LET held == Holds(s, m.x, fault)
        kept == IF fault = "forgets to store" THEN s ELSE [s EXCEPT !.log = Append(@, Stored(m))]
        rewritten == [s EXCEPT !.log = [i \in DOMAIN @ |-> IF @[i][1] = m.x THEN Stored(m) ELSE @[i]]]
        confirm == IF fault = "no confirmation" THEN <<>> ELSE To({c}, ServerMessage(Updated, 0))
        relay == To(Others(s, c), IF fault = "an id of its own" THEN Msg("?", 0, 0, "") ELSE m)
    IN CASE m.id = "HELLO" -> AcceptHello(s, c, m, fault)
         [] m.id = "INTERCOM" -> Did(s, To(DOMAIN s.peers, m), FALSE)
         [] m.id = "DXSPOT" ->
              IF fault = "frames a spot at 98 bytes"
              THEN Did(s, To(Others(s, c), [m EXCEPT !.text = "cut"]), TRUE)
              ELSE Did(s, relay, FALSE)
         [] m.id = "TIMESYN" ->
              Did(s, IF fault = "relays the clock" THEN relay ELSE <<>>, FALSE)
         [] m.id = "EDITEDQSO" ->
              Did(IF fault = "appends an edit" THEN kept ELSE rewritten, relay \o confirm, FALSE)
         [] m.id = "OFFLINEQSO" ->
              Did(IF held THEN s ELSE kept,
                  (IF fault = "relays a restock" THEN relay ELSE <<>>) \o confirm, FALSE)
         [] m.id = "QSOINFO" ->
              IF held THEN Did(s, IF fault = "relays what it holds" THEN relay ELSE <<>>, FALSE)
              ELSE Did(kept, relay \o IF fault = "echoes a QSO" THEN To({c}, m) ELSE <<>>, FALSE)
         [] m.id = "COMPUTERID" ->
              IF SetComputerID(s, c, m.y, fault) THEN Did([s EXCEPT !.peers[c].ord = m.y], <<>>, FALSE)
              ELSE Did(s, To({c}, ServerMessage(InUse, 0)), FALSE)
         [] m.id = "SERVERMESSAGE" /\ Lockout ->
              LET t == [s EXCEPT !.peers[c].reserved = TRUE,
                                 !.next = IF fault = "a reserved serial is given again" THEN @ ELSE @ + 1]
              IN Did(t, PushSerial(t), FALSE)
         [] OTHER -> Did(s, <<>>, FALSE)

MessageAllowedNow(s, c, m, fault) ==
    m.id = "HELLO" \/ s.peers[c].seen \/ fault = "asks for no hello"

\* One read of client c: whole messages, handled in order until the
\* connection is dropped.
Process(s, c, ms, fault) ==
    LET cap == IF fault = "a cap on the messages of a read" THEN 2 ELSE Len(ms)
        read == SubSeq(ms, 1, IF cap < Len(ms) THEN cap ELSE Len(ms))
        step(m, d) ==
            IF d.drop THEN d
            ELSE IF ~MessageAllowedNow(d.server, c, m, fault) THEN [d EXCEPT !.drop = TRUE]
            ELSE IF m.id = "TIMESYN" /\ fault = "frames a time sync wrongly" THEN [d EXCEPT !.drop = TRUE]
            ELSE LET e == Handle(d.server, c, m, fault)
                 IN Did(e.server, d.sent \o e.sent, e.drop)
    IN FoldLeft(LAMBDA d, m : step(m, d), Did(s, <<>>, FALSE), read)
=============================================================================
