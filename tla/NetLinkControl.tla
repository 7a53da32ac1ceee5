---------------------------- MODULE NetLinkControl ----------------------------
(***************************************************************************)
(* A station's multi-op link as a state machine (uNet.pas, uNetClient.pas,  *)
(* uNetLink.pas): who wants it, who builds it, who loses it, and the two    *)
(* refusals that stop the retrying.                                         *)
(*                                                                         *)
(* Four threads share it without a lock.  The main thread runs the menu     *)
(* commands, the retry timer and what the others queued for it, in the      *)
(* order they queued it.  A connect thread exists while an attempt is being *)
(* made.  The client's reader hands in what the server sends and notices    *)
(* that the link is gone; the writer sends what was posted, in order        *)
(* (NetSendQueue; here a post is a write).  At the other end is a server of *)
(* this protocol, of another one, of the time before HELLO, or none.        *)
(***************************************************************************)
EXTENDS Naturals, Sequences, FiniteSets, SequencesExt

CONSTANTS
    Ids,            \* computer ids the operator may give this station
    OwnId,          \* the one it starts with
    None,           \* no id; on the wire, a message that is not a HELLO
    MaxMoves,       \* bound: the operator's acts, what the main thread sends on its own
                    \* account, links lost, attempts failed, server changes, in all
    MaxBehind       \* bound: what may wait in the main thread's queue when the timer ticks

ASSUME ConstantsAssumption ==
    /\ None \notin Ids \cup {"hello", "mismatch"}
    /\ Ids \cap {"hello", "mismatch"} = {} /\ OwnId \in Ids
    /\ MaxMoves \in Nat /\ MaxBehind \in Nat

VARIABLES
    wanted,     \* GLinkWanted; the retry timer runs while it is set
    attempt,    \* where the connect thread is (NetThreadID: "none" when there is none)
    client,     \* TNetClient: FConnected, FStopping, its reader
    conn,       \* the connection: what the server has not read, what the reader has not,
                \* and its history
    mainq,      \* Application.QueueAsyncCall
    pending,    \* GNetPending, in whole messages
    session,    \* what NetBeginLinkSession resets, and the age of FHelloSentTick
    refused,    \* FServerRefusedFor names this server; FRefusedComputerID
    myId,       \* Settings.Computer.Id
    server,     \* the kind of server that answers at the address
    held,       \* ids other stations hold on it
    moves,      \* what is left of MaxMoves
    past        \* history

vars == <<wanted, attempt, client, conn, mainq, pending, session, refused, myId,
          server, held, moves, past>>

Kinds == {"same", "other", "older", "down"}
Attempts == {"none", "starting", "dialling", "reader", "session", "hello", "look", "ending"}
Unannounced == {"reader", "session", "hello"}      \* a link, and no HELLO of it yet
Clients == [up : BOOLEAN, stopping : BOOLEAN, reader : {"none", "reading", "ending"}]
FromServer == {"hello", "mismatch"} \cup Ids       \* an id: COMPUTERID_IN_USE for it
FromStation == Ids \cup {None}                     \* an id: HELLO with it
Open == {"fresh", "joined"}                        \* before and after the first message
Closed == {"lost", "refused", "older"}             \* and by what

\* History of a connection: the main thread posted before the HELLO; the server's HELLO
\* reached the reader; resends on it.
Conns == [state : {"none"} \cup Open \cup Closed, in : Seq(FromStation), out : Seq(FromServer),
          early : BOOLEAN, answered : BOOLEAN, resends : 0 .. 2]
Sessions == [helloSeen : BOOLEAN, helloRecent : BOOLEAN, resendDue : BOOLEAN, resent : BOOLEAN]
Refusals == [server : BOOLEAN, id : Ids \cup {None}]

\* Reports of a link were still to come when the main thread took it down or the next attempt
\* began; Disconnect came between the thread's look at the wish and its end; what the server
\* was latched for; refusals the operator was told of since he last acted, and whether there
\* was more to tell of than one HELLO on one link.
Pasts == [stale : BOOLEAN, missed : BOOLEAN, told : 0 .. 2, muddled : BOOLEAN,
          latchedFor : {"nothing", "mismatch", "older", "stale", "early", "lost", "no reason"}]

TypeOK ==
    /\ wanted \in BOOLEAN /\ attempt \in Attempts /\ client \in Clients /\ conn \in Conns
    /\ mainq \in Seq({"drain", "dropped", "announce"}) /\ pending \in Seq(FromServer)
    /\ session \in Sessions /\ refused \in Refusals
    /\ myId \in Ids /\ server \in Kinds /\ held \in SUBSET Ids
    /\ moves \in 0 .. MaxMoves /\ past \in Pasts

Down == [up |-> FALSE, stopping |-> TRUE, reader |-> "none"]
NoConn == [state |-> "none", in |-> <<>>, out |-> <<>>,
           early |-> FALSE, answered |-> FALSE, resends |-> 0]

Init ==
    /\ wanted = FALSE /\ attempt = "none"
    /\ client = [Down EXCEPT !.stopping = FALSE] /\ conn = NoConn
    /\ mainq = <<>> /\ pending = <<>>
    /\ session = [helloSeen |-> FALSE, helloRecent |-> FALSE, resendDue |-> FALSE, resent |-> FALSE]
    /\ refused = [server |-> FALSE, id |-> None]
    /\ myId = OwnId /\ server \in Kinds /\ held \in SUBSET Ids
    /\ moves = MaxMoves
    /\ past = [stale |-> FALSE, missed |-> FALSE, told |-> 0, muddled |-> FALSE,
               latchedFor |-> "nothing"]

Moves == moves > 0 /\ moves' = moves - 1
UpToTwo(n) == IF n > 2 THEN 2 ELSE n

(* The state of the link, and what the menu offers in it (uNetLink). *)

IdRefused(r) == r.id # None /\ r.id = myId
NetLinkRefused == refused.server \/ IdRefused(refused)

NetLinkState ==
    CASE client.up -> "connected"
      [] ~client.up /\ attempt # "none" -> "connecting"
      [] ~client.up /\ attempt = "none" /\ ~wanted -> "off"
      [] ~client.up /\ attempt = "none" /\ wanted /\ NetLinkRefused -> "refused"
      [] OTHER -> "waiting"

LinkCommandEnabled(command) ==
    CASE command = "connect" -> NetLinkState \in {"off", "waiting", "refused"}
      [] command = "disconnect" -> NetLinkState # "off"
      [] command = "reconnect" -> NetLinkState \in {"connected", "waiting", "refused"}

(* Posting.  A packet goes nowhere when the link is down.  What is not a HELLO matters to
   the server only as the first message of a link, so only then is it kept. *)

Posted(c, message) ==
    IF client.up /\ (message = None => c.state = "fresh" /\ c.in = <<>>)
    THEN [c EXCEPT !.in = Append(@, message)] ELSE c

\* Posted by the main thread, perhaps before the connect thread has sent the HELLO.
PostedByMain(message) ==
    [Posted(conn, message) EXCEPT !.early = @ \/ (client.up /\ attempt \in Unannounced)]

\* A status, a spot, a QSO: what keys, timers and the operator make the main thread send.
SendToNet ==
    /\ client.up /\ Moves
    /\ conn' = PostedByMain(None)
    /\ UNCHANGED <<wanted, attempt, client, mainq, pending, session, refused, myId, server,
                   held, past>>

\* The operator opened a log of another contest: the station announces it on the link.
NetContestChanged ==
    /\ client.up /\ Moves
    /\ conn' = PostedByMain(myId)
    /\ session' = [session EXCEPT !.helloRecent = TRUE]
    /\ past' = [past EXCEPT !.muddled = TRUE]
    /\ UNCHANGED <<wanted, attempt, client, mainq, pending, refused, myId, server, held>>

(* An attempt, from the main thread's decision to the end of the thread. *)

\* r: the refusals as the caller leaves them; up: the link as the caller leaves it.
TryConnectToNetwork(r, up) ==
    IF up \/ IdRefused(r)
    THEN refused' = r /\ UNCHANGED attempt
    ELSE /\ refused' = [r EXCEPT !.id = None]
         /\ attempt' = IF ~r.server /\ attempt = "none" THEN "starting" ELSE attempt

\* The main thread has not heard all that was to be said of the link, or a reader outlives it.
Unreported == mainq # <<>> \/ client.reader = "ending" \/ (client.reader = "reading" /\ ~client.up)

\* History: an attempt begins.
AttemptNoted(p) ==
    IF attempt = "none" /\ attempt' # "none"
    THEN [p EXCEPT !.stale = Unreported, !.muddled = @ \/ Unreported]
    ELSE p

NetLinkTick ==
    /\ wanted /\ ~client.up /\ Len(mainq) <= MaxBehind
    /\ TryConnectToNetwork(refused, FALSE)
    /\ past' = AttemptNoted(past)
    /\ UNCHANGED <<wanted, client, conn, mainq, pending, session, myId, server, held, moves>>

\* TNetClient.Connect takes down what is left of the last link, without a word.
TearDown ==
    /\ attempt = "starting" /\ attempt' = "dialling"
    /\ client' = [Down EXCEPT !.stopping = FALSE]
    /\ conn' = NoConn
    /\ UNCHANGED <<wanted, mainq, pending, session, refused, myId, server, held, moves, past>>

\* No name, no answer, no password accepted; or the main thread closed the socket meanwhile.
DialFails ==
    /\ attempt = "dialling" /\ attempt' = "look"
    /\ IF server = "down" \/ client.stopping THEN UNCHANGED moves ELSE Moves
    /\ client' = Down /\ conn' = NoConn /\ pending' = <<>>
    /\ UNCHANGED <<wanted, mainq, session, refused, myId, server, held, past>>

\* The link counts as up ...
DialSucceeds ==
    /\ attempt = "dialling" /\ server # "down" /\ attempt' = "reader"
    /\ client' = [client EXCEPT !.up = TRUE]
    /\ conn' = [NoConn EXCEPT !.state = "fresh"]
    /\ UNCHANGED <<wanted, mainq, pending, session, refused, myId, server, held, moves, past>>

\* Bug: the link counts as up after the reader has been started, whatever it has met.
Bug_UpAfterReader ==
    /\ attempt = "reader" /\ attempt' = "session"
    /\ client' = [client EXCEPT !.up = TRUE, !.reader = "reading"]
    /\ UNCHANGED <<wanted, conn, mainq, pending, session, refused, myId, server, held, moves,
                   past>>

\* ... and then its reader is created, although the main thread may have taken the link
\* down in between: such a reader finds the socket closed.
StartReader ==
    /\ attempt = "reader" /\ attempt' = "session"
    /\ client' = [client EXCEPT !.reader = "reading"]
    /\ UNCHANGED <<wanted, conn, mainq, pending, session, refused, myId, server, held, moves,
                   past>>

\* Bug: a new link does not ask whether the last one's work was done.
Bug_ResentForGood ==
    /\ attempt = "session" /\ attempt' = "hello"
    /\ session' = [session EXCEPT !.helloSeen = FALSE, !.resendDue = FALSE]
    /\ UNCHANGED <<wanted, client, conn, mainq, pending, refused, myId, server, held, moves, past>>

NetBeginLinkSession ==
    /\ attempt = "session" /\ attempt' = "hello"
    /\ session' = [session EXCEPT !.helloSeen = FALSE, !.resendDue = FALSE, !.resent = FALSE]
    /\ UNCHANGED <<wanted, client, conn, mainq, pending, refused, myId, server, held, moves, past>>

SendHello ==
    /\ attempt = "hello" /\ attempt' = "look"
    /\ conn' = Posted(conn, myId)
    /\ session' = [session EXCEPT !.helloRecent = TRUE]
    /\ mainq' = Append(mainq, "announce")
    /\ UNCHANGED <<wanted, client, pending, refused, myId, server, held, moves, past>>

\* Bug: the thread does not look.
Bug_NoLook ==
    /\ attempt = "look" /\ attempt' = "ending"
    /\ UNCHANGED <<wanted, client, conn, mainq, pending, session, refused, myId, server, held,
                   moves, past>>

\* The thread's look at the wish, before it ends.
LookAtWish ==
    /\ attempt = "look" /\ attempt' = "ending"
    /\ IF ~wanted /\ client.up
       THEN client' = Down /\ conn' = NoConn /\ pending' = <<>>
       ELSE UNCHANGED <<client, conn, pending>>
    /\ UNCHANGED <<wanted, mainq, session, refused, myId, server, held, moves, past>>

\* Bug: the thread ends and leaves its id behind.
Bug_ThreadIdKept == attempt = "ending" /\ UNCHANGED vars

AttemptEnds ==
    /\ attempt = "ending" /\ attempt' = "none"
    /\ UNCHANGED <<wanted, client, conn, mainq, pending, session, refused, myId, server, held,
                   moves, past>>

(* The server reads; older servers know no HELLO, and everything else is theirs to answer. *)

Judged(id) == IF id \in held THEN <<id>> ELSE <<>>
Answer == [conn EXCEPT !.in = Tail(@)]

\* What the first message of a link gets.
Greeted(message) ==
    CASE message # None /\ server = "same" ->
            [Answer EXCEPT !.state = "joined", !.out = @ \o <<"hello">> \o Judged(message)]
      [] message # None /\ server = "other" ->
            [Answer EXCEPT !.state = "refused", !.out = Append(@, "mismatch")]
      [] message # None /\ server \in {"older", "down"} -> [Answer EXCEPT !.state = "older"]
      [] message = None /\ server \in {"older", "down"} -> Answer
      [] OTHER -> [Answer EXCEPT !.state = "refused"]

ServerReads ==
    /\ conn.in # <<>> /\ conn.state \in Open
    /\ LET message == Head(conn.in) IN
       conn' = IF conn.state = "fresh" THEN Greeted(message)
               ELSE [Answer EXCEPT !.out = IF message = None THEN @ ELSE @ \o Judged(message)]
    /\ UNCHANGED <<wanted, attempt, client, mainq, pending, session, refused, myId, server, held,
                   moves, past>>

Broken == IF conn.state \in Open THEN [conn EXCEPT !.state = "lost", !.in = <<>>, !.out = <<>>]
          ELSE conn

LinkLost ==
    /\ conn.state \in Open /\ Moves
    /\ conn' = Broken
    /\ UNCHANGED <<wanted, attempt, client, mainq, pending, session, refused, myId, server, held,
                   past>>

\* The server is stopped, started again, or replaced by another version.
ServerChanges(kind) ==
    /\ kind # server /\ Moves
    /\ conn' = Broken /\ server' = kind
    /\ UNCHANGED <<wanted, attempt, client, mainq, pending, session, refused, myId, held, past>>

(* The client's reader. *)

NetDataArrived(n) ==
    /\ client.reader = "reading" /\ n <= Len(conn.out)
    /\ LET taken == SubSeq(conn.out, 1, n) IN
       /\ pending' = pending \o taken
       /\ conn' = [conn EXCEPT !.out = SubSeq(@, n + 1, Len(@)),
                               !.answered = @ \/ "hello" \in ToSet(taken)]
    /\ mainq' = Append(mainq, "drain")
    /\ UNCHANGED <<wanted, attempt, client, session, refused, myId, server, held, moves, past>>

\* Nothing more will come: the link is down before anyone is told.
ReaderEnds ==
    /\ client.reader = "reading" /\ conn.state \notin Open /\ conn.out = <<>>
    /\ client' = [client EXCEPT !.up = FALSE, !.reader = "ending"]
    /\ UNCHANGED <<wanted, attempt, conn, mainq, pending, session, refused, myId, server, held,
                   moves, past>>

NetLinkDropped ==
    /\ client.reader = "ending"
    /\ client' = [client EXCEPT !.reader = "none"]
    /\ mainq' = IF client.stopping THEN mainq ELSE Append(mainq, "dropped")
    /\ UNCHANGED <<wanted, attempt, conn, pending, session, refused, myId, server, held, moves, past>>

(* What the main thread finds in its queue. *)

Takes(what) == mainq # <<>> /\ Head(mainq) = what /\ mainq' = Tail(mainq)

IsLastId(messages, n) ==
    messages[n] \in Ids /\ \A m \in DOMAIN messages : m > n => messages[m] \notin Ids
RefusalsIn(messages) == {n \in DOMAIN messages : messages[n] # "hello"}

\* The refusals after the messages, and the session.
RefusedAfter(messages) ==
    [server |-> refused.server \/ "mismatch" \in ToSet(messages),
     id |-> IF \E n \in DOMAIN messages : IsLastId(messages, n)
            THEN messages[CHOOSE n \in DOMAIN messages : IsLastId(messages, n)]
            ELSE refused.id]
SessionAfter(messages) ==
    [session EXCEPT !.helloSeen = @ \/ {"hello", "mismatch"} \cap ToSet(messages) # {},
                    !.resendDue = @ \/ "hello" \in ToSet(messages)]

\* May the offline work go now?  s: the session, r: the refusals.
ResendOfflineWork(s, r) == s.resendDue /\ ~s.resent /\ client.up /\ s.helloSeen /\ r.id = None

\* Everything that has come is handled, then the resend is serviced.
Drain ==
    /\ Takes("drain")
    /\ LET s == SessionAfter(pending)
           r == RefusedAfter(pending)
           leaves == RefusalsIn(pending) # {}
           resends == ~leaves /\ ResendOfflineWork(s, r)
       IN /\ refused' = r
          /\ session' = [s EXCEPT !.resendDue = FALSE, !.resent = @ \/ resends]
          /\ client' = IF leaves THEN Down ELSE client
          /\ conn' = CASE leaves -> NoConn
                       [] resends -> [Posted(conn, None) EXCEPT !.resends = UpToTwo(@ + 1)]
                       [] OTHER -> conn
          /\ past' = [past EXCEPT
                !.stale = @ \/ (leaves /\ (mainq' # <<>> \/ client.reader = "ending")),
                !.told = UpToTwo(@ + Cardinality(RefusalsIn(pending))),
                !.latchedFor = IF "mismatch" \in ToSet(pending) THEN "mismatch" ELSE @]
    /\ pending' = <<>>
    /\ UNCHANGED <<wanted, attempt, myId, server, held, moves>>

\* Bug: an answer does not count.
Bug_AnyDropLooksOlder(s, r) == s.helloRecent /\ ~r.server

\* The link went within HELLO_ANSWER_WINDOW_MS of our HELLO and nothing answered it.
LooksOlder(s, r) == ~s.helloSeen /\ s.helloRecent /\ ~r.server

\* History: what the latch was really set by.
Reason ==
    CASE past.stale -> "stale"
      [] ~past.stale /\ conn.early -> "early"
      [] ~past.stale /\ ~conn.early /\ conn.state = "older" -> "older"
      [] ~past.stale /\ ~conn.early /\ conn.state = "lost" /\ ~conn.answered -> "lost"
      [] OTHER -> "no reason"

ReportDropped ==
    /\ Takes("dropped")
    /\ client' = Down /\ conn' = NoConn /\ pending' = <<>>
    /\ IF LooksOlder(session, refused)
       THEN /\ refused' = [refused EXCEPT !.server = TRUE]
            /\ past' = [past EXCEPT !.latchedFor = Reason, !.told = UpToTwo(@ + 1)]
       ELSE UNCHANGED <<refused, past>>
    /\ UNCHANGED <<wanted, attempt, session, myId, server, held, moves>>

AnnounceStation ==
    /\ Takes("announce")
    /\ conn' = PostedByMain(None)
    /\ UNCHANGED <<wanted, attempt, client, pending, session, refused, myId, server, held, moves,
                   past>>

\* Five seconds have gone by since the last HELLO.
WindowCloses ==
    /\ session.helloRecent /\ session' = [session EXCEPT !.helloRecent = FALSE]
    /\ UNCHANGED <<wanted, attempt, client, conn, mainq, pending, refused, myId, server, held,
                   moves, past>>

(* The operator. *)

ForgetServerRefusal == [server |-> FALSE, id |-> None]
Acted(p) == [p EXCEPT !.told = 0, !.missed = FALSE, !.muddled = FALSE]

NetLinkConnect ==
    /\ LinkCommandEnabled("connect") /\ Moves
    /\ wanted' = TRUE
    /\ TryConnectToNetwork(ForgetServerRefusal, client.up)
    /\ past' = AttemptNoted(Acted(past))
    /\ UNCHANGED <<client, conn, mainq, pending, session, myId, server, held>>

NetLinkReconnect ==
    /\ LinkCommandEnabled("reconnect") /\ attempt = "none" /\ Moves
    /\ wanted' = TRUE
    /\ client' = Down /\ conn' = NoConn /\ pending' = <<>>
    /\ TryConnectToNetwork(ForgetServerRefusal, FALSE)
    /\ past' = AttemptNoted(Acted(past))
    /\ UNCHANGED <<mainq, session, myId, server, held>>

\* A link whose thread is still building it is left to the thread.
NetLinkDisconnect ==
    /\ LinkCommandEnabled("disconnect") /\ Moves
    /\ wanted' = FALSE
    /\ IF attempt # "none" THEN UNCHANGED <<client, conn, pending>>
       ELSE client' = Down /\ conn' = NoConn /\ pending' = <<>>
    /\ past' = [past EXCEPT !.missed = (attempt = "ending"), !.stale = @ \/ Unreported]
    /\ UNCHANGED <<attempt, mainq, session, refused, myId, server, held>>

\* The operator gives the station another computer id; a link there may be keeps the old one.
ChangeComputerId(id) ==
    /\ id # myId /\ Moves
    /\ myId' = id
    /\ past' = [past EXCEPT !.told = 0, !.muddled = @ \/ client.up \/ attempt # "none" \/ Unreported]
    /\ UNCHANGED <<wanted, attempt, client, conn, mainq, pending, session, refused, server, held>>

Threads == TearDown \/ DialFails \/ DialSucceeds \/ StartReader \/ NetBeginLinkSession
           \/ SendHello \/ LookAtWish \/ AttemptEnds
Reader == (\E n \in 1 .. Len(conn.out) : NetDataArrived(n)) \/ ReaderEnds \/ NetLinkDropped
Queued == Drain \/ ReportDropped \/ AnnounceStation

Next ==
    \/ TearDown \/ DialFails \/ DialSucceeds \/ StartReader \/ NetBeginLinkSession \/ SendHello
    \/ LookAtWish \/ AttemptEnds
    \/ \E n \in 1 .. Len(conn.out) : NetDataArrived(n)
    \/ ReaderEnds \/ NetLinkDropped
    \/ Drain \/ ReportDropped \/ AnnounceStation
    \/ NetLinkTick \/ SendToNet \/ NetContestChanged \/ WindowCloses
    \/ ServerReads \/ LinkLost
    \/ \E kind \in Kinds : ServerChanges(kind)
    \/ NetLinkConnect \/ NetLinkReconnect \/ NetLinkDisconnect
    \/ \E id \in Ids : ChangeComputerId(id)

Spec == Init /\ [][Next]_vars

\* The threads and the server run, the timer ticks.
FairSpec == /\ Spec /\ WF_vars(Threads) /\ WF_vars(Reader) /\ WF_vars(Queued)
            /\ WF_vars(NetLinkTick) /\ WF_vars(ServerReads)

(* Properties. *)

\* The flag that fifteen call sites read as "the link is up" is up only while the client
\* holds a connection and a reader stands behind it, or the connect thread is about to
\* create that reader: the flag goes up before the reader exists, "so the reader cannot
\* clear it before it is set", the reader takes it down before it ends, and a teardown by
\* another thread, also between the two, is never undone.
LiveLinkHasReader ==
    client.up => /\ conn.state # "none"
                 /\ client.reader = (IF attempt = "reader" THEN "none" ELSE "reading")

\* A link nobody wants is dropped: Disconnect closes it, or leaves it to the connect
\* thread, which looks at the wish before it ends.  (Unless Disconnect came after the look.)
UnwantedLinkIsDropped == ~wanted /\ attempt = "none" /\ client.up => past.missed

\* The server is latched as unusable only for something it did: it spoke of another
\* protocol, or it hung up on a HELLO.  The time-out rule errs only where the link really
\* broke between HELLO and answer, where something of ours went out before HELLO, or where
\* the report was of an earlier link.
RefusalHasACause == refused.server => past.latchedFor \notin {"nothing", "no reason"}

\* One refusal, one warning: however the server's messages, the drop and the retry timer
\* interleave, the operator is told once until he acts.
OperatorToldOnce == past.told > 1 => past.muddled

\* A refusal stands for something the server did, and is told once.
RefusalsAreHonest == RefusalHasACause /\ OperatorToldOnce

\* What was logged offline goes on every link the server has answered, and once: the
\* connect thread's reset of the session never undoes what the answer set, nor lets the last
\* link's answer count for this one.  (Unless something went before HELLO, or reports of an
\* earlier link were still to come.)
OfflineWorkGoesOnce ==
    client.up /\ conn.answered /\ "drain" \notin ToSet(mainq) /\ ~conn.early /\ ~past.stale
        => conn.resends = 1

\* A link that is wanted comes up and is answered by a server that will have this station,
\* unless a refusal stands.
Usable == server = "same" /\ myId \notin held
Served == client.up /\ (session.helloSeen \/ conn.early)
WantedLinkComesUp == wanted /\ Usable ~> Served \/ ~wanted \/ ~Usable \/ NetLinkRefused

\* HELLO is the first message of every link.
HelloGoesFirst == conn.state = "fresh" /\ conn.in # <<>> => Head(conn.in) # None

=============================================================================
