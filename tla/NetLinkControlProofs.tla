------------------------- MODULE NetLinkControlProofs -------------------------
(***************************************************************************)
(* Facts about every run of NetLinkControl, for any ids and any bounds: the *)
(* types, that a link that is up has a reader and a connection behind it,   *)
(* that Disconnect takes effect however it meets an attempt in flight, that *)
(* offline work goes once on every answered link, and that a refusal is     *)
(* always the server's own and told to the operator once.                   *)
(***************************************************************************)
EXTENDS NetLinkControl, FiniteSetTheorems, SequenceTheorems, TLAPS

\* What is posted keeps the connection well-typed.
LEMMA PostedTyped ==
    ASSUME TypeOK, NEW c \in Conns, NEW message \in FromStation
    PROVE  Posted(c, message) \in Conns
<1>1. c.in \in Seq(FromStation) BY DEF Conns
<1>2. Append(c.in, message) \in Seq(FromStation) BY <1>1
<1>3. [c EXCEPT !.in = Append(@, message)] \in Conns BY <1>2 DEF Conns
<1>4. QED BY <1>3 DEF Posted

\* What the main thread posts keeps the connection well-typed.
LEMMA PostedByMainTyped ==
    ASSUME TypeOK, NEW message \in FromStation
    PROVE  PostedByMain(message) \in Conns
<1>1. conn \in Conns /\ client.up \in BOOLEAN BY DEF TypeOK, Clients
<1>2. Posted(conn, message) \in Conns BY <1>1, PostedTyped
<1>3. QED BY <1>1, <1>2 DEF PostedByMain, Conns

\* What the last COMPUTERID_IN_USE says is an id.
LEMMA RefusedAfterTyped ==
    ASSUME TypeOK
    PROVE  RefusedAfter(pending) \in Refusals /\ SessionAfter(pending) \in Sessions
BY DEF RefusedAfter, SessionAfter, TypeOK, Refusals, Sessions, IsLastId, FromServer

\* The warnings of one drain are a number, and history keeps at most two of them.
LEMMA ToldTyped ==
    ASSUME TypeOK
    PROVE  /\ Cardinality(RefusalsIn(pending)) \in Nat
           /\ \A n \in Nat : UpToTwo(n) \in 0 .. 2
<1>1. IsFiniteSet(DOMAIN pending)
  <2>1. DOMAIN pending = 1 .. Len(pending) /\ Len(pending) \in Nat BY DEF TypeOK
  <2>2. QED BY <2>1, FS_Interval
<1>2. IsFiniteSet(RefusalsIn(pending)) BY <1>1, FS_Subset DEF RefusalsIn
<1>3. QED BY <1>2, FS_CardinalityType DEF UpToTwo

\* A closed connection and a client taken down are well-typed.
LEMMA NoConnTyped == NoConn \in Conns /\ Down \in Clients
BY DEF NoConn, Conns, Down, Clients, Open, Closed

\* The program starts well-typed.
LEMMA InitTyped == Init => TypeOK
<1> SUFFICES ASSUME Init PROVE TypeOK OBVIOUS
<1>1. wanted \in BOOLEAN /\ attempt \in Attempts /\ conn \in Conns
  BY NoConnTyped DEF Init, Attempts
<1>2. client \in Clients BY NoConnTyped DEF Init, Clients
<1>3. mainq \in Seq({"drain", "dropped", "announce"}) /\ pending \in Seq(FromServer) BY DEF Init
<1>4. session \in Sessions /\ refused \in Refusals BY DEF Init, Sessions, Refusals
<1>5. myId \in Ids /\ server \in Kinds /\ held \in SUBSET Ids BY ConstantsAssumption DEF Init
<1>6. moves \in 0 .. MaxMoves BY ConstantsAssumption DEF Init
<1>7. past \in Pasts BY DEF Init, Pasts
<1>8. QED BY <1>1, <1>2, <1>3, <1>4, <1>5, <1>6, <1>7 DEF TypeOK

\* One step at a time: the threads.
LEMMA ThreadsTyped == TypeOK /\ Threads => TypeOK'
<1> SUFFICES ASSUME TypeOK, Threads PROVE TypeOK' OBVIOUS
<1>1. ASSUME TearDown PROVE TypeOK'
  BY <1>1, NoConnTyped DEF TypeOK, TearDown, Attempts, Clients
<1>2. ASSUME DialFails PROVE TypeOK'
  <2>1. moves' \in 0 .. MaxMoves BY <1>2, ConstantsAssumption DEF TypeOK, DialFails, Moves
  <2>2. QED BY <1>2, <2>1, NoConnTyped DEF TypeOK, DialFails, Attempts
<1>3. ASSUME DialSucceeds PROVE TypeOK'
  <2>1. client' \in Clients BY <1>3 DEF TypeOK, DialSucceeds, Clients
  <2>2. conn' \in Conns BY <1>3, NoConnTyped DEF DialSucceeds, Conns, Open
  <2>3. QED BY <1>3, <2>1, <2>2 DEF TypeOK, DialSucceeds, Attempts
<1>3r. ASSUME StartReader PROVE TypeOK'
  <2>1. client' \in Clients BY <1>3r DEF TypeOK, StartReader, Clients
  <2>2. attempt' \in Attempts BY <1>3r DEF StartReader, Attempts
  <2>3. QED BY <1>3r, <2>1, <2>2 DEF TypeOK, StartReader
<1>4. ASSUME NetBeginLinkSession PROVE TypeOK'
  <2>1. session' \in Sessions BY <1>4 DEF TypeOK, NetBeginLinkSession, Sessions
  <2>2. attempt' \in Attempts BY <1>4 DEF NetBeginLinkSession, Attempts
  <2>3. QED BY <1>4, <2>1, <2>2 DEF TypeOK, NetBeginLinkSession
<1>5. ASSUME SendHello PROVE TypeOK'
  <2>1. session' \in Sessions BY <1>5 DEF TypeOK, SendHello, Sessions
  <2>2. mainq' \in Seq({"drain", "dropped", "announce"}) BY <1>5 DEF TypeOK, SendHello
  <2>3. myId \in FromStation BY DEF TypeOK, FromStation
  <2>4. conn' \in Conns BY <1>5, <2>3, PostedTyped DEF TypeOK, SendHello
  <2>5. QED BY <1>5, <2>1, <2>2, <2>4 DEF TypeOK, SendHello, Attempts
<1>6. ASSUME LookAtWish PROVE TypeOK'
  <2> client \in Clients /\ conn \in Conns /\ pending \in Seq(FromServer) BY DEF TypeOK
  <2>1. client' \in Clients /\ conn' \in Conns /\ pending' \in Seq(FromServer)
    <3>1. CASE client' = Down /\ conn' = NoConn /\ pending' = <<>> BY <3>1, NoConnTyped
    <3>2. CASE client' = client /\ conn' = conn /\ pending' = pending BY <3>2
    <3>3. QED BY <1>6, <3>1, <3>2 DEF LookAtWish
  <2>2. attempt' \in Attempts BY <1>6 DEF LookAtWish, Attempts
  <2>3. QED BY <1>6, <2>1, <2>2 DEF TypeOK, LookAtWish
<1>7. ASSUME AttemptEnds PROVE TypeOK' BY <1>7 DEF TypeOK, AttemptEnds, Attempts
<1>8. QED BY <1>1, <1>2, <1>3, <1>3r, <1>4, <1>5, <1>6, <1>7 DEF Threads

\* The client's reader.
LEMMA ReaderTyped == TypeOK /\ Reader => TypeOK'
<1> SUFFICES ASSUME TypeOK, Reader PROVE TypeOK' OBVIOUS
<1>1. ASSUME NEW n \in 1 .. Len(conn.out), NetDataArrived(n) PROVE TypeOK'
  <2>1. conn \in Conns /\ conn.out \in Seq(FromServer) /\ pending \in Seq(FromServer)
    BY DEF TypeOK, Conns
  <2>2. n \in 1 .. Len(conn.out) OBVIOUS
  <2>3. SubSeq(conn.out, 1, n) \in Seq(FromServer) BY <2>1, <2>2
  <2>4. SubSeq(conn.out, n + 1, Len(conn.out)) \in Seq(FromServer) BY <2>1, <2>2
  <2>5. pending' \in Seq(FromServer) BY <1>1, <2>1, <2>3 DEF NetDataArrived
  <2>6. conn' \in Conns BY <1>1, <2>1, <2>4 DEF NetDataArrived, Conns
  <2>7. mainq' \in Seq({"drain", "dropped", "announce"}) BY <1>1 DEF TypeOK, NetDataArrived
  <2>8. QED BY <1>1, <2>5, <2>6, <2>7 DEF TypeOK, NetDataArrived
<1>2. ASSUME ReaderEnds PROVE TypeOK'
  <2>1. client' \in Clients BY <1>2 DEF TypeOK, ReaderEnds, Clients
  <2>2. QED BY <1>2, <2>1 DEF TypeOK, ReaderEnds
<1>3. ASSUME NetLinkDropped PROVE TypeOK'
  <2>1. client' \in Clients BY <1>3 DEF TypeOK, NetLinkDropped, Clients
  <2>2. mainq' \in Seq({"drain", "dropped", "announce"}) BY <1>3 DEF TypeOK, NetLinkDropped
  <2>3. QED BY <1>3, <2>1, <2>2 DEF TypeOK, NetLinkDropped
<1>4. QED BY <1>1, <1>2, <1>3 DEF Reader

\* What the main thread finds in its queue.
LEMMA QueuedTyped == TypeOK /\ Queued => TypeOK'
<1> SUFFICES ASSUME TypeOK, Queued PROVE TypeOK' OBVIOUS
<1>1. ASSUME NEW what, Takes(what) PROVE mainq' \in Seq({"drain", "dropped", "announce"})
  BY <1>1 DEF Takes, TypeOK
<1>2. conn \in Conns /\ None \in FromStation BY DEF TypeOK, FromStation
<1>3. ASSUME Drain PROVE TypeOK'
  <2> DEFINE s == SessionAfter(pending)
             r == RefusedAfter(pending)
             leaves == RefusalsIn(pending) # {}
             resends == ~leaves /\ ResendOfflineWork(s, r)
             sent == [Posted(conn, None) EXCEPT !.resends = UpToTwo(@ + 1)]
  <2>1. s \in Sessions /\ r \in Refusals BY RefusedAfterTyped
  <2>2. refused' \in Refusals BY <1>3, <2>1 DEF Drain
  <2>3. session' \in Sessions
    <3>1. session' = [s EXCEPT !.resendDue = FALSE, !.resent = @ \/ resends]
      BY <1>3 DEF Drain
    <3>2. resends \in BOOLEAN BY DEF ResendOfflineWork
    <3> HIDE DEF s, resends
    <3>3. QED BY <3>1, <3>2, <2>1 DEF Sessions
  <2>4. client' \in Clients BY <1>3, NoConnTyped DEF Drain, TypeOK
  <2>5. sent \in Conns
    <3>1. Posted(conn, None) \in Conns BY <1>2, PostedTyped
    <3>2. Posted(conn, None).resends + 1 \in Nat BY <3>1 DEF Conns
    <3>3. UpToTwo(Posted(conn, None).resends + 1) \in 0 .. 2 BY <3>2, ToldTyped
    <3>4. QED BY <3>1, <3>3 DEF Conns
  <2>6. conn' \in Conns
    <3>1. conn' = NoConn \/ conn' = sent \/ conn' = conn BY <1>3 DEF Drain
    <3>2. QED BY <3>1, <2>5, <1>2, NoConnTyped
  <2>7. past' \in Pasts
    <3> past.told \in 0 .. 2 BY DEF TypeOK, Pasts
    <3>1. past.told + Cardinality(RefusalsIn(pending)) \in Nat BY ToldTyped
    <3>2. UpToTwo(past.told + Cardinality(RefusalsIn(pending))) \in 0 .. 2 BY <3>1, ToldTyped
    <3>3. past \in Pasts BY DEF TypeOK
    <3>4. QED BY <1>3, <3>2, <3>3 DEF Drain, Pasts
  <2>8. pending' \in Seq(FromServer) BY <1>3 DEF Drain
  <2>9. mainq' \in Seq({"drain", "dropped", "announce"}) BY <1>3, <1>1 DEF Drain
  <2>10. UNCHANGED <<wanted, attempt, myId, server, held, moves>> BY <1>3 DEF Drain
  <2>11. QED BY <2>2, <2>3, <2>4, <2>6, <2>7, <2>8, <2>9, <2>10 DEF TypeOK
<1>4. ASSUME ReportDropped PROVE TypeOK'
  <2>1. past' \in Pasts /\ refused' \in Refusals
    <3> past.told \in 0 .. 2 BY DEF TypeOK, Pasts
    <3>1. past.told + 1 \in Nat OBVIOUS
    <3>2. UpToTwo(past.told + 1) \in 0 .. 2 BY <3>1, ToldTyped
    <3>3. Reason \in {"stale", "early", "older", "lost", "no reason"} BY DEF Reason
    <3>4. past \in Pasts /\ refused \in Refusals BY DEF TypeOK
    <3>5. QED BY <1>4, <3>2, <3>3, <3>4 DEF ReportDropped, Pasts, Refusals
  <2>2. client' \in Clients /\ conn' \in Conns BY <1>4, NoConnTyped DEF ReportDropped
  <2>3. pending' \in Seq(FromServer) BY <1>4 DEF ReportDropped
  <2>4. mainq' \in Seq({"drain", "dropped", "announce"}) BY <1>4, <1>1 DEF ReportDropped
  <2>5. UNCHANGED <<wanted, attempt, session, myId, server, held, moves>> BY <1>4 DEF ReportDropped
  <2>6. QED BY <2>1, <2>2, <2>3, <2>4, <2>5 DEF TypeOK
<1>5. ASSUME AnnounceStation PROVE TypeOK'
  <2>1. conn' \in Conns BY <1>2, <1>5, PostedByMainTyped DEF AnnounceStation
  <2>2. mainq' \in Seq({"drain", "dropped", "announce"}) BY <1>5, <1>1 DEF AnnounceStation
  <2>3. QED BY <1>5, <2>1, <2>2 DEF AnnounceStation, TypeOK
<1>6. QED BY <1>3, <1>4, <1>5 DEF Queued

\* The history of an attempt that begins is well-typed.
LEMMA AttemptNotedTyped ==
    ASSUME NEW p \in Pasts, TypeOK PROVE AttemptNoted(p) \in Pasts
<1>1. Unreported \in BOOLEAN BY DEF Unreported
<1>2. QED BY <1>1 DEF AttemptNoted, Pasts

\* TryConnectToNetwork leaves a refusal and a thread state.
LEMMA TryTyped ==
    ASSUME TypeOK, NEW r \in Refusals, NEW up \in BOOLEAN, TryConnectToNetwork(r, up)
    PROVE  refused' \in Refusals /\ attempt' \in Attempts
BY DEF TryConnectToNetwork, Refusals, Attempts, TypeOK

\* A move of the outside world is taken from a budget that is there.
LEMMA MovesTyped == TypeOK /\ Moves => moves' \in 0 .. MaxMoves
BY ConstantsAssumption DEF TypeOK, Moves

\* The timer, and what the main thread posts on its own account.
LEMMA PostsTyped ==
    TypeOK /\ (NetLinkTick \/ SendToNet \/ NetContestChanged \/ WindowCloses) => TypeOK'
<1> SUFFICES ASSUME TypeOK PROVE
        (NetLinkTick \/ SendToNet \/ NetContestChanged \/ WindowCloses) => TypeOK' OBVIOUS
<1>1. ASSUME NetLinkTick PROVE TypeOK'
  <2>1. refused' \in Refusals /\ attempt' \in Attempts
    BY <1>1, TryTyped DEF NetLinkTick, TypeOK
  <2>2. past' \in Pasts BY <1>1, AttemptNotedTyped DEF NetLinkTick, TypeOK
  <2>3. QED BY <1>1, <2>1, <2>2 DEF NetLinkTick, TypeOK
<1>2. myId \in FromStation /\ None \in FromStation BY DEF TypeOK, FromStation
<1>3. ASSUME SendToNet PROVE TypeOK'
  <2>1. conn' \in Conns BY <1>2, <1>3, PostedByMainTyped DEF SendToNet
  <2>2. moves' \in 0 .. MaxMoves BY <1>3, MovesTyped DEF SendToNet
  <2>3. QED BY <1>3, <2>1, <2>2 DEF SendToNet, TypeOK
<1>4. ASSUME NetContestChanged PROVE TypeOK'
  <2>1. conn' \in Conns BY <1>2, <1>4, PostedByMainTyped DEF NetContestChanged
  <2>2. moves' \in 0 .. MaxMoves BY <1>4, MovesTyped DEF NetContestChanged
  <2>3. session' \in Sessions BY <1>4 DEF NetContestChanged, TypeOK, Sessions
  <2>4. past' \in Pasts BY <1>4 DEF NetContestChanged, TypeOK, Pasts
  <2>5. QED BY <1>4, <2>1, <2>2, <2>3, <2>4 DEF NetContestChanged, TypeOK
<1>5. ASSUME WindowCloses PROVE TypeOK'
  <2>1. session' \in Sessions BY <1>5 DEF WindowCloses, TypeOK, Sessions
  <2>2. QED BY <1>5, <2>1 DEF WindowCloses, TypeOK
<1>6. QED BY <1>1, <1>3, <1>4, <1>5

\* A broken connection is well-typed.
LEMMA BrokenTyped == TypeOK => Broken \in Conns
<1> SUFFICES ASSUME TypeOK PROVE Broken \in Conns OBVIOUS
<1>1. conn \in Conns BY DEF TypeOK
<1>2. [conn EXCEPT !.state = "lost", !.in = <<>>, !.out = <<>>] \in Conns
  <2>1. "lost" \in {"none"} \cup Open \cup Closed BY DEF Closed
  <2>2. <<>> \in Seq(FromStation) /\ <<>> \in Seq(FromServer) OBVIOUS
  <2>3. QED BY <1>1, <2>1, <2>2 DEF Conns
<1>3. QED BY <1>1, <1>2 DEF Broken

\* The server and the wire.
LEMMA ServerTyped ==
    TypeOK /\ (ServerReads \/ LinkLost \/ \E kind \in Kinds : ServerChanges(kind)) => TypeOK'
<1> SUFFICES ASSUME TypeOK PROVE
        (ServerReads \/ LinkLost \/ \E kind \in Kinds : ServerChanges(kind)) => TypeOK' OBVIOUS
<1>1. conn \in Conns /\ conn.in \in Seq(FromStation) /\ conn.out \in Seq(FromServer)
  BY DEF TypeOK, Conns
<1>2. ASSUME ServerReads PROVE TypeOK'
  <2> DEFINE message == Head(conn.in)
  <2>1. Tail(conn.in) \in Seq(FromStation) /\ message \in FromStation
    BY <1>1, <1>2 DEF ServerReads
  <2>2. Answer \in Conns /\ Answer.out = conn.out BY <1>1, <2>1 DEF Answer, Conns
  <2>3. ASSUME NEW id \in Ids PROVE Judged(id) \in Seq(FromServer)
    <3>1. id \in FromServer BY DEF FromServer
    <3>2. <<id>> \in Seq(FromServer) /\ <<>> \in Seq(FromServer) BY <3>1
    <3>3. QED BY <3>2 DEF Judged
  <2>4. ASSUME NEW out \in Seq(FromServer), NEW state \in Open \cup Closed
        PROVE  [Answer EXCEPT !.state = state, !.out = out] \in Conns
    BY <2>2, <2>4 DEF Conns
  <2>5. <<"hello">> \in Seq(FromServer) /\ "mismatch" \in FromServer BY DEF FromServer
  <2>6. message # None => message \in Ids BY <2>1 DEF FromStation
  <2>7. message # None => conn.out \o Judged(message) \in Seq(FromServer)
    BY <1>1, <2>3, <2>6
  <2>8. Greeted(message) \in Conns
    <3>1. message # None => conn.out \o <<"hello">> \o Judged(message) \in Seq(FromServer)
      BY <1>1, <2>3, <2>5, <2>6
    <3>2. message # None => [Answer EXCEPT !.state = "joined",
                                 !.out = @ \o <<"hello">> \o Judged(message)] \in Conns
      BY <3>1, <2>2, <2>4 DEF Open
    <3>3. Append(conn.out, "mismatch") \in Seq(FromServer) BY <1>1, <2>5
    <3>4. [Answer EXCEPT !.state = "refused", !.out = Append(@, "mismatch")] \in Conns
      BY <3>3, <2>2, <2>4 DEF Closed
    <3>5. [Answer EXCEPT !.state = "older"] \in Conns /\ [Answer EXCEPT !.state = "refused"] \in Conns
      BY <2>2 DEF Conns, Closed
    <3>6. QED BY <3>2, <3>4, <3>5, <2>2 DEF Greeted
  <2>9. [Answer EXCEPT !.out = IF message = None THEN @ ELSE @ \o Judged(message)] \in Conns
    BY <1>1, <2>2, <2>7 DEF Conns
  <2>10. conn' \in Conns BY <1>2, <2>8, <2>9 DEF ServerReads
  <2>11. QED BY <1>2, <2>10 DEF ServerReads, TypeOK
<1>3. ASSUME LinkLost PROVE TypeOK'
  <2>1. conn' \in Conns BY <1>3, BrokenTyped DEF LinkLost
  <2>2. moves' \in 0 .. MaxMoves BY <1>3, MovesTyped DEF LinkLost
  <2>3. QED BY <1>3, <2>1, <2>2 DEF LinkLost, TypeOK
<1>4. ASSUME NEW kind \in Kinds, ServerChanges(kind) PROVE TypeOK'
  <2>1. conn' \in Conns BY <1>4, BrokenTyped DEF ServerChanges
  <2>2. moves' \in 0 .. MaxMoves BY <1>4, MovesTyped DEF ServerChanges
  <2>3. QED BY <1>4, <2>1, <2>2 DEF ServerChanges, TypeOK
<1>5. QED BY <1>2, <1>3, <1>4

\* The operator.
LEMMA OperatorTyped ==
    TypeOK /\ (NetLinkConnect \/ NetLinkReconnect \/ NetLinkDisconnect
               \/ \E id \in Ids : ChangeComputerId(id)) => TypeOK'
<1> SUFFICES ASSUME TypeOK PROVE
        (NetLinkConnect \/ NetLinkReconnect \/ NetLinkDisconnect
         \/ \E id \in Ids : ChangeComputerId(id)) => TypeOK' OBVIOUS
<1>1. ForgetServerRefusal \in Refusals BY DEF ForgetServerRefusal, Refusals
<1>2. past \in Pasts /\ Acted(past) \in Pasts
  <2>1. past \in Pasts BY DEF TypeOK
  <2>2. 0 \in 0 .. 2 OBVIOUS
  <2>3. QED BY <2>1, <2>2 DEF Acted, Pasts
<1>3. client.up \in BOOLEAN BY DEF TypeOK, Clients
<1>4. ASSUME NetLinkConnect PROVE TypeOK'
  <2>1. refused' \in Refusals /\ attempt' \in Attempts
    BY <1>1, <1>3, <1>4, TryTyped DEF NetLinkConnect
  <2>2. past' \in Pasts BY <1>2, <1>4, AttemptNotedTyped DEF NetLinkConnect
  <2>3. moves' \in 0 .. MaxMoves BY <1>4, MovesTyped DEF NetLinkConnect
  <2>4. QED BY <1>4, <2>1, <2>2, <2>3 DEF NetLinkConnect, TypeOK
<1>5. ASSUME NetLinkReconnect PROVE TypeOK'
  <2>1. refused' \in Refusals /\ attempt' \in Attempts
    BY <1>1, <1>5, TryTyped DEF NetLinkReconnect
  <2>2. past' \in Pasts BY <1>2, <1>5, AttemptNotedTyped DEF NetLinkReconnect
  <2>3. moves' \in 0 .. MaxMoves BY <1>5, MovesTyped DEF NetLinkReconnect
  <2>4. client' \in Clients /\ conn' \in Conns /\ pending' \in Seq(FromServer)
    BY <1>5, NoConnTyped DEF NetLinkReconnect
  <2>5. QED BY <1>5, <2>1, <2>2, <2>3, <2>4 DEF NetLinkReconnect, TypeOK
<1>6. ASSUME NetLinkDisconnect PROVE TypeOK'
  <2>1. client' \in Clients /\ conn' \in Conns /\ pending' \in Seq(FromServer)
    <3>1. CASE attempt # "none" BY <1>6, <3>1 DEF NetLinkDisconnect, TypeOK
    <3>2. CASE attempt = "none" BY <1>6, <3>2, NoConnTyped DEF NetLinkDisconnect
    <3>3. QED BY <3>1, <3>2
  <2>2. past' \in Pasts
    <3>1. (attempt = "ending") \in BOOLEAN /\ Unreported \in BOOLEAN BY DEF Unreported
    <3>2. past.stale \in BOOLEAN BY <1>2 DEF Pasts
    <3>3. \A m, t \in BOOLEAN : [past EXCEPT !.missed = m, !.stale = t] \in Pasts BY <1>2 DEF Pasts
    <3>4. (past.stale \/ Unreported) \in BOOLEAN BY <3>1, <3>2
    <3>5. QED BY <1>6, <3>1, <3>3, <3>4 DEF NetLinkDisconnect
  <2>3. moves' \in 0 .. MaxMoves BY <1>6, MovesTyped DEF NetLinkDisconnect
  <2>4. QED BY <1>6, <2>1, <2>2, <2>3 DEF NetLinkDisconnect, TypeOK
<1>7. ASSUME NEW id \in Ids, ChangeComputerId(id) PROVE TypeOK'
  <2>1. past' \in Pasts
    <3>1. Unreported \in BOOLEAN BY DEF Unreported
    <3> 0 \in 0 .. 2 OBVIOUS
    <3>2. past.muddled \in BOOLEAN BY <1>2 DEF Pasts
    <3>3. \A b \in BOOLEAN : [past EXCEPT !.told = 0, !.muddled = b] \in Pasts
      BY <1>2 DEF Pasts
    <3>4. (past.muddled \/ client.up \/ attempt # "none" \/ Unreported) \in BOOLEAN
      BY <3>1, <3>2, <1>3
    <3>5. QED BY <1>7, <3>3, <3>4 DEF ChangeComputerId
  <2>2. moves' \in 0 .. MaxMoves BY <1>7, MovesTyped DEF ChangeComputerId
  <2>3. QED BY <1>7, <2>1, <2>2 DEF ChangeComputerId, TypeOK
<1>8. QED BY <1>4, <1>5, <1>6, <1>7

\* No step breaks a type.
LEMMA StepTyped == TypeOK /\ [Next]_vars => TypeOK'
<1> SUFFICES ASSUME TypeOK, [Next]_vars PROVE TypeOK' OBVIOUS
<1>1. Threads => TypeOK' BY ThreadsTyped
<1>2. Reader => TypeOK' BY ReaderTyped
<1>3. Queued => TypeOK' BY QueuedTyped
<1>4. NetLinkTick \/ SendToNet \/ NetContestChanged \/ WindowCloses => TypeOK' BY PostsTyped
<1>5. ServerReads \/ LinkLost \/ (\E kind \in Kinds : ServerChanges(kind)) => TypeOK'
  BY ServerTyped
<1>6. NetLinkConnect \/ NetLinkReconnect \/ NetLinkDisconnect
      \/ (\E id \in Ids : ChangeComputerId(id)) => TypeOK' BY OperatorTyped
<1>7. UNCHANGED vars => TypeOK' BY DEF vars, TypeOK
<1>8. QED BY <1>1, <1>2, <1>3, <1>4, <1>5, <1>6, <1>7 DEF Next, Threads, Reader, Queued

\* Every variable keeps its type, for any set of ids and any bounds.
THEOREM TypeCorrect == Spec => []TypeOK
<1>1. Init => TypeOK BY InitTyped
<1>2. TypeOK /\ [Next]_vars => TypeOK' BY StepTyped
<1>3. QED BY <1>1, <1>2, PTL DEF Spec

\* Posting leaves a connection where it is.
LEMMA PostedKeepsState ==
    ASSUME TypeOK, NEW message PROVE PostedByMain(message).state = conn.state
                                     /\ Posted(conn, message).state = conn.state
BY DEF PostedByMain, Posted, TypeOK, Conns

\* And the connect thread finds no reader until it has created one.
Backed ==
    /\ LiveLinkHasReader
    /\ attempt \in {"dialling", "reader"} => client.reader = "none"

\* Every teardown takes flag, reader and connection; no other step takes one without the other.
LEMMA LinkBackedStep == TypeOK /\ Backed /\ [Next]_vars => Backed'
<1> SUFFICES ASSUME TypeOK, Backed, [Next]_vars PROVE Backed' OBVIOUS
<1> USE DEF Backed, LiveLinkHasReader
<1>1. client \in Clients /\ conn \in Conns BY DEF TypeOK
<1>2. ~Down.up /\ Down.reader = "none" BY DEF Down
<1>3. ASSUME Threads PROVE Backed'
  <2>1. CASE TearDown BY <2>1, <1>2 DEF TearDown, Down
  <2>2. CASE DialFails BY <2>2, <1>2 DEF DialFails
  <2>3. CASE DialSucceeds BY <2>3, <1>1 DEF DialSucceeds, Clients, NoConn
  <2>3r. CASE StartReader BY <2>3r, <1>1 DEF StartReader, Clients
  <2>4. CASE SendHello BY <2>4, PostedKeepsState DEF SendHello
  <2>5. CASE LookAtWish BY <2>5, <1>2 DEF LookAtWish
  <2>6. CASE NetBeginLinkSession \/ AttemptEnds BY <2>6 DEF NetBeginLinkSession, AttemptEnds
  <2>7. QED BY <1>3, <2>1, <2>2, <2>3, <2>3r, <2>4, <2>5, <2>6 DEF Threads
<1>4. ASSUME Reader PROVE Backed'
  <2>1. ASSUME NEW n \in 1 .. Len(conn.out), NetDataArrived(n) PROVE Backed'
    BY <2>1, <1>1 DEF NetDataArrived, Conns
  <2>2. CASE ReaderEnds BY <2>2, <1>1 DEF ReaderEnds, Clients
  <2>3. CASE NetLinkDropped BY <2>3, <1>1 DEF NetLinkDropped, Clients
  <2>4. QED BY <1>4, <2>1, <2>2, <2>3 DEF Reader
<1>5. ASSUME Queued PROVE Backed'
  <2>1. CASE Drain
    <3> DEFINE sent == [Posted(conn, None) EXCEPT !.resends = UpToTwo(@ + 1)]
    <3>1. client' = Down \/ (client' = client /\ (conn' = conn \/ conn' = sent))
      BY <2>1 DEF Drain
    <3>2. Posted(conn, None) \in Conns BY <1>1, PostedTyped DEF FromStation
    <3>3. sent.state = conn.state BY <3>2, PostedKeepsState DEF Conns
    <3> HIDE DEF sent
    <3>4. UNCHANGED attempt BY <2>1 DEF Drain
    <3>5. QED BY <3>1, <3>3, <3>4, <1>2
  <2>2. CASE ReportDropped BY <2>2, <1>2 DEF ReportDropped
  <2>3. CASE AnnounceStation BY <2>3, PostedKeepsState DEF AnnounceStation
  <2>4. QED BY <1>5, <2>1, <2>2, <2>3 DEF Queued
<1>6. ASSUME ServerReads PROVE Backed'
  <2>1. Answer.state = conn.state BY <1>1 DEF Answer, Conns
  <2>2. conn.state \in Open => Greeted(Head(conn.in)).state # "none"
    <3>1. \A state \in Open \cup Closed : state # "none" BY DEF Open, Closed
    <3>2. QED BY <2>1, <3>1, <1>1 DEF Greeted, Answer, Conns, Open
  <2>3. client' = client /\ attempt' = attempt BY <1>6 DEF ServerReads
  <2>4. conn'.state # "none" BY <1>6, <2>1, <2>2, <1>1 DEF ServerReads, Answer, Conns, Open
  <2>5. QED BY <2>3, <2>4
<1>7. ASSUME LinkLost \/ \E kind \in Kinds : ServerChanges(kind) PROVE Backed'
  <2>1. Broken.state # "none" \/ Broken = conn BY <1>1 DEF Broken, Conns
  <2>2. client' = client /\ attempt' = attempt /\ conn' = Broken
    BY <1>7 DEF LinkLost, ServerChanges
  <2>3. QED BY <2>1, <2>2
<1>8. ASSUME SendToNet \/ NetContestChanged PROVE Backed'
  BY <1>8, PostedKeepsState DEF SendToNet, NetContestChanged
<1>9. ASSUME \/ NetLinkTick \/ WindowCloses \/ NetLinkConnect
             \/ (\E id \in Ids : ChangeComputerId(id)) \/ UNCHANGED vars
      PROVE Backed'
  BY <1>9 DEF NetLinkTick, WindowCloses, NetLinkConnect, ChangeComputerId, vars, TryConnectToNetwork
<1>10. ASSUME NetLinkReconnect \/ NetLinkDisconnect PROVE Backed'
  BY <1>10, <1>2 DEF NetLinkReconnect, NetLinkDisconnect, TryConnectToNetwork
<1>11. QED BY <1>3, <1>4, <1>5, <1>6, <1>7, <1>8, <1>9, <1>10 DEF Next, Threads, Reader, Queued

\* Whoever finds the client connected has a connection behind the flag and a reader, or the
\* connect thread about to create it, whatever order the connect thread, the reader and the
\* main thread ran in.
THEOREM LinkIsBacked == Spec => []LiveLinkHasReader
<1>1. Init => Backed BY DEF Init, Backed, LiveLinkHasReader, Down
<1>2. TypeOK /\ Backed /\ [Next]_vars => Backed' BY LinkBackedStep
<1>3. Backed => LiveLinkHasReader BY DEF Backed
<1>4. QED BY <1>1, <1>2, <1>3, TypeCorrect, PTL DEF Spec

(* Disconnect.  While an attempt is in flight, Disconnect leaves the link to the connect
   thread; the thread's look comes before it ends, so once it is ending the look has been
   taken, and only a Disconnect after it can have been missed. *)

DisconnectInv == ~wanted /\ attempt \in {"none", "ending"} /\ client.up => past.missed

\* No step leaves an unwanted link up behind a thread that has looked, unless it is noted.
LEMMA DisconnectStep == TypeOK /\ DisconnectInv /\ [Next]_vars => DisconnectInv'
<1> SUFFICES ASSUME TypeOK, DisconnectInv, [Next]_vars PROVE DisconnectInv' OBVIOUS
<1> USE DEF DisconnectInv
<1>1. client \in Clients /\ past \in Pasts /\ attempt \in Attempts BY DEF TypeOK
<1>2. ~Down.up BY DEF Down
<1>3. ASSUME Threads PROVE DisconnectInv'
  <2>1. CASE LookAtWish BY <2>1, <1>2 DEF LookAtWish
  <2>2. CASE AttemptEnds BY <2>2 DEF AttemptEnds
  <2>3. CASE TearDown \/ DialFails \/ DialSucceeds \/ StartReader \/ NetBeginLinkSession \/ SendHello
    BY <2>3 DEF TearDown, DialFails, DialSucceeds, StartReader, NetBeginLinkSession, SendHello
  <2>4. QED BY <1>3, <2>1, <2>2, <2>3 DEF Threads
<1>4. ASSUME Reader PROVE DisconnectInv'
  <2>1. client'.up => client.up
    BY <1>4, <1>1 DEF Reader, NetDataArrived, ReaderEnds, NetLinkDropped, Clients
  <2>2. UNCHANGED <<wanted, attempt, past>>
    BY <1>4 DEF Reader, NetDataArrived, ReaderEnds, NetLinkDropped
  <2>3. QED BY <2>1, <2>2
<1>5. ASSUME Queued PROVE DisconnectInv'
  <2>1. client'.up => client.up
    BY <1>5, <1>2 DEF Queued, Drain, ReportDropped, AnnounceStation
  <2>2. UNCHANGED <<wanted, attempt>>
    BY <1>5 DEF Queued, Drain, ReportDropped, AnnounceStation
  <2>3. past'.missed = past.missed
    BY <1>5, <1>1 DEF Queued, Drain, ReportDropped, AnnounceStation, Pasts
  <2>4. QED BY <2>1, <2>2, <2>3
<1>6. ASSUME \/ ServerReads \/ LinkLost \/ (\E kind \in Kinds : ServerChanges(kind))
             \/ SendToNet \/ WindowCloses \/ UNCHANGED vars
      PROVE DisconnectInv'
  BY <1>6 DEF ServerReads, LinkLost, ServerChanges, SendToNet, WindowCloses, vars
<1>7. ASSUME NetContestChanged \/ \E id \in Ids : ChangeComputerId(id) PROVE DisconnectInv'
  <2>1. UNCHANGED <<wanted, attempt, client>> BY <1>7 DEF NetContestChanged, ChangeComputerId
  <2>2. past'.missed = past.missed BY <1>7, <1>1 DEF NetContestChanged, ChangeComputerId, Pasts
  <2>3. QED BY <2>1, <2>2
<1>8. ASSUME NetLinkTick \/ NetLinkConnect \/ NetLinkReconnect PROVE DisconnectInv'
  BY <1>8 DEF NetLinkTick, NetLinkConnect, NetLinkReconnect
<1>9. ASSUME NetLinkDisconnect PROVE DisconnectInv'
  <2>1. past'.missed = (attempt = "ending") /\ attempt' = attempt
    BY <1>9, <1>1 DEF NetLinkDisconnect, Pasts
  <2>2. attempt = "none" => client' = Down BY <1>9 DEF NetLinkDisconnect
  <2>3. QED BY <2>1, <2>2, <1>2
<1>10. QED BY <1>3, <1>4, <1>5, <1>6, <1>7, <1>8, <1>9 DEF Next, Threads, Reader, Queued

\* A link the operator has disconnected is down when no attempt is in flight, unless he
\* disconnected after the connect thread's last look at his wish and before its end.
THEOREM DisconnectTakesEffect == Spec => []UnwantedLinkIsDropped
<1>1. Init => DisconnectInv BY DEF Init, DisconnectInv, Down
<1>2. TypeOK /\ DisconnectInv /\ [Next]_vars => DisconnectInv' BY DisconnectStep
<1>3. DisconnectInv => UnwantedLinkIsDropped BY DEF DisconnectInv, UnwantedLinkIsDropped
<1>4. QED BY <1>1, <1>2, <1>3, TypeCorrect, PTL DEF Spec


(* What is posted, answered and lost: the connection before and after. *)

\* A link that is gone: nothing of it is left but what the main thread was told.
LEMMA GoneFields ==
    /\ ~Down.up /\ Down.stopping /\ Down.reader = "none"
    /\ NoConn.state = "none" /\ NoConn.in = <<>> /\ NoConn.out = <<>>
    /\ ~NoConn.early /\ ~NoConn.answered /\ NoConn.resends = 0
BY DEF Down, NoConn

\* Posting changes what the server has still to read, and nothing else.
LEMMA PostedFields ==
    ASSUME TypeOK, NEW message
    PROVE  LET p == Posted(conn, message) IN
           /\ p.state = conn.state /\ p.out = conn.out /\ p.early = conn.early
           /\ p.answered = conn.answered /\ p.resends = conn.resends
           /\ p.in = IF client.up /\ (message = None => conn.state = "fresh" /\ conn.in = <<>>)
                     THEN Append(conn.in, message) ELSE conn.in
BY DEF Posted, TypeOK, Conns

\* The main thread's post is noted when it may have overtaken the HELLO.
LEMMA PostedByMainFields ==
    ASSUME TypeOK, NEW message
    PROVE  LET p == PostedByMain(message) IN
           /\ p.state = conn.state /\ p.out = conn.out
           /\ p.early = (conn.early \/ (client.up /\ attempt \in Unannounced))
           /\ p.answered = conn.answered /\ p.resends = conn.resends
           /\ p.in = IF client.up /\ (message = None => conn.state = "fresh" /\ conn.in = <<>>)
                     THEN Append(conn.in, message) ELSE conn.in
<1> DEFINE q == Posted(conn, message)
<1>1. q = conn \/ q = [conn EXCEPT !.in = Append(@, message)] BY DEF Posted
<1>2. conn \in Conns BY DEF TypeOK
<1>3. PostedByMain(message) = [q EXCEPT !.early = @ \/ (client.up /\ attempt \in Unannounced)]
  BY DEF PostedByMain
<1>4. DOMAIN q = {"state", "in", "out", "early", "answered", "resends"} BY <1>1, <1>2 DEF Conns
<1>5. /\ q.state = conn.state /\ q.out = conn.out /\ q.early = conn.early
      /\ q.answered = conn.answered /\ q.resends = conn.resends
      /\ q.in = IF client.up /\ (message = None => conn.state = "fresh" /\ conn.in = <<>>)
                THEN Append(conn.in, message) ELSE conn.in
  BY PostedFields
<1> HIDE DEF q
<1>6. QED BY <1>3, <1>4, <1>5

\* A broken connection keeps its history; what was on the wire is lost.
LEMMA BrokenFields ==
    ASSUME TypeOK
    PROVE  /\ Broken.early = conn.early /\ Broken.answered = conn.answered
           /\ Broken.resends = conn.resends
           /\ conn.state \in Open => Broken.state = "lost" /\ Broken.in = <<>> /\ Broken.out = <<>>
           /\ conn.state \notin Open => Broken = conn
BY DEF Broken, TypeOK, Conns

\* The server takes one message, answers behind what it has said, and closes or goes on.
LEMMA ReadsFields ==
    ASSUME TypeOK, ServerReads
    PROVE  /\ conn.state \in Open /\ conn.in # <<>> /\ conn'.in = Tail(conn.in)
           /\ conn'.early = conn.early /\ conn'.answered = conn.answered
           /\ conn'.resends = conn.resends /\ conn'.state # "none"
           /\ conn.state = "joined" => conn'.state = "joined"
           /\ Head(conn.in) = None => conn'.out = conn.out
           /\ conn.state = "fresh" /\ Head(conn.in) = None => conn'.state \in {"fresh", "refused"}
           /\ conn.state = "fresh" /\ Head(conn.in) # None =>
                 \/ /\ conn'.state = "joined"
                    /\ conn'.out = conn.out \o <<"hello">> \o Judged(Head(conn.in))
                 \/ conn'.state = "refused" /\ conn'.out = Append(conn.out, "mismatch")
                 \/ conn'.state = "older" /\ conn'.out = conn.out
           /\ UNCHANGED <<wanted, attempt, client, mainq, pending, session, refused, myId, server,
                          held, moves, past>>
<1>1. conn \in Conns /\ server \in Kinds BY DEF TypeOK
<1>2. Answer.in = Tail(conn.in) /\ Answer.state = conn.state /\ Answer.out = conn.out
      /\ Answer.early = conn.early /\ Answer.answered = conn.answered
      /\ Answer.resends = conn.resends
      /\ DOMAIN Answer = {"state", "in", "out", "early", "answered", "resends"}
  BY <1>1 DEF Answer, Conns
<1>3. CASE conn.state = "fresh"
  <2>1. conn' = Greeted(Head(conn.in)) BY <1>3 DEF ServerReads
  <2>2. QED BY <2>1, <1>1, <1>2, <1>3 DEF Greeted, Kinds, ServerReads, Open
<1>4. CASE conn.state # "fresh"
  <2>1. conn' = [Answer EXCEPT !.out = IF Head(conn.in) = None THEN @
                                       ELSE @ \o Judged(Head(conn.in))]
    BY <1>4 DEF ServerReads
  <2>2. QED BY <2>1, <1>1, <1>2, <1>4 DEF ServerReads, Open
<1>5. QED BY <1>3, <1>4

\* One drain of the queue, by what it finds: a refusal takes the link down, an answer
\* lets the offline work go, anything else leaves the link alone.
LEMMA DrainFields ==
    ASSUME TypeOK, Drain
    PROVE  /\ Takes("drain") /\ pending' = <<>> /\ UNCHANGED <<wanted, attempt, myId, server, held, moves>>
           /\ refused' = RefusedAfter(pending)
           /\ session'.helloSeen = SessionAfter(pending).helloSeen
           /\ session'.helloRecent = session.helloRecent
           /\ past'.muddled = past.muddled
           /\ past'.told = UpToTwo(past.told + Cardinality(RefusalsIn(pending)))
           /\ past'.latchedFor = IF "mismatch" \in ToSet(pending) THEN "mismatch" ELSE past.latchedFor
           /\ RefusalsIn(pending) # {} =>
                 /\ client' = Down /\ conn' = NoConn
                 /\ past'.stale = (past.stale \/ mainq' # <<>> \/ client.reader = "ending")
           /\ RefusalsIn(pending) = {} =>
                 /\ client' = client /\ past'.stale = past.stale
                 /\ conn'.state = conn.state /\ conn'.out = conn.out /\ conn'.early = conn.early
                 /\ conn'.answered = conn.answered
                 /\ LET goes == ResendOfflineWork(SessionAfter(pending), RefusedAfter(pending)) IN
                    /\ session'.resent = (session.resent \/ goes)
                    /\ conn'.resends = IF goes THEN UpToTwo(conn.resends + 1) ELSE conn.resends
                    /\ conn'.in = conn.in \/ (conn.state = "fresh" /\ conn.in = <<>> /\ conn'.in = <<None>>)
<1> DEFINE s == SessionAfter(pending)
           r == RefusedAfter(pending)
           leaves == RefusalsIn(pending) # {}
           goes == ResendOfflineWork(s, r)
           sent == [Posted(conn, None) EXCEPT !.resends = UpToTwo(@ + 1)]
<1>1. s \in Sessions /\ r \in Refusals BY RefusedAfterTyped
<1>2. session' = [s EXCEPT !.resendDue = FALSE, !.resent = @ \/ (~leaves /\ goes)] BY DEF Drain
<1>3. s.helloRecent = session.helloRecent /\ s.resent = session.resent
  BY DEF SessionAfter, TypeOK, Sessions
<1>4. session'.helloSeen = s.helloSeen /\ session'.helloRecent = session.helloRecent
      /\ session'.resent = (session.resent \/ (~leaves /\ goes))
  <2> HIDE DEF s, leaves, goes
  <2>1. QED BY <1>1, <1>2, <1>3 DEF Sessions
<1>5. past' = [past EXCEPT
                !.stale = @ \/ (leaves /\ (mainq' # <<>> \/ client.reader = "ending")),
                !.told = UpToTwo(@ + Cardinality(RefusalsIn(pending))),
                !.latchedFor = IF "mismatch" \in ToSet(pending) THEN "mismatch" ELSE @]
  BY DEF Drain
<1>6. /\ past'.muddled = past.muddled
      /\ past'.told = UpToTwo(past.told + Cardinality(RefusalsIn(pending)))
      /\ past'.latchedFor = IF "mismatch" \in ToSet(pending) THEN "mismatch" ELSE past.latchedFor
      /\ past'.stale = (past.stale \/ (leaves /\ (mainq' # <<>> \/ client.reader = "ending")))
  <2> HIDE DEF leaves
  <2>1. past \in Pasts BY DEF TypeOK
  <2>2. QED BY <1>5, <2>1 DEF Pasts
<1>7. /\ sent.state = conn.state /\ sent.out = conn.out /\ sent.early = conn.early
      /\ sent.answered = conn.answered /\ sent.resends = UpToTwo(conn.resends + 1)
      /\ sent.in = conn.in \/ (conn.state = "fresh" /\ conn.in = <<>> /\ sent.in = <<None>>)
  <2> DEFINE q == Posted(conn, None)
  <2>1. q = conn \/ q = [conn EXCEPT !.in = Append(@, None)] BY DEF Posted
  <2>2. conn \in Conns BY DEF TypeOK
  <2>3. DOMAIN q = {"state", "in", "out", "early", "answered", "resends"} BY <2>1, <2>2 DEF Conns
  <2>4. /\ q.state = conn.state /\ q.out = conn.out /\ q.early = conn.early
        /\ q.answered = conn.answered /\ q.resends = conn.resends
        /\ q.in = conn.in \/ (conn.state = "fresh" /\ conn.in = <<>> /\ q.in = Append(conn.in, None))
    BY PostedFields
  <2>5. conn.in = <<>> => Append(conn.in, None) = <<None>> OBVIOUS
  <2>6. sent = [q EXCEPT !.resends = UpToTwo(@ + 1)] OBVIOUS
  <2> HIDE DEF q, sent
  <2>7. QED BY <2>3, <2>4, <2>5, <2>6
<1>8. /\ leaves => client' = Down /\ conn' = NoConn
      /\ ~leaves => client' = client /\ conn' = IF goes THEN sent ELSE conn
  BY DEF Drain
<1>9. Takes("drain") /\ pending' = <<>> /\ UNCHANGED <<wanted, attempt, myId, server, held, moves>>
      /\ refused' = r
  BY DEF Drain
<1>10. leaves => past'.stale = (past.stale \/ mainq' # <<>> \/ client.reader = "ending")
  BY <1>6
<1>11. ~leaves => past'.stale = past.stale
  <2> HIDE DEF leaves
  <2>1. past.stale \in BOOLEAN BY DEF TypeOK, Pasts
  <2>2. QED BY <1>6, <2>1
<1>12. ~leaves => session'.resent = (session.resent \/ goes)
  <2> HIDE DEF leaves, goes
  <2>1. QED BY <1>4
<1>13. ~leaves =>
         /\ conn'.state = conn.state /\ conn'.out = conn.out /\ conn'.early = conn.early
         /\ conn'.answered = conn.answered
         /\ conn'.resends = IF goes THEN UpToTwo(conn.resends + 1) ELSE conn.resends
         /\ conn'.in = conn.in \/ (conn.state = "fresh" /\ conn.in = <<>> /\ conn'.in = <<None>>)
  <2> HIDE DEF leaves, goes, sent
  <2>1. QED BY <1>7, <1>8
<1>14. QED BY <1>4, <1>6, <1>8, <1>9, <1>10, <1>11, <1>12, <1>13

(* The link, its reader and what the main thread has still to hear of it.  An attempt that
   begins while something of an earlier link is unheard is marked (past.stale, and
   past.muddled for the warnings); of the others more can be said: nothing reaches the main
   thread in the wrong order. *)

Dialling == attempt \in {"starting", "dialling"}     \* no link yet
Unread == Dialling \/ attempt = "reader"             \* nor a reader
Greeting == attempt \in Unannounced                 \* a link, and no HELLO of it yet

\* A link is up only once it has been dialled; a connection that is open has the flag up;
\* what has come is announced to the main thread.
Shape ==
    /\ client.up => ~Dialling
    /\ conn.state \in Open => client.up
    /\ pending # <<>> => "drain" \in ToSet(mainq)

\* An attempt that was not marked begins with nothing left of the link before it.
CleanStart ==
    Unread /\ (~past.stale \/ ~past.muddled) =>
        /\ mainq = <<>> /\ pending = <<>> /\ client.reader = "none" /\ refused.id = None
        /\ ~past.muddled => past.told = 0

\* A reader reads on a link that is down only where the main thread, with reports of an
\* earlier link before it, took the link down before the reader was created.
Orphan ==
    (client.reader = "reading" \/ attempt = "reader") /\ ~client.up =>
        conn.state = "none" /\ conn.out = <<>> /\ past.stale /\ past.muddled

\* The queue of the main thread is a sequence of the three things it may be told.
LEMMA QueueElements ==
    ASSUME TypeOK
    PROVE  /\ mainq \in Seq({"drain", "dropped", "announce"}) /\ pending \in Seq(FromServer)
           /\ \A x : x \in ToSet(mainq) <=> \E i \in 1 .. Len(mainq) : mainq[i] = x
           /\ \A x : x \in ToSet(pending) <=> \E i \in 1 .. Len(pending) : pending[i] = x
BY DEF TypeOK, ToSet

\* What is queued behind the rest is found there, and the rest with it.
LEMMA QueuedBehind ==
    ASSUME TypeOK, NEW what \in {"drain", "dropped", "announce"}, mainq' = Append(mainq, what)
    PROVE  ToSet(mainq)' = ToSet(mainq) \cup {what}
<1>1. mainq \in Seq({"drain", "dropped", "announce"}) BY DEF TypeOK
<1>2. \A x : x \in ToSet(mainq)' <=> \E i \in 1 .. Len(mainq) + 1 : mainq'[i] = x
  BY <1>1 DEF ToSet
<1>3. \A i \in 1 .. Len(mainq) : mainq'[i] = mainq[i] BY <1>1
<1>4. mainq'[Len(mainq) + 1] = what BY <1>1
<1>5. QED BY <1>1, <1>2, <1>3, <1>4, QueueElements

\* What is taken off the queue is all that is missing from it.
LEMMA TakenOff ==
    ASSUME TypeOK, NEW what, Takes(what)
    PROVE  /\ ToSet(mainq) = ToSet(mainq') \cup {what}
           /\ mainq # <<>> /\ mainq[1] = what /\ Len(mainq') = Len(mainq) - 1
           /\ \A i \in 1 .. Len(mainq') : mainq'[i] = mainq[i + 1]
<1>1. mainq \in Seq({"drain", "dropped", "announce"}) /\ mainq # <<>>
      /\ mainq[1] = what /\ mainq' = Tail(mainq)
  BY DEF TypeOK, Takes
<1>2. Len(mainq') = Len(mainq) - 1 /\ \A i \in 1 .. Len(mainq') : mainq'[i] = mainq[i + 1]
      /\ mainq' \in Seq({"drain", "dropped", "announce"})
  BY <1>1
<1>3. \A x : x \in ToSet(mainq') <=> \E i \in 1 .. Len(mainq') : mainq'[i] = x
  BY <1>2 DEF ToSet
<1>4. \A i \in 1 .. Len(mainq) : i = 1 \/ (i - 1 \in 1 .. Len(mainq') /\ mainq[i] = mainq'[i - 1])
  BY <1>1, <1>2
<1>5. \A i \in 1 .. Len(mainq') : i + 1 \in 1 .. Len(mainq) BY <1>1, <1>2
<1>6. 1 \in 1 .. Len(mainq) BY <1>1
<1>7. \A x : x \in ToSet(mainq) <=> \E i \in 1 .. Len(mainq) : mainq[i] = x
  BY QueueElements
<1>8. ASSUME NEW x \in ToSet(mainq) PROVE x = what \/ x \in ToSet(mainq')
  <2>1. PICK i \in 1 .. Len(mainq) : mainq[i] = x BY <1>7
  <2>2. i = 1 => x = what BY <2>1, <1>1
  <2>3. i # 1 => x \in ToSet(mainq') BY <2>1, <1>3, <1>4
  <2>4. QED BY <2>2, <2>3
<1>9. ASSUME NEW x \in ToSet(mainq') PROVE x \in ToSet(mainq)
  <2>1. PICK i \in 1 .. Len(mainq') : mainq'[i] = x BY <1>3
  <2>2. i + 1 \in 1 .. Len(mainq) /\ mainq[i + 1] = x BY <2>1, <1>2, <1>5
  <2>3. QED BY <2>2, <1>7
<1>10. what \in ToSet(mainq) BY <1>1, <1>6, <1>7
<1>11. QED BY <1>1, <1>2, <1>8, <1>9, <1>10

\* What is taken off the head is not missed by what asks for something else.
LEMMA OthersStay ==
    ASSUME TypeOK, NEW what, Takes(what), NEW x, x # what
    PROVE  x \in ToSet(mainq)' <=> x \in ToSet(mainq)
<1>1. ToSet(mainq) = ToSet(mainq') \cup {what} BY TakenOff
<1>2. ToSet(mainq)' = ToSet(mainq') BY DEF ToSet
<1>3. QED BY <1>1, <1>2

\* No step takes the shape away.
LEMMA ShapeStep == TypeOK /\ Backed /\ Shape /\ [Next]_vars => Shape'
<1> SUFFICES ASSUME TypeOK, Backed, Shape, [Next]_vars PROVE Shape' OBVIOUS
<1> USE DEF Shape, Dialling, Backed, LiveLinkHasReader
<1>1. client \in Clients /\ conn \in Conns /\ attempt \in Attempts BY DEF TypeOK
<1>2. ~Down.up /\ Down.reader = "none" /\ NoConn.state = "none" /\ "none" \notin Open
  BY GoneFields DEF Open
<1>3. ASSUME UNCHANGED mainq, UNCHANGED pending PROVE ToSet(mainq)' = ToSet(mainq)
  BY <1>3 DEF ToSet
<1>4. ASSUME UNCHANGED <<client, attempt, mainq, pending>>, conn'.state = conn.state PROVE Shape'
  BY <1>3, <1>4
<1>5. ASSUME client' = Down, conn' = NoConn, pending' = <<>> PROVE Shape'
  BY <1>2, <1>5
<1>6. CASE TearDown
  <2>1. UNCHANGED <<mainq, pending>> /\ ~client'.up /\ client'.reader = "none" /\ conn'.state = "none"
    BY <1>6, <1>2 DEF TearDown, Down
  <2>2. QED BY <2>1, <1>3, <1>2
<1>7. CASE DialFails BY <1>7, <1>5 DEF DialFails
<1>8. CASE DialSucceeds
  <2>1. UNCHANGED <<mainq, pending>> /\ client'.up /\ attempt' = "reader"
    BY <1>8, <1>1 DEF DialSucceeds, Clients
  <2>2. QED BY <2>1, <1>3
<1>9. CASE StartReader \/ NetBeginLinkSession
  <2>1. UNCHANGED <<mainq, pending, conn>> /\ client'.up = client.up /\ ~Dialling'
    BY <1>9, <1>1 DEF StartReader, NetBeginLinkSession, Clients
  <2>2. QED BY <2>1, <1>3
<1>10. CASE SendHello
  <2>1. conn'.state = conn.state /\ mainq' = Append(mainq, "announce") /\ UNCHANGED <<client, pending>>
        /\ attempt' = "look"
    BY <1>10, PostedFields DEF SendHello
  <2>2. "drain" \in ToSet(mainq) => "drain" \in ToSet(mainq)' BY <2>1, QueuedBehind
  <2>3. QED BY <2>1, <2>2
<1>11. CASE LookAtWish
  <2>1. CASE client' = Down /\ conn' = NoConn /\ pending' = <<>> BY <2>1, <1>5
  <2>2. CASE UNCHANGED <<client, conn, pending>> BY <1>11, <2>2, <1>3 DEF LookAtWish
  <2>3. QED BY <1>11, <2>1, <2>2 DEF LookAtWish
<1>12. CASE AttemptEnds BY <1>12, <1>3 DEF AttemptEnds
<1>13. ASSUME NEW n \in 1 .. Len(conn.out), NetDataArrived(n) PROVE Shape'
  <2>1. mainq' = Append(mainq, "drain") /\ UNCHANGED <<client, attempt>> /\ conn'.state = conn.state
    BY <1>13, <1>1 DEF NetDataArrived, Conns
  <2>2. "drain" \in ToSet(mainq)' BY <2>1, QueuedBehind
  <2>3. QED BY <2>1, <2>2
<1>14. CASE ReaderEnds
  <2>1. UNCHANGED <<conn, mainq, pending, attempt>> /\ ~client'.up /\ client'.reader = "ending"
        /\ conn.state \notin Open
    BY <1>14, <1>1 DEF ReaderEnds, Clients, Closed, Open
  <2>2. QED BY <2>1, <1>3
<1>15. CASE NetLinkDropped
  <2>1. UNCHANGED <<conn, pending, attempt>> /\ client'.up = client.up /\ client'.reader = "none"
    BY <1>15, <1>1 DEF NetLinkDropped, Clients
  <2>2. ToSet(mainq) \subseteq ToSet(mainq)'
    <3>1. CASE mainq' = mainq BY <3>1 DEF ToSet
    <3>2. CASE mainq' = Append(mainq, "dropped") BY <3>2, QueuedBehind
    <3>3. QED BY <1>15, <3>1, <3>2 DEF NetLinkDropped
  <2>3. QED BY <2>1, <2>2
<1>16. CASE Drain
  <2>1. pending' = <<>> /\ UNCHANGED attempt
    BY <1>16, DrainFields
  <2>2. CASE RefusalsIn(pending) # {} BY <2>1, <2>2, <1>2, <1>16, DrainFields
  <2>3. CASE RefusalsIn(pending) = {} BY <2>1, <2>3, <1>16, DrainFields
  <2>4. QED BY <2>2, <2>3
<1>17. CASE ReportDropped BY <1>17, <1>5 DEF ReportDropped
<1>18. CASE AnnounceStation
  <2>1. UNCHANGED <<client, attempt, pending>> /\ conn'.state = conn.state /\ Takes("announce")
    BY <1>18, PostedByMainFields DEF AnnounceStation
  <2>2. "drain" \in ToSet(mainq)' <=> "drain" \in ToSet(mainq) BY <2>1, OthersStay
  <2>3. QED BY <2>1, <2>2
<1>19. ASSUME NetLinkTick \/ NetLinkConnect PROVE Shape'
  <2>1. ~client.up /\ UNCHANGED <<client, conn, mainq, pending>>
        /\ (attempt' = attempt \/ attempt' = "starting")
    BY <1>19 DEF NetLinkTick, NetLinkConnect, LinkCommandEnabled, NetLinkState, TryConnectToNetwork
  <2>2. QED BY <2>1, <1>3
<1>20. CASE SendToNet BY <1>20, <1>4, PostedByMainFields DEF SendToNet
<1>21. CASE NetContestChanged BY <1>21, <1>4, PostedByMainFields DEF NetContestChanged
<1>22. CASE WindowCloses BY <1>22, <1>4 DEF WindowCloses
<1>23. CASE ServerReads BY <1>23, ReadsFields, <1>3
<1>24. ASSUME LinkLost \/ \E kind \in Kinds : ServerChanges(kind) PROVE Shape'
  <2>1. conn' = Broken /\ UNCHANGED <<client, attempt, mainq, pending>>
    BY <1>24 DEF LinkLost, ServerChanges
  <2>2. QED BY <2>1, <1>3, BrokenFields DEF Open
<1>25. CASE NetLinkReconnect BY <1>25, <1>5 DEF NetLinkReconnect
<1>26. CASE NetLinkDisconnect
  <2>1. CASE client' = Down /\ conn' = NoConn /\ pending' = <<>> BY <2>1, <1>5
  <2>2. CASE UNCHANGED <<client, conn, pending>> BY <1>26, <2>2, <1>3 DEF NetLinkDisconnect
  <2>3. QED BY <1>26, <2>1, <2>2 DEF NetLinkDisconnect
<1>27. ASSUME (\E id \in Ids : ChangeComputerId(id)) \/ UNCHANGED vars PROVE Shape'
  BY <1>27, <1>4 DEF ChangeComputerId, vars
<1> QED
  BY <1>6, <1>7, <1>8, <1>9, <1>10, <1>11, <1>12, <1>13, <1>14, <1>15, <1>16, <1>17, <1>18, <1>19,
     <1>20, <1>21, <1>22, <1>23, <1>24, <1>25, <1>26, <1>27 DEF Next

\* While no warning is muddled there is at most one, and what it was for stands: the server
\* is refused, or the id is and the server has answered this link; the link is down.
Warned ==
    ~past.muddled /\ past.told # 0 =>
        /\ past.told = 1 /\ ~client.up /\ pending = <<>> /\ ~Dialling
        /\ refused.server \/ (refused.id = myId /\ session.helloSeen /\ attempt \notin {"reader", "session"})

\* The history when an attempt may begin: it is marked if something is unheard.
LEMMA NotedFields ==
    ASSUME TypeOK, NEW p \in Pasts
    PROVE  LET q == AttemptNoted(p) IN
           /\ q.told = p.told /\ q.latchedFor = p.latchedFor /\ q.missed = p.missed
           /\ attempt = "none" /\ attempt' # "none" =>
                 q.stale = Unreported /\ q.muddled = (p.muddled \/ Unreported)
           /\ ~(attempt = "none" /\ attempt' # "none") => q = p
<1>1. Unreported \in BOOLEAN BY DEF Unreported
<1>2. QED BY <1>1 DEF AttemptNoted, Pasts

\* The timer: nothing happens to a refused link; otherwise an id's refusal is forgotten and,
\* if the server is not refused and no attempt is being made, one begins.
LEMMA TickFields ==
    ASSUME TypeOK, NetLinkTick
    PROVE  /\ wanted /\ ~client.up
           /\ UNCHANGED <<wanted, client, conn, mainq, pending, session, myId, server, held, moves>>
           /\ IdRefused(refused) => refused' = refused /\ attempt' = attempt /\ past' = past
           /\ ~IdRefused(refused) =>
                 /\ refused'.id = None /\ refused'.server = refused.server
                 /\ attempt' = IF ~refused.server /\ attempt = "none" THEN "starting" ELSE attempt
           /\ past'.told = past.told /\ past'.latchedFor = past.latchedFor
           /\ attempt' # attempt =>
                 past'.stale = Unreported /\ past'.muddled = (past.muddled \/ Unreported)
           /\ attempt' = attempt => past' = past
<1>1. past \in Pasts /\ refused \in Refusals BY DEF TypeOK
<1>2. TryConnectToNetwork(refused, FALSE) /\ past' = AttemptNoted(past) /\ wanted /\ ~client.up
      /\ UNCHANGED <<wanted, client, conn, mainq, pending, session, myId, server, held, moves>>
  BY DEF NetLinkTick
<1>3. /\ IdRefused(refused) => refused' = refused /\ attempt' = attempt
      /\ ~IdRefused(refused) =>
            /\ refused' = [refused EXCEPT !.id = None]
            /\ attempt' = IF ~refused.server /\ attempt = "none" THEN "starting" ELSE attempt
  BY <1>2 DEF TryConnectToNetwork
<1>4. QED BY <1>1, <1>2, <1>3, NotedFields DEF Refusals

\* Connect and Reconnect: the refusals are forgotten, the warnings begin anew, an attempt does.
LEMMA ConnectFields ==
    ASSUME TypeOK, NetLinkConnect \/ NetLinkReconnect
    PROVE  /\ attempt = "none" /\ attempt' = "starting" /\ wanted'
           /\ ~refused'.server /\ refused'.id = None
           /\ past'.told = 0 /\ past'.latchedFor = past.latchedFor
           /\ past'.stale = Unreported /\ past'.muddled = Unreported
           /\ UNCHANGED <<mainq, session, myId, server, held>>
           /\ \/ ~client.up /\ UNCHANGED <<client, conn, pending>>
              \/ client' = Down /\ conn' = NoConn /\ pending' = <<>>
<1>1. Acted(past) \in Pasts /\ Acted(past).told = 0 /\ ~Acted(past).muddled
      /\ Acted(past).latchedFor = past.latchedFor
  <2>1. past \in Pasts BY DEF TypeOK
  <2>2. 0 \in 0 .. 2 OBVIOUS
  <2>3. QED BY <2>1, <2>2 DEF Acted, Pasts
<1>2. attempt = "none" /\ TryConnectToNetwork(ForgetServerRefusal, FALSE)
  <2>1. CASE NetLinkConnect
    <3>1. NetLinkState \in {"off", "waiting", "refused"} BY <2>1 DEF NetLinkConnect, LinkCommandEnabled
    <3>2. client.up \in BOOLEAN BY DEF TypeOK, Clients
    <3>3. ~client.up /\ attempt = "none" BY <3>1, <3>2 DEF NetLinkState
    <3>4. TryConnectToNetwork(ForgetServerRefusal, client.up) BY <2>1 DEF NetLinkConnect
    <3>5. QED BY <3>3, <3>4 DEF TryConnectToNetwork
  <2>2. CASE NetLinkReconnect BY <2>2 DEF NetLinkReconnect
  <2>3. QED BY <2>1, <2>2
<1>3. attempt' = "starting" /\ ~refused'.server /\ refused'.id = None
  BY <1>2 DEF TryConnectToNetwork, ForgetServerRefusal, IdRefused
<1>4. past' = AttemptNoted(Acted(past)) /\ wanted' /\ UNCHANGED <<mainq, session, myId, server, held>>
      /\ \/ ~client.up /\ UNCHANGED <<client, conn, pending>>
         \/ client' = Down /\ conn' = NoConn /\ pending' = <<>>
  <2>1. CASE NetLinkConnect
    <3>1. ~client.up BY <2>1 DEF NetLinkConnect, LinkCommandEnabled, NetLinkState
    <3>2. QED BY <2>1, <3>1 DEF NetLinkConnect
  <2>2. CASE NetLinkReconnect BY <2>2 DEF NetLinkReconnect
  <2>3. QED BY <2>1, <2>2
<1>5. /\ past'.told = 0 /\ past'.latchedFor = past.latchedFor
      /\ past'.stale = Unreported /\ past'.muddled = Unreported
  <2> DEFINE p == Acted(past)
  <2>1. p \in Pasts /\ p.told = 0 /\ p.muddled = FALSE /\ p.latchedFor = past.latchedFor
        /\ past' = AttemptNoted(p)
    BY <1>1, <1>4 DEF Pasts
  <2>2. (p.muddled \/ Unreported) = Unreported BY <2>1 DEF Unreported
  <2> HIDE DEF p
  <2>3. attempt = "none" /\ attempt' # "none" BY <1>2, <1>3
  <2>4. QED BY <2>1, <2>2, <2>3, NotedFields
<1>6. QED BY <1>2, <1>3, <1>4, <1>5

\* Disconnect: the link goes, or is left to the thread; what is unheard then is marked.
LEMMA DisconnectFields ==
    ASSUME TypeOK, NetLinkDisconnect
    PROVE  /\ UNCHANGED <<attempt, mainq, session, refused, myId, server, held>> /\ ~wanted'
           /\ past'.told = past.told /\ past'.latchedFor = past.latchedFor
           /\ past'.muddled = past.muddled /\ past'.stale = (past.stale \/ Unreported)
           /\ \/ attempt # "none" /\ UNCHANGED <<client, conn, pending>>
              \/ attempt = "none" /\ client' = Down /\ conn' = NoConn /\ pending' = <<>>
<1>1. past \in Pasts BY DEF TypeOK
<1>2. past' = [past EXCEPT !.missed = (attempt = "ending"), !.stale = @ \/ Unreported]
  BY DEF NetLinkDisconnect
<1>3. QED BY <1>1, <1>2 DEF NetLinkDisconnect, Pasts

\* A new id: the warnings begin anew, muddled if a link or its reports are still there.
LEMMA IdFields ==
    ASSUME TypeOK, NEW id \in Ids, ChangeComputerId(id)
    PROVE  /\ myId' = id /\ past'.told = 0 /\ past'.stale = past.stale
           /\ past'.latchedFor = past.latchedFor
           /\ past'.muddled = (past.muddled \/ client.up \/ attempt # "none" \/ Unreported)
           /\ UNCHANGED <<wanted, attempt, client, conn, mainq, pending, session, refused, server, held>>
<1>1. past \in Pasts BY DEF TypeOK
<1>2. QED BY <1>1 DEF ChangeComputerId, Pasts

\* The main thread hears of a drop: the link goes; the server may be latched and the operator told.
LEMMA DroppedFields ==
    ASSUME TypeOK, ReportDropped
    PROVE  /\ Takes("dropped") /\ client' = Down /\ conn' = NoConn /\ pending' = <<>>
           /\ UNCHANGED <<wanted, attempt, session, myId, server, held, moves>>
           /\ refused'.id = refused.id /\ past'.stale = past.stale /\ past'.muddled = past.muddled
           /\ LooksOlder(session, refused) =>
                 /\ refused'.server /\ past'.latchedFor = Reason
                 /\ past'.told = UpToTwo(past.told + 1)
           /\ ~LooksOlder(session, refused) => UNCHANGED <<refused, past>>
<1>1. past \in Pasts /\ refused \in Refusals BY DEF TypeOK
<1>2. QED BY <1>1 DEF ReportDropped, Pasts, Refusals

\* An attempt that begins finds nothing left, or is marked.
LEMMA CleanBegins ==
    ASSUME TypeOK, Shape, ~client'.up, UNCHANGED mainq, refused'.id = None, ~Unreported,
           client' = client \/ client'.reader = "none", pending' = pending \/ pending' = <<>>
    PROVE  mainq' = <<>> /\ pending' = <<>> /\ client'.reader = "none"
<1>1. mainq = <<>> /\ client.reader # "ending" /\ (client.reader = "reading" => client.up)
  BY DEF Unreported
<1>2. "drain" \notin ToSet(mainq) BY <1>1 DEF ToSet
<1>3. client \in Clients BY DEF TypeOK
<1>4. QED BY <1>1, <1>2, <1>3 DEF Shape, Clients

\* Until the link has a reader nothing of it can come.
LEMMA CleanStep ==
    TypeOK /\ Backed /\ Shape /\ CleanStart /\ Warned /\ [Next]_vars => CleanStart'
<1> SUFFICES ASSUME TypeOK, Backed, Shape, CleanStart, Warned, [Next]_vars,
                    Unread', ~past'.stale \/ ~past'.muddled
             PROVE  /\ mainq' = <<>> /\ pending' = <<>> /\ client'.reader = "none"
                    /\ refused'.id = None
                    /\ ~past'.muddled => past'.told = 0
  BY DEF CleanStart
<1> DEFINE Goal == /\ mainq' = <<>> /\ pending' = <<>> /\ client'.reader = "none"
                   /\ refused'.id = None
                   /\ ~past'.muddled => past'.told = 0
<1>1. client \in Clients /\ past \in Pasts BY DEF TypeOK
<1> USE DEF Unread, Dialling
<1>2. ASSUME ~past.stale \/ ~past.muddled, Unread
      PROVE  /\ mainq = <<>> /\ pending = <<>> /\ client.reader = "none" /\ refused.id = None
             /\ ~past.muddled => past.told = 0
  BY <1>2 DEF CleanStart
<1>3. ASSUME UNCHANGED <<mainq, pending, refused, past>>, Unread, client'.reader \in {client.reader, "none"}
      PROVE  Goal
  BY <1>2, <1>3
<1>4. CASE TearDown \/ DialSucceeds
  <2>1. UNCHANGED <<mainq, pending, refused, past>> /\ Unread
    BY <1>4 DEF TearDown, DialSucceeds
  <2>2. client'.reader \in {client.reader, "none"}
    BY <1>4, <1>1 DEF TearDown, DialSucceeds, Down, Clients
  <2>3. QED BY <2>1, <2>2, <1>3
<1>5. CASE DialFails \/ StartReader \/ NetBeginLinkSession \/ SendHello \/ LookAtWish \/ AttemptEnds
  BY <1>5 DEF DialFails, StartReader, NetBeginLinkSession, SendHello, LookAtWish, AttemptEnds
<1>6. CASE Reader
  <2>1. UNCHANGED <<past, attempt>> /\ client.reader # "none"
    BY <1>6 DEF Reader, NetDataArrived, ReaderEnds, NetLinkDropped
  <2>2. QED BY <2>1, <1>2
<1>7. CASE Queued
  <2>1. mainq # <<>> /\ UNCHANGED attempt
    BY <1>7 DEF Queued, Drain, ReportDropped, AnnounceStation, Takes
  <2>2. past'.muddled = past.muddled
    BY <1>7, DrainFields, DroppedFields DEF Queued, AnnounceStation
  <2>3. past.stale => past'.stale
    BY <1>7, <1>1, DroppedFields DEF Queued, AnnounceStation, Drain, Pasts
  <2>4. QED BY <2>1, <2>2, <2>3, <1>2
<1>8. CASE NetLinkTick
  <2>1. CASE attempt' = attempt
    <3>1. past' = past /\ UNCHANGED <<mainq, pending, client>>
          /\ (refused' = refused \/ refused'.id = None)
      BY <1>8, <2>1, TickFields
    <3>2. QED BY <3>1, <2>1, <1>2
  <2>2. CASE attempt' # attempt
    <3>1. ~IdRefused(refused) /\ refused'.id = None /\ ~refused.server /\ ~client.up
          /\ UNCHANGED <<mainq, pending, client>>
          /\ past'.stale = Unreported /\ past'.muddled = (past.muddled \/ Unreported)
          /\ past'.told = past.told
      BY <1>8, <2>2, TickFields
    <3>2. ~Unreported
      <4>1. Unreported \in BOOLEAN /\ past.muddled \in BOOLEAN BY <1>1 DEF Unreported, Pasts
      <4>2. QED BY <3>1, <4>1
    <3>3. mainq' = <<>> /\ pending' = <<>> /\ client'.reader = "none" BY <3>1, <3>2, CleanBegins
    <3>4. ~past'.muddled => past'.told = 0
      <4>1. myId # None BY ConstantsAssumption DEF TypeOK
      <4>2. ~(refused.server \/ refused.id = myId) BY <3>1, <4>1 DEF IdRefused
      <4>3. ~past'.muddled => ~past.muddled BY <3>1
      <4>4. QED BY <3>1, <4>2, <4>3 DEF Warned
    <3>5. QED BY <3>1, <3>3, <3>4
  <2>3. QED BY <2>1, <2>2
<1>9. CASE NetLinkConnect \/ NetLinkReconnect
  <2>1. refused'.id = None /\ past'.told = 0 /\ past'.stale = Unreported /\ past'.muddled = Unreported
        /\ UNCHANGED mainq /\ \/ ~client.up /\ UNCHANGED <<client, conn, pending>>
                              \/ client' = Down /\ conn' = NoConn /\ pending' = <<>>
    BY <1>9, ConnectFields
  <2>2. ~Unreported BY <2>1
  <2>3. ~client'.up /\ (client' = client \/ client'.reader = "none")
        /\ (pending' = pending \/ pending' = <<>>)
    BY <2>1, GoneFields
  <2>4. QED BY <2>1, <2>2, <2>3, CleanBegins
<1>10. CASE SendToNet \/ NetContestChanged
  <2>1. UNCHANGED <<attempt, mainq, pending, refused, client>>
    BY <1>10 DEF SendToNet, NetContestChanged
  <2>2. past'.told = past.told /\ past'.stale = past.stale /\ (past.muddled => past'.muddled)
    BY <1>10, <1>1 DEF SendToNet, NetContestChanged, Pasts
  <2>3. QED BY <2>1, <2>2, <1>2
<1>11. CASE WindowCloses \/ ServerReads \/ LinkLost \/ (\E kind \in Kinds : ServerChanges(kind))
            \/ UNCHANGED vars
  BY <1>11, <1>3 DEF WindowCloses, ServerReads, LinkLost, ServerChanges, vars
<1>12. CASE NetLinkDisconnect
  <2>1. Unread /\ UNCHANGED <<mainq, refused, client, pending>>
        /\ past'.told = past.told /\ past'.muddled = past.muddled
        /\ past'.stale = (past.stale \/ Unreported)
    BY <1>12, DisconnectFields
  <2>2. QED BY <2>1, <1>2
<1>13. ASSUME NEW id \in Ids, ChangeComputerId(id) PROVE Goal
  <2>1. UNCHANGED <<attempt, mainq, refused, client, pending>> /\ past'.told = 0
        /\ past'.stale = past.stale
        /\ past'.muddled = (past.muddled \/ client.up \/ attempt # "none" \/ Unreported)
    BY <1>13, IdFields
  <2>2. attempt # "none" BY <2>1
  <2>3. ~past.stale BY <2>1, <2>2
  <2>4. QED BY <2>1, <2>3, <1>2
<1> QED
  BY <1>4, <1>5, <1>6, <1>7, <1>8, <1>9, <1>10, <1>11, <1>12, <1>13 DEF Next, Reader, Queued

\* A reader that has lost its link before it began hears nothing.
LEMMA OrphanStep ==
    TypeOK /\ Backed /\ Shape /\ CleanStart /\ Orphan /\ [Next]_vars => Orphan'
<1> SUFFICES ASSUME TypeOK, Backed, Shape, CleanStart, Orphan, [Next]_vars,
                    client'.reader = "reading" \/ attempt' = "reader", ~client'.up
             PROVE  /\ conn'.state = "none" /\ conn'.out = <<>>
                    /\ past'.stale /\ past'.muddled
  BY DEF Orphan
<1> DEFINE Goal == /\ conn'.state = "none" /\ conn'.out = <<>>
                   /\ past'.stale /\ past'.muddled
<1>1. client \in Clients /\ past \in Pasts /\ conn \in Conns /\ client.up \in BOOLEAN
  BY DEF TypeOK, Clients
<1>2. ASSUME client' = Down, attempt' # "reader" PROVE FALSE BY <1>2, GoneFields
<1>3. ASSUME client.reader = "reading" \/ attempt = "reader", ~client.up,
             conn'.state = conn.state, conn'.out = conn.out,
             past.stale => past'.stale, past.muddled => past'.muddled
      PROVE  Goal
  BY <1>3 DEF Orphan
<1>4. CASE TearDown BY <1>4 DEF TearDown, Down
<1>5. CASE DialFails BY <1>5, <1>2 DEF DialFails
<1>6. CASE DialSucceeds BY <1>6, <1>1 DEF DialSucceeds, Clients
<1>7. CASE StartReader
  <2>1. client'.up = client.up /\ attempt = "reader" /\ UNCHANGED <<conn, past>>
    BY <1>7, <1>1 DEF StartReader, Clients
  <2>2. QED BY <2>1, <1>3
<1>8. CASE NetBeginLinkSession \/ AttemptEnds \/ WindowCloses \/ UNCHANGED vars
  <2>1. UNCHANGED <<client, conn, past>> /\ (attempt' = attempt \/ attempt' # "reader")
    BY <1>8 DEF NetBeginLinkSession, AttemptEnds, WindowCloses, vars
  <2>2. QED BY <2>1, <1>3
<1>9. CASE SendHello
  <2>1. UNCHANGED <<client, past>> /\ attempt' # "reader" /\ conn'.state = conn.state
        /\ conn'.out = conn.out
    BY <1>9, PostedFields DEF SendHello
  <2>2. QED BY <2>1, <1>3
<1>10. CASE LookAtWish
  <2>1. CASE client' = Down BY <1>10, <2>1, <1>2 DEF LookAtWish
  <2>2. CASE UNCHANGED <<client, conn, pending>> BY <1>10, <2>2, <1>3 DEF LookAtWish
  <2>3. QED BY <1>10, <2>1, <2>2 DEF LookAtWish
<1>11. ASSUME NEW n \in 1 .. Len(conn.out), NetDataArrived(n) PROVE FALSE
  <2>1. UNCHANGED client /\ client.reader = "reading" BY <1>11 DEF NetDataArrived
  <2>2. conn.out = <<>> BY <2>1 DEF Orphan
  <2>3. QED BY <2>2
<1>12. CASE ReaderEnds
  <2>1. client.reader = "reading" /\ client'.reader = "ending" /\ UNCHANGED attempt
    BY <1>12, <1>1 DEF ReaderEnds, Clients
  <2>2. QED BY <2>1 DEF Backed
<1>13. CASE NetLinkDropped
  <2>1. client.reader = "ending" /\ client'.reader = "none" /\ UNCHANGED attempt
    BY <1>13, <1>1 DEF NetLinkDropped, Clients
  <2>2. QED BY <2>1 DEF Backed
<1>14. ASSUME attempt' = attempt, mainq # <<>>, client' = Down, conn' = NoConn,
              past.stale => past'.stale, past.muddled => past'.muddled
       PROVE  Goal
  <2>1. attempt = "reader" BY <1>14, <1>2
  <2>2. past.stale /\ past.muddled BY <2>1, <1>14 DEF CleanStart, Unread
  <2>3. QED BY <2>2, <1>14, GoneFields
<1>15. CASE Drain
  <2>1. UNCHANGED attempt /\ mainq # <<>> /\ past'.muddled = past.muddled
    BY <1>15, DrainFields DEF Takes
  <2>2. past.stale => past'.stale BY <1>15, <1>1, DrainFields
  <2>3. CASE RefusalsIn(pending) # {} BY <1>15, <2>1, <2>2, <2>3, <1>14, DrainFields
  <2>4. CASE RefusalsIn(pending) = {}
    <3>1. client' = client /\ conn'.state = conn.state /\ conn'.out = conn.out
      BY <1>15, <2>4, DrainFields
    <3>2. QED BY <3>1, <2>1, <2>2, <1>3
  <2>5. QED BY <2>3, <2>4
<1>16. CASE ReportDropped
  <2>1. UNCHANGED attempt /\ mainq # <<>> /\ client' = Down /\ conn' = NoConn
        /\ past'.stale = past.stale /\ past'.muddled = past.muddled
    BY <1>16, DroppedFields DEF Takes
  <2>2. QED BY <2>1, <1>14
<1>17. CASE AnnounceStation
  <2>1. UNCHANGED <<client, attempt, past>> /\ conn'.state = conn.state /\ conn'.out = conn.out
    BY <1>17, PostedByMainFields DEF AnnounceStation
  <2>2. QED BY <2>1, <1>3
<1>18. ASSUME attempt = "none", attempt' = "starting", UNCHANGED <<client, conn>>,
              past'.stale = Unreported, Unreported => past'.muddled
       PROVE  Goal
  <2>1. client.reader = "reading" /\ ~client.up BY <1>18
  <2>2. Unreported BY <2>1 DEF Unreported
  <2>3. QED BY <2>1, <2>2, <1>18 DEF Orphan
<1>19. CASE NetLinkTick
  <2>1. UNCHANGED <<client, conn>> BY <1>19, TickFields
  <2>2. CASE attempt' = attempt BY <1>19, <2>1, <2>2, <1>3, TickFields
  <2>3. CASE attempt' # attempt
    <3>1. attempt = "none" /\ attempt' = "starting" BY <1>19, <2>3, TickFields
    <3>2. past'.stale = Unreported /\ (Unreported => past'.muddled) BY <1>19, <2>3, TickFields
    <3>3. QED BY <2>1, <3>1, <3>2, <1>18
  <2>4. QED BY <2>2, <2>3
<1>20. CASE NetLinkConnect \/ NetLinkReconnect
  <2>1. attempt = "none" /\ attempt' = "starting" /\ past'.stale = Unreported
        /\ past'.muddled = Unreported
        /\ (UNCHANGED <<client, conn>> \/ client' = Down)
    BY <1>20, ConnectFields
  <2>2. QED BY <2>1, <1>2, <1>18
<1>21. CASE SendToNet \/ NetContestChanged BY <1>21 DEF SendToNet, NetContestChanged
<1>22. ASSUME UNCHANGED <<client, attempt, past>>,
              conn.state \notin Open => conn'.state = conn.state /\ conn'.out = conn.out
       PROVE  Goal
  <2>1. conn.state = "none" BY <1>22 DEF Orphan
  <2>2. conn.state \notin Open BY <2>1 DEF Open
  <2>3. QED BY <2>2, <1>22, <1>3
<1>23. CASE ServerReads BY <1>23, <1>22, ReadsFields
<1>24. ASSUME LinkLost \/ \E kind \in Kinds : ServerChanges(kind) PROVE Goal
  <2>1. conn' = Broken /\ UNCHANGED <<client, attempt, past>>
    BY <1>24 DEF LinkLost, ServerChanges
  <2>2. QED BY <2>1, <1>22, BrokenFields
<1>25. CASE NetLinkDisconnect
  <2>1. /\ UNCHANGED attempt /\ past'.muddled = past.muddled /\ (past.stale => past'.stale)
        /\ \/ UNCHANGED <<client, conn>>
           \/ attempt = "none" /\ client' = Down
    BY <1>25, DisconnectFields
  <2>2. QED BY <2>1, <1>2, <1>3
<1>26. ASSUME NEW id \in Ids, ChangeComputerId(id) PROVE Goal
  <2>1. UNCHANGED <<client, attempt, conn>> /\ past'.stale = past.stale
        /\ (past.muddled => past'.muddled)
    BY <1>26, IdFields
  <2>2. QED BY <2>1, <1>3
<1> QED
  BY <1>4, <1>5, <1>6, <1>7, <1>8, <1>9, <1>10, <1>11, <1>12, <1>13, <1>15, <1>16, <1>17, <1>19,
     <1>20, <1>21, <1>23, <1>24, <1>25, <1>26 DEF Next

\* What the main thread hears of an attempt that was not marked, it hears in order: the drop
\* is told once, after the reader has taken everything and behind every call to drain.
Reports ==
    ~past.stale =>
        /\ client.reader = "ending" => conn.state \in Closed /\ conn.out = <<>>
        /\ \A i \in 1 .. Len(mainq) : mainq[i] = "dropped" =>
              /\ client.reader = "none" /\ conn.state \in Closed /\ conn.out = <<>>
              /\ \A j \in 1 .. Len(mainq) : mainq[j] = "dropped" => j = i
              /\ pending # <<>> => \E j \in 1 .. i - 1 : mainq[j] = "drain"

\* The main thread hears of every attempt in order.
LEMMA ReportsStep ==
    TypeOK /\ Backed /\ Shape /\ CleanStart /\ Orphan /\ Warned /\ Reports /\ [Next]_vars
        => Reports'
<1> SUFFICES ASSUME TypeOK, Backed, Shape, CleanStart, Orphan, Warned, Reports, [Next]_vars,
                    ~past'.stale
             PROVE  Reports'
  BY DEF Reports
<1> USE DEF Reports
<1>1. /\ client \in Clients /\ past \in Pasts /\ conn \in Conns
      /\ mainq \in Seq({"drain", "dropped", "announce"}) /\ pending \in Seq(FromServer)
  BY DEF TypeOK
<1>2. Len(mainq) \in Nat /\ (mainq = <<>> => Len(mainq) = 0) BY <1>1
<1>3. ASSUME mainq' = <<>>, client'.reader # "ending" PROVE Reports'
  BY <1>3
<1>4. ASSUME ~past.stale, client'.reader # "ending", client'.reader # "none" \/ client.reader # "none",
             UNCHANGED mainq
      PROVE  client.reader # "none" => Reports'
  BY <1>4
<1>5. Down.reader = "none" /\ ~Down.up BY GoneFields
<1>6. ASSUME ~past.stale, UNCHANGED <<mainq, pending, client>>,
             conn.state \in Closed /\ conn.out = <<>> =>
                conn'.state \in Closed /\ conn'.out = <<>>
      PROVE  Reports'
  BY <1>6
<1>7. ASSUME ~past.stale, Unread PROVE mainq = <<>> /\ client.reader = "none"
  BY <1>7 DEF CleanStart
<1>8. CASE TearDown \/ DialFails \/ DialSucceeds \/ StartReader
  <2>1. Unread /\ UNCHANGED <<past, mainq>>
    BY <1>8 DEF TearDown, DialFails, DialSucceeds, StartReader, Unread, Dialling
  <2>2. client'.reader # "ending"
    <3>1. CASE DialSucceeds
      <4>1. client.reader = "none" BY <2>1, <1>7
      <4>2. QED BY <3>1, <4>1, <1>1 DEF DialSucceeds, Clients
    <3>2. CASE TearDown BY <3>2, <1>5 DEF TearDown, Down
    <3>3. CASE DialFails BY <3>3, <1>5 DEF DialFails
    <3>4. CASE StartReader BY <3>4, <1>1 DEF StartReader, Clients
    <3>5. QED BY <1>8, <3>1, <3>2, <3>3, <3>4
  <2>3. QED BY <2>1, <2>2, <1>7, <1>3
<1>9. CASE NetBeginLinkSession \/ AttemptEnds \/ WindowCloses \/ UNCHANGED vars
  <2>1. UNCHANGED <<mainq, pending, client, conn, past>>
    BY <1>9 DEF NetBeginLinkSession, AttemptEnds, WindowCloses, vars
  <2>2. QED BY <2>1, <1>6
<1>10. CASE SendHello
  <2>1. conn'.state = conn.state /\ conn'.out = conn.out /\ mainq' = Append(mainq, "announce")
        /\ UNCHANGED <<client, pending, past>>
    BY <1>10, PostedFields DEF SendHello
  <2>2. Len(mainq') = Len(mainq) + 1 /\ \A i \in 1 .. Len(mainq) : mainq'[i] = mainq[i]
        /\ mainq'[Len(mainq) + 1] = "announce"
    BY <2>1, <1>1
  <2>3. \A i \in 1 .. Len(mainq') : mainq'[i] = "dropped" => i \in 1 .. Len(mainq) /\ mainq[i] = "dropped"
    <3>1. \A k \in 1 .. Len(mainq) + 1 : k \in 1 .. Len(mainq) \/ mainq'[k] = "announce"
      BY <2>1, <1>1
    <3>2. ASSUME NEW i \in 1 .. Len(mainq'), mainq'[i] = "dropped"
          PROVE  i \in 1 .. Len(mainq) /\ mainq[i] = "dropped"
      <4>1. i \in 1 .. Len(mainq) + 1 BY <2>2
      <4>2. i \in 1 .. Len(mainq) BY <4>1, <3>1, <3>2
      <4>3. QED BY <4>2, <3>2, <2>2
    <3>3. QED BY <3>2
  <2>4. ASSUME NEW i \in 1 .. Len(mainq'), mainq'[i] = "dropped"
        PROVE  /\ client'.reader = "none" /\ conn'.state \in Closed /\ conn'.out = <<>>
               /\ \A j \in 1 .. Len(mainq') : mainq'[j] = "dropped" => j = i
               /\ pending' # <<>> => \E j \in 1 .. i - 1 : mainq'[j] = "drain"
    <3>1. i \in 1 .. Len(mainq) /\ mainq[i] = "dropped" BY <2>3, <2>4
    <3>2. \A j \in 1 .. i - 1 : mainq'[j] = mainq[j] BY <3>1, <2>2, <1>2
    <3>3. pending' # <<>> => \E j \in 1 .. i - 1 : mainq[j] = "drain" BY <3>1, <2>1
    <3>4. \A j \in 1 .. Len(mainq') : mainq'[j] = "dropped" => j = i BY <3>1, <2>1, <2>3
    <3>5. QED BY <3>1, <3>2, <3>3, <3>4, <2>1
  <2>5. QED BY <2>1, <2>4
<1>11. CASE LookAtWish
  <2>1. CASE ~wanted /\ client.up
    <3>1. client.reader = "reading"
      BY <1>11, <2>1 DEF Backed, LiveLinkHasReader, LookAtWish
    <3>2. client' = Down /\ UNCHANGED <<past, mainq>> BY <1>11, <2>1 DEF LookAtWish
    <3>3. QED BY <3>1, <3>2, <1>4, <1>5
  <2>2. CASE ~(~wanted /\ client.up)
    BY <1>11, <2>2, <1>6 DEF LookAtWish
  <2>3. QED BY <2>1, <2>2
<1>12. ASSUME NEW n \in 1 .. Len(conn.out), NetDataArrived(n) PROVE Reports'
  <2>1. client.reader = "reading" /\ UNCHANGED <<client, past>> /\ mainq' = Append(mainq, "drain")
    BY <1>12 DEF NetDataArrived
  <2>2. \A i \in 1 .. Len(mainq) : mainq[i] # "dropped" BY <2>1
  <2>3. \A i \in 1 .. Len(mainq') : mainq'[i] # "dropped"
    <3>1. Len(mainq') = Len(mainq) + 1 /\ \A i \in 1 .. Len(mainq) : mainq'[i] = mainq[i]
          /\ mainq'[Len(mainq) + 1] = "drain"
      BY <2>1, <1>1
    <3>2. \A k \in 1 .. Len(mainq) + 1 : k \in 1 .. Len(mainq) \/ mainq'[k] = "drain"
      BY <2>1, <1>1
    <3>3. ASSUME NEW i \in 1 .. Len(mainq') PROVE mainq'[i] # "dropped"
      <4>1. CASE i \in 1 .. Len(mainq)
        <5>1. mainq'[i] = mainq[i] BY <3>1, <4>1
        <5>2. QED BY <5>1, <4>1, <2>2
      <4>2. CASE i \notin 1 .. Len(mainq)
        <5>1. i \in 1 .. Len(mainq) + 1 BY <3>1
        <5>2. mainq'[i] = "drain" BY <3>2, <4>2, <5>1
        <5>3. QED BY <5>2
      <4>3. QED BY <4>1, <4>2
    <3>4. QED BY <3>3
  <2>4. QED BY <2>1, <2>3
<1>13. CASE ReaderEnds
  <2>1. client.reader = "reading" /\ client'.reader = "ending" /\ UNCHANGED <<conn, mainq, past>>
        /\ conn.state \notin Open /\ conn.out = <<>>
    BY <1>13, <1>1 DEF ReaderEnds, Clients
  <2>2. client.up BY <2>1 DEF Orphan
  <2>3. conn.state # "none" BY <2>2 DEF Backed, LiveLinkHasReader
  <2>4. conn.state \in Closed BY <2>1, <2>3, <1>1 DEF Conns
  <2>5. QED BY <2>1, <2>4
<1>14. CASE NetLinkDropped
  <2>1. client.reader = "ending" /\ client'.reader = "none" /\ UNCHANGED <<conn, past, pending>>
    BY <1>14, <1>1 DEF NetLinkDropped, Clients
  <2>2. \A i \in 1 .. Len(mainq) : mainq[i] # "dropped" BY <2>1
  <2>3. CASE mainq' = mainq BY <2>1, <2>2, <2>3
  <2>4. CASE mainq' = Append(mainq, "dropped")
    <3>1. Len(mainq') = Len(mainq) + 1 /\ \A i \in 1 .. Len(mainq) : mainq'[i] = mainq[i]
      BY <2>4, <1>1
    <3>2. ASSUME NEW i \in 1 .. Len(mainq'), mainq'[i] = "dropped" PROVE i = Len(mainq) + 1
      <4>1. i \notin 1 .. Len(mainq) BY <3>1, <3>2, <2>2
      <4>2. QED BY <4>1, <3>1, <1>2
    <3>3. pending' # <<>> => \E j \in 1 .. Len(mainq) : mainq'[j] = "drain"
      BY <2>1, <3>1, QueueElements DEF Shape
    <3>4. QED BY <2>1, <3>2, <3>3, <1>2
  <2>5. QED BY <1>14, <2>3, <2>4 DEF NetLinkDropped
<1>15. CASE Drain
  <2>1. pending' = <<>> /\ (past.stale => past'.stale) /\ Takes("drain") BY <1>15, <1>1, DrainFields
  <2>2. CASE RefusalsIn(pending) # {}
    <3>1. client' = Down /\ past'.stale = (past.stale \/ mainq' # <<>> \/ client.reader = "ending")
      BY <1>15, <2>2, DrainFields
    <3>2. QED BY <3>1, <1>3, <1>5
  <2>3. CASE RefusalsIn(pending) = {}
    <3>1. client' = client /\ conn'.state = conn.state /\ conn'.out = conn.out
      BY <1>15, <2>3, DrainFields
    <3>2. Len(mainq') = Len(mainq) - 1 /\ \A i \in 1 .. Len(mainq') : mainq'[i] = mainq[i + 1]
      BY <2>1, TakenOff
    <3>3. QED BY <2>1, <3>1, <3>2, <1>2
  <2>4. QED BY <2>2, <2>3
<1>16. CASE ReportDropped
  <2>1. client' = Down /\ past'.stale = past.stale /\ Takes("dropped") BY <1>16, DroppedFields
  <2>2. /\ mainq # <<>> /\ mainq[1] = "dropped"
        /\ Len(mainq') = Len(mainq) - 1 /\ \A i \in 1 .. Len(mainq') : mainq'[i] = mainq[i + 1]
    BY <2>1, TakenOff
  <2>3. 1 \in 1 .. Len(mainq) BY <2>2, <1>1
  <2>4. \A j \in 1 .. Len(mainq) : mainq[j] = "dropped" => j = 1 BY <2>1, <2>2, <2>3
  <2>5. \A i \in 1 .. Len(mainq') : mainq'[i] # "dropped"
    <3>1. \A i \in 1 .. Len(mainq') : i + 1 \in 1 .. Len(mainq) /\ i + 1 # 1 BY <2>2, <1>2
    <3>2. QED BY <3>1, <2>2, <2>4
  <2>6. QED BY <2>1, <2>5, <1>5
<1>17. CASE AnnounceStation
  <2>1. conn'.state = conn.state /\ conn'.out = conn.out /\ Takes("announce")
        /\ UNCHANGED <<client, pending, past>>
    BY <1>17, PostedByMainFields DEF AnnounceStation
  <2>2. /\ mainq[1] = "announce"
        /\ Len(mainq') = Len(mainq) - 1 /\ \A i \in 1 .. Len(mainq') : mainq'[i] = mainq[i + 1]
    BY <2>1, TakenOff
  <2>3. ASSUME NEW i \in 1 .. Len(mainq'), mainq'[i] = "dropped"
        PROVE  /\ client'.reader = "none" /\ conn'.state \in Closed /\ conn'.out = <<>>
               /\ \A j \in 1 .. Len(mainq') : mainq'[j] = "dropped" => j = i
               /\ pending' # <<>> => \E j \in 1 .. i - 1 : mainq'[j] = "drain"
    <3>1. i + 1 \in 1 .. Len(mainq) /\ mainq[i + 1] = "dropped" BY <2>2, <2>3, <1>2
    <3>2. \A j \in 1 .. Len(mainq') : mainq'[j] = "dropped" => j = i
      <4>1. \A j \in 1 .. Len(mainq') : j + 1 \in 1 .. Len(mainq) /\ mainq'[j] = mainq[j + 1]
        BY <2>2, <1>2
      <4>2. \A j \in 1 .. Len(mainq) : mainq[j] = "dropped" => j = i + 1 BY <3>1, <2>1
      <4>3. \A j \in 1 .. Len(mainq') : j + 1 = i + 1 => j = i BY <2>2, <1>2
      <4>4. QED BY <4>1, <4>2, <4>3
    <3>3. pending' # <<>> => \E j \in 1 .. i : mainq[j] = "drain"
      <4>1. pending' # <<>> => \E j \in 1 .. (i + 1) - 1 : mainq[j] = "drain" BY <3>1, <2>1
      <4>2. (i + 1) - 1 = i OBVIOUS
      <4>3. QED BY <4>1, <4>2
    <3>4. ASSUME pending' # <<>> PROVE \E j \in 1 .. i - 1 : mainq'[j] = "drain"
      <4>1. PICK j \in 1 .. i : mainq[j] = "drain" BY <3>3, <3>4
      <4>2. j # 1 BY <4>1, <2>2
      <4>3. j - 1 \in 1 .. i - 1 /\ j - 1 \in 1 .. Len(mainq') BY <4>1, <4>2, <2>2, <1>2
      <4>4. mainq'[j - 1] = mainq[j] BY <4>1, <4>3, <2>2
      <4>5. QED BY <4>1, <4>3, <4>4
    <3>5. QED BY <3>1, <3>2, <3>4, <2>1
  <2>4. QED BY <2>1, <2>3
<1>18. CASE NetLinkTick
  <2>1. CASE attempt' = attempt
    BY <1>18, <2>1, <1>6, TickFields
  <2>2. CASE attempt' # attempt
    <3>1. ~Unreported /\ ~client.up /\ UNCHANGED <<mainq, client>> BY <1>18, <2>2, TickFields
    <3>2. QED BY <3>1, <1>3 DEF Unreported
  <2>3. QED BY <2>1, <2>2
<1>19. CASE NetLinkConnect \/ NetLinkReconnect
  <2>1. ~Unreported /\ UNCHANGED mainq /\ (client' = client \/ client' = Down)
    BY <1>19, ConnectFields
  <2>2. QED BY <2>1, <1>3, <1>5 DEF Unreported
<1>20. CASE SendToNet \/ NetContestChanged
  <2>1. conn'.state = conn.state /\ conn'.out = conn.out /\ UNCHANGED <<mainq, client, pending>>
    BY <1>20, PostedByMainFields DEF SendToNet, NetContestChanged
  <2>2. past'.stale = past.stale BY <1>20, <1>1 DEF SendToNet, NetContestChanged, Pasts
  <2>3. QED BY <2>1, <2>2, <1>6
<1>21. CASE ServerReads
  <2>1. conn.state \in Open /\ UNCHANGED <<mainq, client, pending, past>> BY <1>21, ReadsFields
  <2>2. conn.state \notin Closed BY <2>1 DEF Open, Closed
  <2>3. QED BY <2>1, <2>2, <1>6
<1>22. ASSUME LinkLost \/ \E kind \in Kinds : ServerChanges(kind) PROVE Reports'
  <2>1. conn' = Broken /\ UNCHANGED <<mainq, client, pending, past>>
    BY <1>22 DEF LinkLost, ServerChanges
  <2>2. conn.state \in Closed => conn' = conn BY <2>1, BrokenFields DEF Open, Closed
  <2>3. QED BY <2>1, <2>2, <1>6
<1>23. CASE NetLinkDisconnect
  <2>1. ~Unreported /\ ~past.stale /\ UNCHANGED mainq
        /\ (client' = Down \/ UNCHANGED <<client, conn, pending>>)
    BY <1>23, DisconnectFields
  <2>2. QED BY <2>1, <1>3, <1>5 DEF Unreported
<1>24. ASSUME NEW id \in Ids, ChangeComputerId(id) PROVE Reports'
  BY <1>24, IdFields, <1>6
<1> QED
  BY <1>8, <1>9, <1>10, <1>11, <1>12, <1>13, <1>14, <1>15, <1>16, <1>17, <1>18, <1>19, <1>20,
     <1>21, <1>22, <1>23, <1>24 DEF Next

(* A link whose reports are all its own and on which nothing went before HELLO. *)

InOrder == ~past.stale /\ ~conn.early /\ conn.state # "none" /\ ~Dialling

\* Before HELLO nothing was said; after it HELLO is what the server reads first; its answer
\* and its refusal are known to the main thread or on their way to it.
Answered ==
    InOrder =>
        /\ Greeting => /\ ~conn.answered /\ conn.resends = 0 /\ conn.in = <<>> /\ conn.out = <<>>
                       /\ pending = <<>> /\ "drain" \notin ToSet(mainq)
                       /\ conn.state \in {"fresh", "lost"}
        /\ conn.state = "fresh" /\ ~Greeting => conn.in # <<>> /\ Head(conn.in) # None
        /\ conn.answered => session.helloSeen \/ "hello" \in ToSet(pending)
        /\ conn.state = "refused" => "mismatch" \in ToSet(conn.out) \cup ToSet(pending)

\* While the link is up the session's flag says what went on it, and an answer that has not
\* let the offline work go yet waits for the main thread.
Sent ==
    InOrder /\ client.up =>
        /\ refused.id = None
        /\ attempt = "hello" => ~session.resent
        /\ attempt \notin {"reader", "session"} => conn.resends = IF session.resent THEN 1 ELSE 0
        /\ conn.answered /\ ~session.resent => "hello" \in ToSet(pending)

\* What the reader takes is what the main thread gets, and the rest is still on the wire.
LEMMA ArrivedFields ==
    ASSUME TypeOK, NEW n \in 1 .. Len(conn.out), NetDataArrived(n)
    PROVE  /\ client.reader = "reading" /\ mainq' = Append(mainq, "drain")
           /\ ToSet(pending)' = ToSet(pending) \cup ToSet(SubSeq(conn.out, 1, n))
           /\ ToSet(conn.out) = ToSet(SubSeq(conn.out, 1, n)) \cup ToSet(conn'.out)
           /\ conn'.state = conn.state /\ conn'.in = conn.in /\ conn'.early = conn.early
           /\ conn'.resends = conn.resends
           /\ conn'.answered = (conn.answered \/ "hello" \in ToSet(SubSeq(conn.out, 1, n)))
           /\ conn.out # <<>> /\ client.up \in BOOLEAN
           /\ UNCHANGED <<wanted, attempt, client, session, refused, myId, server, held, moves, past>>
<1> DEFINE taken == SubSeq(conn.out, 1, n)
           rest == SubSeq(conn.out, n + 1, Len(conn.out))
<1>1. conn \in Conns /\ conn.out \in Seq(FromServer) /\ pending \in Seq(FromServer)
  BY DEF TypeOK, Conns
<1>2. pending' = pending \o taken
      /\ conn' = [conn EXCEPT !.out = rest, !.answered = @ \/ "hello" \in ToSet(taken)]
      /\ client.reader = "reading" /\ mainq' = Append(mainq, "drain")
      /\ UNCHANGED <<wanted, attempt, client, session, refused, myId, server, held, moves, past>>
  BY DEF NetDataArrived
<1>3. /\ conn'.state = conn.state /\ conn'.in = conn.in /\ conn'.early = conn.early
      /\ conn'.resends = conn.resends /\ conn'.out = rest
      /\ conn'.answered = (conn.answered \/ "hello" \in ToSet(taken))
  <2> HIDE DEF taken, rest
  <2>1. QED BY <1>1, <1>2 DEF Conns
<1>4. /\ taken \in Seq(FromServer) /\ Len(taken) = n /\ \A i \in 1 .. n : taken[i] = conn.out[i]
      /\ rest \in Seq(FromServer) /\ Len(rest) = Len(conn.out) - n
      /\ \A i \in 1 .. Len(rest) : rest[i] = conn.out[n + i]
      /\ Len(conn.out) \in Nat /\ n \in Nat /\ n <= Len(conn.out)
  BY <1>1
<1>5. \A s \in Seq(FromServer) : \A x : x \in ToSet(s) <=> \E i \in 1 .. Len(s) : s[i] = x
  BY DEF ToSet
<1> HIDE DEF taken, rest
<1>6. ToSet(conn.out) = ToSet(taken) \cup ToSet(rest)
  <2>1. ASSUME NEW x \in ToSet(conn.out) PROVE x \in ToSet(taken) \cup ToSet(rest)
    <3>1. PICK i \in 1 .. Len(conn.out) : conn.out[i] = x BY <1>1, <1>5
    <3>2. CASE i <= n
      <4>1. i \in 1 .. n BY <3>2, <1>4
      <4>2. taken[i] = x BY <4>1, <3>1, <1>4
      <4>3. QED BY <4>1, <4>2, <1>4, <1>5
    <3>3. CASE ~(i <= n)
      <4>1. i - n \in 1 .. Len(rest) BY <3>3, <1>4
      <4>2. rest[i - n] = conn.out[n + (i - n)] BY <4>1, <1>4
      <4>3. n + (i - n) = i BY <1>4
      <4>4. QED BY <4>1, <4>2, <4>3, <3>1, <1>4, <1>5
    <3>4. QED BY <3>2, <3>3
  <2>2. ASSUME NEW x \in ToSet(taken) PROVE x \in ToSet(conn.out)
    <3>1. PICK i \in 1 .. n : taken[i] = x BY <2>2, <1>4, <1>5
    <3>2. i \in 1 .. Len(conn.out) /\ conn.out[i] = x BY <3>1, <1>4
    <3>3. QED BY <3>2, <1>1, <1>5
  <2>3. ASSUME NEW x \in ToSet(rest) PROVE x \in ToSet(conn.out)
    <3>1. PICK i \in 1 .. Len(rest) : rest[i] = x BY <2>3, <1>4, <1>5
    <3>2. n + i \in 1 .. Len(conn.out) /\ conn.out[n + i] = x BY <3>1, <1>4
    <3>3. QED BY <3>2, <1>1, <1>5
  <2>4. QED BY <2>1, <2>2, <2>3
<1>7. ToSet(pending') = ToSet(pending) \cup ToSet(taken)
  <2>1. pending' \in Seq(FromServer) /\ Len(pending') = Len(pending) + n
        /\ (\A i \in 1 .. Len(pending) : pending'[i] = pending[i])
        /\ (\A i \in 1 .. n : pending'[Len(pending) + i] = taken[i])
        /\ Len(pending) \in Nat
    BY <1>1, <1>2, <1>4
  <2>2. ASSUME NEW x \in ToSet(pending') PROVE x \in ToSet(pending) \cup ToSet(taken)
    <3>1. PICK i \in 1 .. Len(pending') : pending'[i] = x BY <2>1, <2>2, <1>5
    <3>2. CASE i <= Len(pending)
      <4>1. i \in 1 .. Len(pending) BY <3>2, <2>1
      <4>2. QED BY <4>1, <3>1, <2>1, <1>1, <1>5
    <3>3. CASE ~(i <= Len(pending))
      <4>1. i - Len(pending) \in 1 .. n BY <3>3, <2>1, <1>4
      <4>2. pending'[Len(pending) + (i - Len(pending))] = taken[i - Len(pending)] BY <4>1, <2>1
      <4>3. Len(pending) + (i - Len(pending)) = i BY <2>1
      <4>4. QED BY <4>1, <4>2, <4>3, <3>1, <1>4, <1>5
    <3>4. QED BY <3>2, <3>3
  <2>3. ASSUME NEW x \in ToSet(pending) PROVE x \in ToSet(pending')
    <3>1. PICK i \in 1 .. Len(pending) : pending[i] = x BY <2>3, <1>1, <1>5
    <3>2. i \in 1 .. Len(pending') /\ pending'[i] = x BY <3>1, <2>1, <1>4
    <3>3. QED BY <3>2, <2>1, <1>5
  <2>4. ASSUME NEW x \in ToSet(taken) PROVE x \in ToSet(pending')
    <3>1. PICK i \in 1 .. n : taken[i] = x BY <2>4, <1>4, <1>5
    <3>2. Len(pending) + i \in 1 .. Len(pending') /\ pending'[Len(pending) + i] = x
      BY <3>1, <2>1, <1>4
    <3>3. QED BY <3>2, <2>1, <1>5
  <2>5. QED BY <2>2, <2>3, <2>4
<1>8. ToSet(pending)' = ToSet(pending') BY DEF ToSet
<1>9. conn.out # <<>> BY <1>1, <1>4
<1>10. client.up \in BOOLEAN BY DEF TypeOK, Clients
<1>11. QED BY <1>2, <1>3, <1>6, <1>7, <1>8, <1>9, <1>10 DEF taken

\* A link is in order only as long as it has been since it was dialled.
LEMMA StaysInOrder ==
    TypeOK /\ [Next]_vars /\ InOrder' => InOrder \/ DialSucceeds
<1> SUFFICES ASSUME TypeOK, [Next]_vars, InOrder', ~DialSucceeds PROVE InOrder
  OBVIOUS
<1> USE DEF InOrder
<1>1. conn \in Conns /\ past \in Pasts BY DEF TypeOK
<1>2. ASSUME UNCHANGED <<attempt, past>>, conn'.state = conn.state, conn'.early = conn.early PROVE InOrder
  BY <1>2 DEF Dialling
<1>3. ASSUME conn' = NoConn PROVE FALSE BY <1>3, GoneFields
<1>4. CASE TearDown \/ DialFails BY <1>4, <1>3 DEF TearDown, DialFails
<1>5. CASE StartReader \/ NetBeginLinkSession \/ AttemptEnds
  BY <1>5 DEF StartReader, NetBeginLinkSession, AttemptEnds, Dialling
<1>6. CASE SendHello BY <1>6, PostedFields DEF SendHello, Dialling
<1>7. CASE LookAtWish BY <1>7, <1>3 DEF LookAtWish, Dialling
<1>8. ASSUME NEW n \in 1 .. Len(conn.out), NetDataArrived(n) PROVE InOrder
  BY <1>8, ArrivedFields DEF Dialling
<1>9. CASE ReaderEnds \/ NetLinkDropped \/ WindowCloses \/ UNCHANGED vars
  BY <1>9, <1>2 DEF ReaderEnds, NetLinkDropped, WindowCloses, vars
<1>10. CASE Drain
  <2>1. RefusalsIn(pending) = {} BY <1>10, DrainFields, <1>3
  <2>2. conn'.state = conn.state /\ conn'.early = conn.early /\ past'.stale = past.stale
        /\ UNCHANGED attempt
    BY <1>10, <2>1, DrainFields
  <2>3. QED BY <2>2 DEF Dialling
<1>11. CASE ReportDropped BY <1>11, DroppedFields, <1>3
<1>12. CASE AnnounceStation
  BY <1>12, <1>1, PostedByMainFields DEF AnnounceStation, Dialling
<1>13. CASE NetLinkTick
  <2>1. CASE attempt' = attempt BY <1>13, <2>1, TickFields DEF Dialling
  <2>2. CASE attempt' # attempt BY <1>13, <2>2, TickFields DEF Dialling
  <2>3. QED BY <2>1, <2>2
<1>14. CASE NetLinkConnect \/ NetLinkReconnect BY <1>14, ConnectFields DEF Dialling
<1>15. CASE SendToNet
  BY <1>15, <1>1, PostedByMainFields DEF SendToNet, Dialling
<1>16. CASE NetContestChanged
  <2>1. past'.stale = past.stale BY <1>16, <1>1 DEF NetContestChanged, Pasts
  <2>2. QED BY <1>16, <2>1, PostedByMainFields DEF NetContestChanged, Dialling
<1>17. CASE ServerReads BY <1>17, ReadsFields DEF Dialling, Open
<1>18. ASSUME LinkLost \/ \E kind \in Kinds : ServerChanges(kind) PROVE InOrder
  <2>1. conn' = Broken /\ UNCHANGED <<attempt, past>> BY <1>18 DEF LinkLost, ServerChanges
  <2>2. QED BY <2>1, BrokenFields DEF Dialling, Open
<1>19. CASE NetLinkDisconnect BY <1>19, <1>1, DisconnectFields, <1>3 DEF Dialling
<1>20. ASSUME NEW id \in Ids, ChangeComputerId(id) PROVE InOrder
  BY <1>20, IdFields DEF Dialling
<1> QED
  BY <1>4, <1>5, <1>6, <1>7, <1>8, <1>9, <1>10, <1>11, <1>12, <1>13, <1>14, <1>15, <1>16, <1>17,
     <1>18, <1>19, <1>20 DEF Next

\* Where a link is dialled in order, nothing waits for the main thread.
LEMMA DialledInOrder ==
    ASSUME TypeOK, CleanStart, DialSucceeds, InOrder'
    PROVE  /\ mainq' = <<>> /\ pending' = <<>> /\ ToSet(mainq)' = {} /\ ToSet(pending)' = {}
           /\ refused'.id = None /\ attempt' = "reader" /\ session' = session
           /\ conn'.state = "fresh" /\ conn'.in = <<>> /\ conn'.out = <<>>
           /\ ~conn'.answered /\ conn'.resends = 0
<1>1. Dialling /\ ~past.stale /\ UNCHANGED <<mainq, pending, refused, session>> /\ attempt' = "reader"
  BY DEF DialSucceeds, Dialling, InOrder
<1>2. conn' = [NoConn EXCEPT !.state = "fresh"] BY DEF DialSucceeds
<1>3. conn'.state = "fresh" /\ conn'.in = <<>> /\ conn'.out = <<>> /\ ~conn'.answered /\ conn'.resends = 0
  BY <1>2 DEF NoConn
<1>4. QED BY <1>1, <1>3 DEF CleanStart, Unread, ToSet

\* What a drain finds: without a refusal there are only HELLOs.
LEMMA DrainedFields ==
    ASSUME TypeOK
    PROVE  /\ SessionAfter(pending).helloSeen =
                 (session.helloSeen \/ "hello" \in ToSet(pending) \/ "mismatch" \in ToSet(pending))
           /\ SessionAfter(pending).resendDue = (session.resendDue \/ "hello" \in ToSet(pending))
           /\ SessionAfter(pending).resent = session.resent
           /\ RefusedAfter(pending).server = (refused.server \/ "mismatch" \in ToSet(pending))
           /\ RefusalsIn(pending) = {} =>
                 /\ "mismatch" \notin ToSet(pending) /\ RefusedAfter(pending).id = refused.id
<1>1. session \in Sessions /\ refused \in Refusals /\ pending \in Seq(FromServer) BY DEF TypeOK
<1>2. /\ SessionAfter(pending).helloSeen =
                 (session.helloSeen \/ {"hello", "mismatch"} \cap ToSet(pending) # {})
      /\ SessionAfter(pending).resendDue = (session.resendDue \/ "hello" \in ToSet(pending))
      /\ SessionAfter(pending).resent = session.resent
  BY <1>1 DEF SessionAfter, Sessions
<1>3. {"hello", "mismatch"} \cap ToSet(pending) # {} <=>
         "hello" \in ToSet(pending) \/ "mismatch" \in ToSet(pending)
  OBVIOUS
<1>4. RefusedAfter(pending).server = (refused.server \/ "mismatch" \in ToSet(pending))
  BY DEF RefusedAfter
<1>5. ASSUME RefusalsIn(pending) = {}
      PROVE  "mismatch" \notin ToSet(pending) /\ RefusedAfter(pending).id = refused.id
  <2>1. \A i \in DOMAIN pending : pending[i] = "hello" BY <1>5 DEF RefusalsIn
  <2>2. "mismatch" \notin ToSet(pending) BY <2>1 DEF ToSet
  <2>3. ~\E i \in DOMAIN pending : IsLastId(pending, i)
    BY <2>1, ConstantsAssumption DEF IsLastId
  <2>4. QED BY <2>2, <2>3 DEF RefusedAfter
<1>6. session.helloSeen \in BOOLEAN BY <1>1 DEF Sessions
<1>7. SessionAfter(pending).helloSeen =
         (session.helloSeen \/ "hello" \in ToSet(pending) \/ "mismatch" \in ToSet(pending))
  BY <1>2, <1>3, <1>6
<1>8. QED BY <1>2, <1>4, <1>5, <1>7

\* HELLO first, then its answer, and both known or on their way.
LEMMA AnsweredStep ==
    TypeOK /\ Backed /\ Shape /\ CleanStart /\ Answered /\ [Next]_vars => Answered'
<1> SUFFICES ASSUME TypeOK, Backed, Shape, CleanStart, Answered, [Next]_vars, InOrder'
             PROVE  Answered'
  BY DEF Answered
<1> USE DEF Greeting, Unannounced
<1>1. /\ conn \in Conns /\ conn.in \in Seq(FromStation) /\ conn.out \in Seq(FromServer)
      /\ pending \in Seq(FromServer) /\ client \in Clients /\ session \in Sessions
      /\ client.up \in BOOLEAN
  BY DEF TypeOK, Conns, Clients
<1>2. CASE DialSucceeds
  <2>1. /\ mainq' = <<>> /\ pending' = <<>> /\ ToSet(mainq)' = {} /\ ToSet(pending)' = {}
        /\ attempt' = "reader" /\ conn'.state = "fresh" /\ conn'.in = <<>> /\ conn'.out = <<>>
        /\ ~conn'.answered /\ conn'.resends = 0
    BY <1>2, DialledInOrder
  <2>2. QED BY <2>1 DEF Answered
<1> SUFFICES ASSUME InOrder, ~DialSucceeds PROVE Answered'
  BY <1>2, StaysInOrder
<1>3. /\ Greeting => /\ ~conn.answered /\ conn.resends = 0 /\ conn.in = <<>> /\ conn.out = <<>>
                     /\ pending = <<>> /\ "drain" \notin ToSet(mainq)
                     /\ conn.state \in {"fresh", "lost"}
      /\ conn.state = "fresh" /\ ~Greeting => conn.in # <<>> /\ Head(conn.in) # None
      /\ conn.answered => session.helloSeen \/ "hello" \in ToSet(pending)
      /\ conn.state = "refused" => "mismatch" \in ToSet(conn.out) \cup ToSet(pending)
  BY DEF Answered
<1>4. conn' # NoConn BY GoneFields DEF InOrder
<1>5. ASSUME UNCHANGED <<attempt, pending>>, conn'.state = conn.state, conn'.in = conn.in,
             conn'.out = conn.out, conn'.answered = conn.answered, conn'.resends = conn.resends,
             session'.helloSeen = session.helloSeen,
             "drain" \in ToSet(mainq)' => "drain" \in ToSet(mainq)
      PROVE  Answered'
  <2>1. ToSet(pending)' = ToSet(pending) /\ ToSet(conn.out)' = ToSet(conn.out)
    BY <1>5 DEF ToSet
  <2>2. QED BY <1>3, <1>5, <2>1 DEF Answered
<1>6. ASSUME UNCHANGED mainq PROVE ToSet(mainq)' = ToSet(mainq) BY <1>6 DEF ToSet
<1>7. CASE TearDown \/ DialFails BY <1>7, <1>4 DEF TearDown, DialFails
<1>8. CASE StartReader \/ NetBeginLinkSession
  <2>1. UNCHANGED <<conn, pending, mainq>> /\ Greeting /\ Greeting'
    BY <1>8 DEF StartReader, NetBeginLinkSession
  <2>2. QED BY <2>1, <1>3, <1>6 DEF Answered
<1>9. CASE SendHello
  <2>1. attempt = "hello" /\ attempt' = "look" /\ UNCHANGED <<pending, client>>
        /\ conn'.state = conn.state /\ conn'.out = conn.out /\ conn'.answered = conn.answered
        /\ conn'.in = IF client.up /\ (myId = None => conn.state = "fresh" /\ conn.in = <<>>)
                      THEN Append(conn.in, myId) ELSE conn.in
    BY <1>9, PostedFields DEF SendHello
  <2>2. myId # None BY ConstantsAssumption DEF TypeOK
  <2>3. conn.in = <<>> /\ ~conn.answered /\ conn.state \in {"fresh", "lost"} BY <2>1, <1>3
  <2>4. conn.state = "fresh" => client.up BY DEF Shape, Open
  <2>5. Append(<<>>, myId) # <<>> /\ Head(Append(<<>>, myId)) = myId
    <3>1. Append(<<>>, myId) = <<myId>> OBVIOUS
    <3>2. QED BY <3>1
  <2>6. conn'.state = "fresh" => conn'.in # <<>> /\ Head(conn'.in) # None
    BY <2>1, <2>2, <2>3, <2>4, <2>5
  <2>7. QED BY <2>1, <2>3, <2>6 DEF Answered
<1>10. CASE LookAtWish \/ AttemptEnds
  <2>1. UNCHANGED <<conn, pending>> BY <1>10, <1>4 DEF LookAtWish, AttemptEnds
  <2>2. UNCHANGED <<mainq, session>> /\ ~Greeting /\ ~Greeting'
    BY <1>10 DEF LookAtWish, AttemptEnds
  <2>3. ToSet(pending)' = ToSet(pending) /\ ToSet(conn.out)' = ToSet(conn.out)
    BY <2>1 DEF ToSet
  <2>4. QED BY <2>1, <2>2, <2>3, <1>3 DEF Answered
<1>11. ASSUME NEW n \in 1 .. Len(conn.out), NetDataArrived(n) PROVE Answered'
  <2> DEFINE taken == ToSet(SubSeq(conn.out, 1, n))
  <2>1. /\ ToSet(pending)' = ToSet(pending) \cup taken
        /\ ToSet(conn.out) = taken \cup ToSet(conn'.out)
        /\ conn'.state = conn.state /\ conn'.in = conn.in
        /\ conn'.answered = (conn.answered \/ "hello" \in taken)
        /\ conn.out # <<>> /\ UNCHANGED <<attempt, session>>
    BY <1>11, ArrivedFields
  <2>2. ~Greeting /\ ~Greeting' BY <2>1, <1>3
  <2>3. ToSet(conn.out)' = ToSet(conn'.out) BY DEF ToSet
  <2> HIDE DEF taken
  <2>4. conn'.answered => session'.helloSeen \/ "hello" \in ToSet(pending)' BY <2>1, <1>3
  <2>5. conn'.state = "refused" => "mismatch" \in ToSet(conn.out)' \cup ToSet(pending)'
    BY <2>1, <2>3, <1>3
  <2>6. QED BY <2>1, <2>2, <2>4, <2>5, <1>3 DEF Answered
<1>12. CASE ReaderEnds BY <1>12, <1>5, <1>6 DEF ReaderEnds
<1>13. CASE NetLinkDropped
  <2>1. UNCHANGED <<attempt, conn, pending, session>>
        /\ (mainq' = mainq \/ mainq' = Append(mainq, "dropped"))
    BY <1>13 DEF NetLinkDropped
  <2>2. "drain" \in ToSet(mainq)' => "drain" \in ToSet(mainq)
    <3>1. CASE mainq' = mainq BY <3>1, <1>6
    <3>2. CASE mainq' = Append(mainq, "dropped") BY <3>2, QueuedBehind
    <3>3. QED BY <2>1, <3>1, <3>2
  <2>3. QED BY <2>1, <2>2, <1>5
<1>14. CASE Drain
  <2>1. RefusalsIn(pending) = {} BY <1>14, DrainFields, <1>4
  <2>2. Takes("drain") /\ pending' = <<>> /\ UNCHANGED attempt
        /\ session'.helloSeen = SessionAfter(pending).helloSeen
    BY <1>14, DrainFields
  <2>3. /\ conn'.state = conn.state /\ conn'.out = conn.out /\ conn'.answered = conn.answered
        /\ conn'.in = conn.in \/ (conn.state = "fresh" /\ conn.in = <<>> /\ conn'.in = <<None>>)
    BY <1>14, <2>1, DrainFields
  <2>4. "drain" \in ToSet(mainq) BY <2>2, TakenOff
  <2>5. ~Greeting /\ ~Greeting' BY <2>2, <2>4, <1>3
  <2>6. session'.helloSeen = (session.helloSeen \/ "hello" \in ToSet(pending) \/ "mismatch" \in ToSet(pending))
        /\ "mismatch" \notin ToSet(pending)
    BY <2>1, <2>2, DrainedFields
  <2>7. ToSet(conn.out)' = ToSet(conn.out) BY <2>3 DEF ToSet
  <2>8. conn'.answered => session'.helloSeen BY <2>3, <2>6, <1>3
  <2>9. QED BY <2>3, <2>5, <2>6, <2>7, <2>8, <1>3 DEF Answered
<1>15. CASE ReportDropped BY <1>15, DroppedFields, <1>4
<1>16. ASSUME NEW message, conn' = PostedByMain(message), UNCHANGED <<attempt, client, pending>>,
              session'.helloSeen = session.helloSeen,
              "drain" \in ToSet(mainq)' => "drain" \in ToSet(mainq)
       PROVE  Answered'
  <2>1. /\ conn'.state = conn.state /\ conn'.out = conn.out
        /\ conn'.early = (conn.early \/ (client.up /\ Greeting))
        /\ conn'.answered = conn.answered /\ conn'.resends = conn.resends
        /\ conn'.in = IF client.up /\ (message = None => conn.state = "fresh" /\ conn.in = <<>>)
                      THEN Append(conn.in, message) ELSE conn.in
    BY <1>16, PostedByMainFields
  <2>2. ~conn'.early BY DEF InOrder
  <2>3. CASE ~client.up BY <2>1, <2>3, <1>5, <1>16
  <2>4. CASE client.up
    <3>1. ~Greeting /\ ~Greeting' BY <2>1, <2>2, <2>4, <1>16
    <3>2. ToSet(pending)' = ToSet(pending) /\ ToSet(conn.out)' = ToSet(conn.out)
      BY <2>1, <1>16 DEF ToSet
    <3>3. ASSUME conn'.state = "fresh" PROVE conn'.in # <<>> /\ Head(conn'.in) # None
      <4>1. conn.in # <<>> /\ Head(conn.in) # None BY <3>1, <3>3, <2>1, <1>3
      <4>2. conn'.in = conn.in \/ (message # None /\ conn'.in = Append(conn.in, message))
        BY <2>1, <4>1
      <4>3. Append(conn.in, message) # <<>> /\ Head(Append(conn.in, message)) = Head(conn.in)
        BY <4>1, <1>1
      <4>4. QED BY <4>1, <4>2, <4>3
    <3>4. QED BY <2>1, <3>1, <3>2, <3>3, <1>3, <1>16 DEF Answered
  <2>5. QED BY <2>3, <2>4
<1>17. CASE AnnounceStation
  <2>1. Takes("announce") /\ conn' = PostedByMain(None) /\ UNCHANGED <<attempt, client, pending, session>>
    BY <1>17 DEF AnnounceStation
  <2>2. "drain" \in ToSet(mainq)' => "drain" \in ToSet(mainq) BY <2>1, OthersStay
  <2>3. QED BY <2>1, <2>2, <1>16
<1>18. CASE SendToNet BY <1>18, <1>6, <1>16 DEF SendToNet
<1>19. CASE NetContestChanged
  <2>1. session'.helloSeen = session.helloSeen BY <1>19, <1>1 DEF NetContestChanged, Sessions
  <2>2. QED BY <1>19, <2>1, <1>6, <1>16 DEF NetContestChanged
<1>20. CASE NetLinkTick
  <2>1. UNCHANGED <<conn, pending, mainq, session>> BY <1>20, TickFields
  <2>2. attempt' = attempt \/ attempt' = "starting" BY <1>20, TickFields
  <2>3. attempt' = attempt BY <2>2 DEF InOrder, Dialling
  <2>4. QED BY <2>1, <2>3, <1>5, <1>6
<1>21. CASE NetLinkConnect \/ NetLinkReconnect BY <1>21, ConnectFields DEF InOrder, Dialling
<1>22. CASE WindowCloses
  <2>1. session'.helloSeen = session.helloSeen BY <1>22, <1>1 DEF WindowCloses, Sessions
  <2>2. QED BY <1>22, <2>1, <1>5, <1>6 DEF WindowCloses
<1>23. CASE ServerReads
  <2>1. /\ conn.state \in Open /\ conn.in # <<>>
        /\ conn'.answered = conn.answered /\ conn'.resends = conn.resends
        /\ conn.state = "joined" => conn'.state = "joined"
        /\ UNCHANGED <<attempt, pending, session, mainq>>
    BY <1>23, ReadsFields
  <2>2. ~Greeting /\ ~Greeting' BY <2>1, <1>3
  <2>3. ToSet(pending)' = ToSet(pending) BY <2>1 DEF ToSet
  <2>4. CASE conn.state = "joined" BY <2>1, <2>2, <2>3, <2>4, <1>3 DEF Answered
  <2>5. CASE conn.state = "fresh"
    <3>1. Head(conn.in) # None BY <2>2, <2>5, <1>3
    <3>2. \/ conn'.state \in {"joined", "older"}
          \/ conn'.state = "refused" /\ conn'.out = Append(conn.out, "mismatch")
      BY <1>23, <2>5, <3>1, ReadsFields
    <3>3. conn'.state = "refused" => "mismatch" \in ToSet(conn.out)'
      <4>1. ASSUME conn'.out = Append(conn.out, "mismatch") PROVE "mismatch" \in ToSet(conn'.out)
        <5>1. Len(conn.out) + 1 \in DOMAIN conn'.out /\ conn'.out[Len(conn.out) + 1] = "mismatch"
          BY <4>1, <1>1
        <5>2. QED BY <5>1 DEF ToSet
      <4>2. ToSet(conn.out)' = ToSet(conn'.out) BY DEF ToSet
      <4>3. QED BY <3>2, <4>1, <4>2
    <3>4. QED BY <2>1, <2>2, <2>3, <3>2, <3>3, <1>3 DEF Answered
  <2>6. QED BY <2>1, <2>4, <2>5 DEF Open
<1>24. ASSUME LinkLost \/ \E kind \in Kinds : ServerChanges(kind) PROVE Answered'
  <2>1. conn' = Broken /\ UNCHANGED <<attempt, pending, mainq, session>>
    BY <1>24 DEF LinkLost, ServerChanges
  <2>2. CASE conn.state \notin Open
    <3>1. conn' = conn BY <2>1, <2>2, BrokenFields
    <3>2. QED BY <2>1, <3>1, <1>5, <1>6
  <2>3. CASE conn.state \in Open
    <3>1. conn'.state = "lost" /\ conn'.in = <<>> /\ conn'.out = <<>>
          /\ conn'.answered = conn.answered /\ conn'.resends = conn.resends
      BY <2>1, <2>3, BrokenFields
    <3>2. ToSet(pending)' = ToSet(pending) /\ ToSet(mainq)' = ToSet(mainq) BY <2>1 DEF ToSet
    <3>3. QED BY <2>1, <3>1, <3>2, <1>3 DEF Answered
  <2>4. QED BY <2>2, <2>3
<1>25. CASE NetLinkDisconnect
  <2>1. UNCHANGED <<attempt, conn, pending, mainq, session>> BY <1>25, DisconnectFields, <1>4
  <2>2. QED BY <2>1, <1>5, <1>6
<1>26. ASSUME NEW id \in Ids, ChangeComputerId(id) PROVE Answered'
  BY <1>26, IdFields, <1>5, <1>6
<1>27. CASE UNCHANGED vars BY <1>27, <1>5, <1>6 DEF vars
<1> QED
  BY <1>7, <1>8, <1>9, <1>10, <1>11, <1>12, <1>13, <1>14, <1>15, <1>17, <1>18, <1>19, <1>20, <1>21,
     <1>22, <1>23, <1>24, <1>25, <1>26, <1>27 DEF Next

\* The offline work goes when the answer is drained, once for the link.
LEMMA SentStep ==
    TypeOK /\ Backed /\ Shape /\ CleanStart /\ Answered /\ Sent /\ [Next]_vars => Sent'
<1> SUFFICES ASSUME TypeOK, Backed, Shape, CleanStart, Answered, Sent, [Next]_vars,
                    InOrder', client'.up
             PROVE  Sent'
  BY DEF Sent
<1> USE DEF Greeting, Unannounced
<1>1. /\ conn \in Conns /\ pending \in Seq(FromServer) /\ client \in Clients /\ session \in Sessions
      /\ client.up \in BOOLEAN /\ conn.answered \in BOOLEAN /\ session.resent \in BOOLEAN
  BY DEF TypeOK, Conns, Clients, Sessions
<1>2. CASE DialSucceeds
  <2>1. refused'.id = None /\ attempt' = "reader" /\ ~conn'.answered
    BY <1>2, DialledInOrder
  <2>2. QED BY <2>1 DEF Sent
<1>3. InOrder \/ DialSucceeds BY StaysInOrder
<1>4. ASSUME client' = Down PROVE FALSE BY <1>4, GoneFields
<1>5. ASSUME InOrder, client.up
      PROVE  /\ refused.id = None /\ (attempt = "hello" => ~session.resent)
             /\ attempt \notin {"reader", "session"} => conn.resends = IF session.resent THEN 1 ELSE 0
             /\ conn.answered /\ ~session.resent => "hello" \in ToSet(pending)
             /\ Greeting => ~conn.answered /\ conn.resends = 0 /\ "drain" \notin ToSet(mainq)
  BY <1>5 DEF Sent, Answered
<1>6. ASSUME InOrder, client.up, UNCHANGED <<attempt, pending>>, refused'.id \in {refused.id, None},
             session'.resent = session.resent, conn'.resends = conn.resends,
             conn'.answered = conn.answered
      PROVE  Sent'
  <2>1. ToSet(pending)' = ToSet(pending) BY <1>6 DEF ToSet
  <2>2. QED BY <2>1, <1>5, <1>6 DEF Sent
<1>7. CASE TearDown \/ DialFails
  <2>1. ~client'.up BY <1>7, GoneFields DEF TearDown, DialFails, Down
  <2>2. QED BY <2>1
<1>8r. CASE StartReader
  <2>1. UNCHANGED <<conn, pending, session, refused>> /\ attempt = "reader" /\ attempt' = "session"
        /\ client'.up = client.up
    BY <1>8r, <1>1 DEF StartReader, Clients
  <2>2. InOrder /\ client.up BY <1>3, <2>1 DEF DialSucceeds
  <2>3. Greeting BY <2>1
  <2>4. QED BY <2>1, <2>2, <2>3, <1>5 DEF Sent
<1>8. CASE NetBeginLinkSession
  <2>1. UNCHANGED <<conn, pending, client, refused>> /\ attempt = "session" /\ attempt' = "hello"
        /\ ~session'.resent
    BY <1>8, <1>1 DEF NetBeginLinkSession, Sessions
  <2>2. InOrder /\ client.up BY <1>3, <2>1 DEF DialSucceeds
  <2>3. QED BY <2>1, <2>2, <1>5 DEF Sent
<1>9. CASE SendHello
  <2>1. attempt = "hello" /\ attempt' = "look" /\ UNCHANGED <<pending, client, refused>>
        /\ conn'.answered = conn.answered /\ conn'.resends = conn.resends
        /\ session'.resent = session.resent
    BY <1>9, <1>1, PostedFields DEF SendHello, Sessions
  <2>2. InOrder /\ client.up BY <1>3, <2>1 DEF DialSucceeds
  <2>3. QED BY <2>1, <2>2, <1>5 DEF Sent
<1>10. CASE LookAtWish \/ AttemptEnds
  <2>1. UNCHANGED <<conn, pending, client, session, refused>> /\ ~Greeting /\ ~Greeting'
    BY <1>10, <1>4 DEF LookAtWish, AttemptEnds
  <2>2. InOrder /\ client.up BY <1>3, <1>10, <2>1 DEF DialSucceeds, LookAtWish, AttemptEnds
  <2>3. ToSet(pending)' = ToSet(pending) BY <2>1 DEF ToSet
  <2>4. QED BY <2>1, <2>2, <2>3, <1>5 DEF Sent
<1>11. ASSUME NEW n \in 1 .. Len(conn.out), NetDataArrived(n) PROVE Sent'
  <2> DEFINE taken == ToSet(SubSeq(conn.out, 1, n))
  <2>1. /\ ToSet(pending)' = ToSet(pending) \cup taken
        /\ conn'.answered = (conn.answered \/ "hello" \in taken) /\ conn'.resends = conn.resends
        /\ UNCHANGED <<attempt, session, refused, client>>
    BY <1>11, ArrivedFields
  <2>2. InOrder /\ client.up BY <1>3, <2>1 DEF DialSucceeds
  <2> HIDE DEF taken
  <2>3. conn'.answered /\ ~session'.resent => "hello" \in ToSet(pending)' BY <2>1, <2>2, <1>5
  <2>4. QED BY <2>1, <2>2, <2>3, <1>5 DEF Sent
<1>12. CASE ReaderEnds
  <2>1. ~client'.up BY <1>12, <1>1 DEF ReaderEnds, Clients
  <2>2. QED BY <2>1
<1>13. CASE NetLinkDropped
  <2>1. UNCHANGED <<attempt, conn, pending, session, refused>> /\ client'.up = client.up
    BY <1>13, <1>1 DEF NetLinkDropped, Clients
  <2>2. InOrder /\ client.up BY <1>3, <2>1 DEF DialSucceeds
  <2>3. QED BY <2>1, <2>2, <1>6
<1>14. CASE Drain
  <2>1. RefusalsIn(pending) = {} BY <1>14, DrainFields, <1>4
  <2> DEFINE goes == ResendOfflineWork(SessionAfter(pending), RefusedAfter(pending))
  <2>2. Takes("drain") /\ pending' = <<>> /\ UNCHANGED attempt /\ refused' = RefusedAfter(pending)
    BY <1>14, DrainFields
  <2>3. /\ client' = client /\ conn'.answered = conn.answered
        /\ session'.resent = (session.resent \/ goes)
        /\ conn'.resends = IF goes THEN UpToTwo(conn.resends + 1) ELSE conn.resends
    BY <1>14, <2>1, DrainFields
  <2>4. InOrder /\ client.up BY <1>3, <2>2, <2>3 DEF DialSucceeds
  <2>5. "drain" \in ToSet(mainq) BY <2>2, TakenOff
  <2>6. ~Greeting /\ ~Greeting' BY <2>2, <2>4, <2>5, <1>5
  <2>7. RefusedAfter(pending).id = refused.id /\ SessionAfter(pending).resent = session.resent
        /\ SessionAfter(pending).resendDue = (session.resendDue \/ "hello" \in ToSet(pending))
        /\ SessionAfter(pending).helloSeen =
              (session.helloSeen \/ "hello" \in ToSet(pending) \/ "mismatch" \in ToSet(pending))
    BY <2>1, DrainedFields
  <2>8. refused'.id = None BY <2>2, <2>4, <2>7, <1>5
  <2>9. goes => ~session.resent BY <2>7 DEF ResendOfflineWork
  <2>10. "hello" \in ToSet(pending) /\ ~session.resent => goes
    BY <2>4, <2>7, <1>5 DEF ResendOfflineWork
  <2> HIDE DEF goes
  <2>11. conn'.resends = IF session'.resent THEN 1 ELSE 0
    <3>1. conn.resends = IF session.resent THEN 1 ELSE 0 BY <2>4, <2>6, <1>5
    <3>2. UpToTwo(0 + 1) = 1 BY DEF UpToTwo
    <3>3. CASE goes BY <2>3, <2>9, <3>1, <3>2, <3>3
    <3>4. CASE ~goes BY <2>3, <3>1, <3>4
    <3>5. QED BY <3>3, <3>4
  <2>12. ~(conn'.answered /\ ~session'.resent)
    <3>1. conn.answered /\ ~session.resent => "hello" \in ToSet(pending) BY <2>4, <1>5
    <3>2. QED BY <3>1, <2>3, <2>10
  <2>13. QED BY <2>6, <2>8, <2>11, <2>12 DEF Sent
<1>15. CASE ReportDropped BY <1>15, DroppedFields, <1>4
<1>16. ASSUME NEW message, conn' = PostedByMain(message),
              UNCHANGED <<attempt, client, pending, refused>>, session'.resent = session.resent
       PROVE  Sent'
  <2>1. conn'.answered = conn.answered /\ conn'.resends = conn.resends
    BY <1>16, PostedByMainFields
  <2>2. InOrder /\ client.up BY <1>3, <1>16 DEF DialSucceeds
  <2>3. QED BY <2>1, <2>2, <1>6, <1>16
<1>17. CASE AnnounceStation BY <1>17, <1>16 DEF AnnounceStation
<1>18. CASE SendToNet BY <1>18, <1>16 DEF SendToNet
<1>19. CASE NetContestChanged
  <2>1. session'.resent = session.resent BY <1>19, <1>1 DEF NetContestChanged, Sessions
  <2>2. QED BY <1>19, <2>1, <1>16 DEF NetContestChanged
<1>20. CASE NetLinkTick BY <1>20, TickFields
<1>21. CASE NetLinkConnect \/ NetLinkReconnect BY <1>21, ConnectFields, <1>4
<1>22. CASE WindowCloses
  <2>1. session'.resent = session.resent /\ UNCHANGED <<attempt, conn, pending, client, refused>>
    BY <1>22, <1>1 DEF WindowCloses, Sessions
  <2>2. InOrder /\ client.up BY <1>3, <2>1 DEF DialSucceeds
  <2>3. QED BY <2>1, <2>2, <1>6
<1>23. CASE ServerReads
  <2>1. conn'.answered = conn.answered /\ conn'.resends = conn.resends
        /\ UNCHANGED <<attempt, pending, session, refused, client>>
    BY <1>23, ReadsFields
  <2>2. InOrder /\ client.up BY <1>3, <2>1 DEF DialSucceeds
  <2>3. QED BY <2>1, <2>2, <1>6
<1>24. ASSUME LinkLost \/ \E kind \in Kinds : ServerChanges(kind) PROVE Sent'
  <2>1. conn' = Broken /\ UNCHANGED <<attempt, pending, session, refused, client>>
    BY <1>24 DEF LinkLost, ServerChanges
  <2>2. conn'.answered = conn.answered /\ conn'.resends = conn.resends BY <2>1, BrokenFields
  <2>3. InOrder /\ client.up BY <1>3, <2>1 DEF DialSucceeds
  <2>4. QED BY <2>1, <2>2, <2>3, <1>6
<1>25. CASE NetLinkDisconnect
  <2>1. UNCHANGED <<attempt, conn, pending, session, refused, client>>
    BY <1>25, DisconnectFields, <1>4
  <2>2. InOrder /\ client.up BY <1>3, <2>1 DEF DialSucceeds
  <2>3. QED BY <2>1, <2>2, <1>6
<1>26. ASSUME NEW id \in Ids, ChangeComputerId(id) PROVE Sent'
  <2>1. UNCHANGED <<attempt, conn, pending, session, refused, client>> BY <1>26, IdFields
  <2>2. InOrder /\ client.up BY <1>3, <2>1 DEF DialSucceeds
  <2>3. QED BY <2>1, <2>2, <1>6
<1>27. CASE UNCHANGED vars
  <2>1. UNCHANGED <<attempt, conn, pending, session, refused, client>> BY <1>27 DEF vars
  <2>2. InOrder /\ client.up BY <1>3, <2>1 DEF DialSucceeds
  <2>3. QED BY <2>1, <2>2, <1>6
<1> QED
  BY <1>2, <1>7, <1>8r, <1>8, <1>9, <1>10, <1>11, <1>12, <1>13, <1>14, <1>15, <1>17, <1>18, <1>19,
     <1>20, <1>21, <1>22, <1>23, <1>24, <1>25, <1>26, <1>27 DEF Next

\* The time-out rule errs only where something of an earlier link was unheard, something went
\* before HELLO, or the link broke unanswered.
LEMMA ReasonIsReal ==
    ASSUME TypeOK, Backed, Shape, CleanStart, Reports, Answered, ReportDropped,
           LooksOlder(session, refused)
    PROVE  Reason \notin {"nothing", "no reason"}
<1>1. CASE past.stale \/ conn.early BY <1>1 DEF Reason
<1>2. CASE ~past.stale /\ ~conn.early
  <2>1. mainq # <<>> /\ mainq[1] = "dropped" /\ Len(mainq) \in Nat /\ 1 \in 1 .. Len(mainq)
    <3>1. Takes("dropped") BY DroppedFields
    <3>2. mainq # <<>> /\ mainq[1] = "dropped" BY <3>1, TakenOff
    <3>3. mainq \in Seq({"drain", "dropped", "announce"}) BY DEF TypeOK
    <3>4. QED BY <3>2, <3>3
  <2>2. conn.state \in Closed /\ conn.out = <<>> BY <1>2, <2>1 DEF Reports
  <2>3. pending = <<>>
    <3>1. pending # <<>> => \E j \in 1 .. 1 - 1 : mainq[j] = "drain" BY <1>2, <2>1 DEF Reports
    <3>2. QED BY <3>1
  <2>4. ~Dialling BY <1>2, <2>1 DEF CleanStart, Unread
  <2>5. InOrder BY <1>2, <2>2, <2>4 DEF InOrder, Closed
  <2>6. ToSet(conn.out) = {} /\ ToSet(pending) = {} BY <2>2, <2>3 DEF ToSet
  <2>7. conn.state # "refused" /\ (conn.answered => session.helloSeen)
    BY <2>5, <2>6 DEF Answered
  <2>8. ~session.helloSeen BY DEF LooksOlder
  <2>9. conn.state \in {"lost", "older"} /\ ~conn.answered BY <2>2, <2>7, <2>8 DEF Closed
  <2>10. QED BY <1>2, <2>9 DEF Reason
<1>3. QED BY <1>1, <1>2

\* The latch is set with its cause, and cleared only by the operator.
LEMMA CauseStep ==
    TypeOK /\ Backed /\ Shape /\ CleanStart /\ Reports /\ Answered
        /\ RefusalHasACause /\ [Next]_vars
    => RefusalHasACause'
<1> SUFFICES ASSUME TypeOK, Backed, Shape, CleanStart, Reports, Answered,
                    RefusalHasACause, [Next]_vars
             PROVE  RefusalHasACause'
  OBVIOUS
<1> USE DEF RefusalHasACause
<1>1. past \in Pasts BY DEF TypeOK
<1>2. ASSUME UNCHANGED refused, past'.latchedFor = past.latchedFor PROVE RefusalHasACause'
  BY <1>2
<1>3. CASE Threads \/ Reader \/ AnnounceStation \/ SendToNet \/ WindowCloses \/ ServerReads
           \/ LinkLost \/ (\E kind \in Kinds : ServerChanges(kind)) \/ UNCHANGED vars
  BY <1>3, <1>2 DEF Threads, TearDown, DialFails, DialSucceeds, StartReader, NetBeginLinkSession,
     SendHello, LookAtWish, AttemptEnds, Reader, NetDataArrived, ReaderEnds, NetLinkDropped, AnnounceStation,
     SendToNet, WindowCloses, ServerReads, LinkLost, ServerChanges, vars
<1>4. CASE NetContestChanged
  BY <1>4, <1>1, <1>2 DEF NetContestChanged, Pasts
<1>5. CASE Drain
  <2>1. refused'.server = (refused.server \/ "mismatch" \in ToSet(pending))
        /\ past'.latchedFor = IF "mismatch" \in ToSet(pending) THEN "mismatch" ELSE past.latchedFor
    BY <1>5, DrainFields, DrainedFields
  <2>2. QED BY <2>1
<1>6. CASE ReportDropped
  <2>1. CASE LooksOlder(session, refused) BY <1>6, <2>1, DroppedFields, ReasonIsReal
  <2>2. CASE ~LooksOlder(session, refused) BY <1>6, <2>2, DroppedFields
  <2>3. QED BY <2>1, <2>2
<1>7. CASE NetLinkTick
  <2>1. refused'.server = refused.server /\ past'.latchedFor = past.latchedFor BY <1>7, TickFields
  <2>2. QED BY <2>1
<1>8. CASE NetLinkConnect \/ NetLinkReconnect BY <1>8, ConnectFields
<1>9. CASE NetLinkDisconnect BY <1>9, <1>2, DisconnectFields
<1>10. ASSUME NEW id \in Ids, ChangeComputerId(id) PROVE RefusalHasACause'
  BY <1>10, <1>2, IdFields
<1> QED
  BY <1>3, <1>4, <1>5, <1>6, <1>7, <1>8, <1>9, <1>10 DEF Next, Threads, Reader

(* One warning for one refusal. *)

\* What the server has said on this link and the main thread has not handled, in order.
Line == pending \o (IF client.up THEN conn.out ELSE <<>>)

\* The HELLOs the server has still to read.
Asked == {i \in 1 .. Len(conn.in) : conn.in[i] # None}

\* A line holds one refusal at most, for this protocol or for this station's id, and the id's
\* comes behind the server's HELLO.
OneRefusalIn(line) ==
    /\ \A i, j \in 1 .. Len(line) : line[i] # "hello" /\ line[j] # "hello" => i = j
    /\ \A i \in 1 .. Len(line) : line[i] \in {"hello", "mismatch", myId}
    /\ \A i \in 1 .. Len(line) : line[i] \in Ids =>
           session.helloSeen \/ \E j \in 1 .. i - 1 : line[j] = "hello"

\* A link whose warnings are not muddled carries one HELLO of ours and one refusal of it:
\* until the HELLO is read nothing is answered.
OneAnswer ==
    ~past.muddled =>
        /\ Greeting => Line = <<>> /\ (client.up => Asked = {} /\ conn.state # "joined")
        /\ client.up /\ conn.state \in Open /\ Asked # {} => conn.state = "fresh" /\ Line = <<>>
        /\ client.up => \A i, j \in Asked : i = j /\ conn.in[i] = myId
        /\ OneRefusalIn(Line)

\* The line in terms of its two ends.
LEMMA LineFields ==
    ASSUME TypeOK
    PROVE  /\ Line \in Seq(FromServer) /\ pending \in Seq(FromServer) /\ conn.out \in Seq(FromServer)
           /\ conn.in \in Seq(FromStation)
           /\ Len(pending) \in Nat /\ Len(Line) \in Nat /\ Len(pending) <= Len(Line)
           /\ \A i \in 1 .. Len(pending) : Line[i] = pending[i]
           /\ ~client.up => Line = pending
           /\ client.up => /\ Len(Line) = Len(pending) + Len(conn.out)
                           /\ \A i \in 1 .. Len(conn.out) : Line[Len(pending) + i] = conn.out[i]
           /\ pending = <<>> /\ client.up => Line = conn.out
           /\ conn.out = <<>> => Line = pending
           /\ Line = <<>> => pending = <<>> /\ (client.up => conn.out = <<>>)
<1> DEFINE rest == IF client.up THEN conn.out ELSE <<>>
<1>1. pending \in Seq(FromServer) /\ conn.out \in Seq(FromServer) /\ conn.in \in Seq(FromStation)
  BY DEF TypeOK, Conns
<1>2. rest \in Seq(FromServer) BY <1>1
<1>3. client.up => rest = conn.out BY DEF rest
<1>4. ~client.up \/ conn.out = <<>> => rest = <<>> BY DEF rest
<1>5. Line = pending \o rest BY DEF Line
<1> HIDE DEF rest
<1>6. /\ Line \in Seq(FromServer) /\ Len(Line) = Len(pending) + Len(rest)
      /\ Len(pending) \in Nat /\ Len(rest) \in Nat
      /\ \A i \in 1 .. Len(pending) : Line[i] = pending[i]
      /\ \A i \in 1 .. Len(rest) : Line[Len(pending) + i] = rest[i]
  BY <1>1, <1>2, <1>5
<1>7. rest = <<>> => Line = pending BY <1>1, <1>5
<1>8. pending = <<>> => Line = rest BY <1>2, <1>5
<1>9. Line = <<>> => pending = <<>> /\ rest = <<>>
  <2>1. ASSUME Line = <<>> PROVE Len(pending) = 0 /\ Len(rest) = 0 BY <2>1, <1>6
  <2>2. QED BY <2>1, <1>1, <1>2
<1>10. Len(pending) <= Len(Line) BY <1>6
<1>11. client.up => /\ Len(Line) = Len(pending) + Len(conn.out)
                   /\ \A i \in 1 .. Len(conn.out) : Line[Len(pending) + i] = conn.out[i]
  BY <1>3, <1>6
<1>12. Line \in Seq(FromServer) /\ Len(Line) \in Nat BY <1>6
<1>13. QED BY <1>1, <1>3, <1>4, <1>6, <1>7, <1>8, <1>9, <1>10, <1>11, <1>12

\* Nothing said, nothing refused.
LEMMA NothingSaid == OneRefusalIn(<<>>) /\ OneRefusalIn(<<>>)'
BY DEF OneRefusalIn

\* A link that is taken down leaves no line.
LEMMA GoneLine ==
    ASSUME TypeOK', client' = Down, pending' = <<>> PROVE Line' = <<>>
<1>1. ~client'.up BY GoneFields
<1>2. QED BY <1>1 DEF Line

\* Taking what has come off the wire moves it along the line.
LEMMA ArrivedLine ==
    ASSUME TypeOK, Orphan, NEW n \in 1 .. Len(conn.out), NetDataArrived(n)
    PROVE  client.up /\ Line' = Line
<1> DEFINE taken == SubSeq(conn.out, 1, n)
           rest == SubSeq(conn.out, n + 1, Len(conn.out))
<1>1. conn.out \in Seq(FromServer) /\ pending \in Seq(FromServer) /\ conn \in Conns
  BY DEF TypeOK, Conns
<1>2. client.up /\ client' = client /\ pending' = pending \o taken
  <2>1. client.reader = "reading" /\ client' = client /\ pending' = pending \o taken
    BY DEF NetDataArrived
  <2>2. conn.out # <<>> BY <1>1
  <2>3. QED BY <2>1, <2>2 DEF Orphan
<1>3. conn'.out = rest
  <2>1. conn' = [conn EXCEPT !.out = rest, !.answered = @ \/ "hello" \in ToSet(taken)]
    BY DEF NetDataArrived
  <2> HIDE DEF rest, taken
  <2>2. QED BY <2>1, <1>1 DEF Conns
<1>4. taken \in Seq(FromServer) /\ rest \in Seq(FromServer) BY <1>1
<1>5. conn.out = taken \o rest
  <2>1. n \in Nat /\ Len(conn.out) \in Nat /\ n <= Len(conn.out) /\ 1 \in 1 .. Len(conn.out)
    BY <1>1
  <2>2. 1 \in 1 .. Len(conn.out) + 1 /\ n \in 0 .. Len(conn.out) BY <2>1
  <2>3. SubSeq(conn.out, 1, Len(conn.out)) = conn.out BY <1>1, SubSeqFull
  <2>4. QED BY <1>1, <2>1, <2>2, <2>3, ConcatAdjacentSubSeq
<1> HIDE DEF taken, rest
<1>6. (pending \o taken) \o rest = pending \o (taken \o rest) BY <1>1, <1>4, ConcatAssociative, SMTT(40)
<1>7. Line' = (pending \o taken) \o rest BY <1>2, <1>3 DEF Line
<1>8. Line = pending \o conn.out BY <1>2 DEF Line
<1>9. QED BY <1>2, <1>5, <1>6, <1>7, <1>8


\* What a drain makes of a line with one refusal at most: at most one warning, and its cause stands.
LEMMA DrainedOnce ==
    ASSUME TypeOK, OneRefusalIn(Line), RefusalsIn(pending) # {}
    PROVE  /\ Cardinality(RefusalsIn(pending)) = 1
           /\ \/ RefusedAfter(pending).server
              \/ RefusedAfter(pending).id = myId /\ SessionAfter(pending).helloSeen
<1>1. PICK n : RefusalsIn(pending) = {n} /\ n \in 1 .. Len(pending) /\ pending[n] # "hello"
  <2>1. PICK n \in RefusalsIn(pending) : TRUE OBVIOUS
  <2>2. \A m \in RefusalsIn(pending) : m \in 1 .. Len(pending) /\ pending[m] # "hello"
    BY LineFields DEF RefusalsIn
  <2>3. \A m \in RefusalsIn(pending) : m \in 1 .. Len(Line) /\ Line[m] = pending[m]
    BY <2>2, LineFields
  <2>4. \A m \in RefusalsIn(pending) : m = n BY <2>1, <2>2, <2>3 DEF OneRefusalIn
  <2>5. QED BY <2>1, <2>2, <2>4
<1>2. Cardinality(RefusalsIn(pending)) = 1 BY <1>1, FS_Singleton
<1>3. Line[n] = pending[n] /\ n \in 1 .. Len(Line) BY <1>1, LineFields
<1>4. pending[n] \in {"mismatch", myId} BY <1>1, <1>3 DEF OneRefusalIn
<1>5. CASE pending[n] = "mismatch"
  <2>1. "mismatch" \in ToSet(pending) BY <1>1, <1>5, QueueElements
  <2>2. QED BY <2>1, <1>2, DrainedFields
<1>6. CASE pending[n] = myId
  <2>1. myId \in Ids BY DEF TypeOK
  <2>2. session.helloSeen \/ \E j \in 1 .. n - 1 : Line[j] = "hello"
    BY <2>1, <1>3, <1>6 DEF OneRefusalIn
  <2>3. ASSUME NEW j \in 1 .. n - 1, Line[j] = "hello" PROVE "hello" \in ToSet(pending)
    <3>1. j \in 1 .. Len(pending) BY <1>1, LineFields
    <3>2. pending[j] = "hello" BY <3>1, <2>3, LineFields
    <3>3. QED BY <3>1, <3>2, QueueElements
  <2>4. SessionAfter(pending).helloSeen BY <2>2, <2>3, DrainedFields
  <2>5. DOMAIN pending = 1 .. Len(pending) BY LineFields
  <2>6. \A m \in 1 .. Len(pending) : pending[m] \in Ids => m = n
    <3>1. \A m \in 1 .. Len(pending) : pending[m] \in Ids => m \in RefusalsIn(pending)
      BY <2>5, ConstantsAssumption DEF RefusalsIn
    <3>2. QED BY <3>1, <1>1
  <2>7. IsLastId(pending, n)
    <3>1. \A m \in DOMAIN pending : m > n => pending[m] \notin Ids
      BY <2>5, <2>6, <1>1, LineFields
    <3>2. QED BY <3>1, <2>1, <1>6 DEF IsLastId
  <2>8. \A m \in DOMAIN pending : IsLastId(pending, m) => m = n BY <2>5, <2>6 DEF IsLastId
  <2> DEFINE last == CHOOSE m \in DOMAIN pending : IsLastId(pending, m)
  <2>9. last = n
    <3>1. \E m \in DOMAIN pending : IsLastId(pending, m) BY <2>5, <2>7, <1>1
    <3>2. last \in DOMAIN pending /\ IsLastId(pending, last) BY <3>1
    <3>3. QED BY <3>2, <2>8
  <2> HIDE DEF last
  <2>10. RefusedAfter(pending).id = pending[last]
    <3>1. \E m \in DOMAIN pending : IsLastId(pending, m) BY <2>5, <2>7, <1>1
    <3>2. QED BY <3>1 DEF RefusedAfter, last
  <2>11. QED BY <1>2, <1>6, <2>4, <2>9, <2>10
<1>7. QED BY <1>4, <1>5, <1>6

\* The muddle is cleared only where an attempt begins with nothing unheard.
LEMMA UnmuddledBefore ==
    TypeOK /\ [Next]_vars /\ ~past'.muddled =>
        ~past.muddled \/ ((NetLinkConnect \/ NetLinkReconnect) /\ ~Unreported)
<1> SUFFICES ASSUME TypeOK, [Next]_vars, ~past'.muddled, past.muddled
             PROVE  (NetLinkConnect \/ NetLinkReconnect) /\ ~Unreported
  OBVIOUS
<1>1. past \in Pasts BY DEF TypeOK
<1>2. past'.muddled # past.muddled OBVIOUS
<1>3. ~(Threads \/ Reader \/ AnnounceStation \/ SendToNet \/ WindowCloses \/ ServerReads
        \/ LinkLost \/ (\E kind \in Kinds : ServerChanges(kind)) \/ UNCHANGED vars)
  BY <1>2 DEF Threads, TearDown, DialFails, DialSucceeds, StartReader, NetBeginLinkSession,
     SendHello, LookAtWish, AttemptEnds, Reader, NetDataArrived, ReaderEnds, NetLinkDropped, AnnounceStation,
     SendToNet, WindowCloses, ServerReads, LinkLost, ServerChanges, vars
<1>4. ~NetContestChanged BY <1>1 DEF NetContestChanged, Pasts
<1>5. ~Drain BY <1>2, DrainFields
<1>6. ~ReportDropped BY <1>2, DroppedFields
<1>7. ~NetLinkTick BY TickFields
<1>8. ~NetLinkDisconnect BY <1>2, DisconnectFields
<1>9. ~\E id \in Ids : ChangeComputerId(id) BY IdFields
<1>10. NetLinkConnect \/ NetLinkReconnect => ~Unreported BY ConnectFields
<1>11. QED BY <1>3, <1>4, <1>5, <1>6, <1>7, <1>8, <1>9, <1>10 DEF Next, Threads, Reader, Queued

\* A warning is given once, and what it was for stands until the operator acts.
LEMMA WarnedStep ==
    /\ TypeOK /\ Backed /\ Shape /\ CleanStart /\ Orphan /\ Warned /\ OneAnswer
    /\ [Next]_vars
    => Warned'
<1> SUFFICES ASSUME TypeOK, Backed, Shape, CleanStart, Orphan, Warned, OneAnswer, [Next]_vars,
                    ~past'.muddled, past'.told # 0
             PROVE  Warned'
  BY DEF Warned
<1>1. /\ client \in Clients /\ past \in Pasts /\ session \in Sessions /\ myId \in Ids
      /\ past.told \in 0 .. 2 /\ conn.out \in Seq(FromServer)
  BY DEF TypeOK, Pasts, Conns
<1>2. ~NetLinkConnect /\ ~NetLinkReconnect BY ConnectFields
<1>3. ~past.muddled BY <1>2, UnmuddledBefore
<1>4. past.told # 0 =>
         /\ past.told = 1 /\ ~client.up /\ pending = <<>> /\ ~Dialling
         /\ refused.server \/ (refused.id = myId /\ session.helloSeen /\ attempt \notin {"reader", "session"})
  BY <1>3 DEF Warned
<1>5. ASSUME UNCHANGED <<pending, refused, myId>>, past'.told = past.told,
             client'.up => client.up, attempt' = attempt \/ attempt' \notin {"starting", "dialling", "reader", "session"},
             session'.helloSeen = session.helloSeen
      PROVE  Warned'
  BY <1>4, <1>5 DEF Warned, Dialling
<1>6. CASE TearDown \/ DialFails \/ DialSucceeds \/ StartReader
  <2>1. Unread /\ UNCHANGED past BY <1>6 DEF TearDown, DialFails, DialSucceeds, StartReader, Unread, Dialling
  <2>2. QED BY <2>1, <1>1, <1>3 DEF CleanStart
<1>7. CASE NetBeginLinkSession
  <2>1. attempt = "session" /\ attempt' = "hello" /\ UNCHANGED <<client, pending, refused, past>>
    BY <1>7 DEF NetBeginLinkSession
  <2>2. QED BY <2>1, <1>4 DEF Warned, Dialling
<1>8. CASE SendHello
  <2>1. session'.helloSeen = session.helloSeen BY <1>8, <1>1 DEF SendHello, Sessions
  <2>2. QED BY <1>8, <2>1, <1>5 DEF SendHello
<1>9. CASE LookAtWish
  <2>1. past.told # 0 /\ ~client.up BY <1>9, <1>4 DEF LookAtWish
  <2>2. QED BY <1>9, <2>1, <1>5 DEF LookAtWish
<1>10. CASE AttemptEnds BY <1>10, <1>5 DEF AttemptEnds
<1>11. CASE Reader
  <2>1. CASE \E n \in 1 .. Len(conn.out) : NetDataArrived(n)
    <3>1. client.up /\ UNCHANGED past BY <2>1, ArrivedLine DEF NetDataArrived
    <3>2. QED BY <3>1, <1>4
  <2>2. CASE ReaderEnds \/ NetLinkDropped
    <3>1. client'.up => client.up BY <2>2, <1>1 DEF ReaderEnds, NetLinkDropped, Clients
    <3>2. QED BY <2>2, <3>1, <1>5 DEF ReaderEnds, NetLinkDropped
  <2>3. QED BY <1>11, <2>1, <2>2 DEF Reader
<1>12. CASE Drain
  <2>1. /\ pending' = <<>> /\ UNCHANGED <<attempt, myId>> /\ refused' = RefusedAfter(pending)
        /\ session'.helloSeen = SessionAfter(pending).helloSeen
        /\ past'.told = UpToTwo(past.told + Cardinality(RefusalsIn(pending)))
        /\ mainq # <<>>
    BY <1>12, DrainFields DEF Takes
  <2>2. ~Dialling BY <2>1, <1>3 DEF CleanStart, Unread
  <2>3. CASE RefusalsIn(pending) = {}
    <3>1. past'.told = past.told
      <4>1. Cardinality(RefusalsIn(pending)) = 0 BY <2>3, FS_EmptySet
      <4>2. past.told + 0 = past.told BY <1>1
      <4>3. UpToTwo(past.told) = past.told BY <1>1 DEF UpToTwo
      <4>4. QED BY <2>1, <4>1, <4>2, <4>3
    <3>2. client' = client BY <1>12, <2>3, DrainFields
    <3>3. refused'.server = (refused.server \/ "mismatch" \in ToSet(pending))
          /\ refused'.id = refused.id /\ (session.helloSeen => session'.helloSeen)
      BY <2>1, <2>3, DrainedFields
    <3>4. QED BY <2>1, <2>2, <3>1, <3>2, <3>3, <1>4 DEF Warned, Dialling
  <2>4. CASE RefusalsIn(pending) # {}
    <3>1. pending # <<>> BY <2>4 DEF RefusalsIn
    <3>2. past.told = 0 /\ OneRefusalIn(Line) BY <3>1, <1>3, <1>4 DEF OneAnswer
    <3>3. ~Greeting
      <4>1. Line # <<>> BY <3>1, LineFields
      <4>2. QED BY <4>1, <1>3 DEF OneAnswer
    <3>4. past'.told = 1
      <4>1. Cardinality(RefusalsIn(pending)) = 1 BY <2>4, <3>2, DrainedOnce
      <4>2. UpToTwo(0 + 1) = 1 BY DEF UpToTwo
      <4>3. QED BY <4>1, <4>2, <3>2, <2>1
    <3>5. ~client'.up BY <1>12, <2>4, DrainFields, GoneFields
    <3>6. refused'.server \/ (refused'.id = myId /\ session'.helloSeen)
      BY <2>1, <2>4, <3>2, DrainedOnce
    <3>7. QED BY <2>1, <2>2, <3>3, <3>4, <3>5, <3>6 DEF Warned, Dialling, Greeting, Unannounced
  <2>5. QED BY <2>3, <2>4
<1>13. CASE ReportDropped
  <2>1. client' = Down /\ pending' = <<>> /\ UNCHANGED <<attempt, session, myId>> /\ mainq # <<>>
    BY <1>13, DroppedFields DEF Takes
  <2>2. ~Dialling /\ ~client'.up BY <2>1, <1>3, GoneFields DEF CleanStart, Unread
  <2>3. CASE LooksOlder(session, refused)
    <3>1. refused'.server /\ past'.told = UpToTwo(past.told + 1) BY <1>13, <2>3, DroppedFields
    <3>2. past.told = 0 BY <2>3, <1>4 DEF LooksOlder
    <3>3. UpToTwo(0 + 1) = 1 BY DEF UpToTwo
    <3>4. QED BY <2>1, <2>2, <3>1, <3>2, <3>3 DEF Warned, Dialling
  <2>4. CASE ~LooksOlder(session, refused)
    <3>1. UNCHANGED <<refused, past>> BY <1>13, <2>4, DroppedFields
    <3>2. QED BY <2>1, <2>2, <3>1, <1>4 DEF Warned, Dialling
  <2>5. QED BY <2>3, <2>4
<1>14. CASE AnnounceStation \/ SendToNet \/ ServerReads \/ LinkLost
            \/ (\E kind \in Kinds : ServerChanges(kind)) \/ UNCHANGED vars
  BY <1>14, <1>5 DEF AnnounceStation, SendToNet, ServerReads, LinkLost, ServerChanges, vars
<1>15. CASE NetContestChanged BY <1>15, <1>1 DEF NetContestChanged, Pasts
<1>16. CASE WindowCloses
  <2>1. session'.helloSeen = session.helloSeen BY <1>16, <1>1 DEF WindowCloses, Sessions
  <2>2. QED BY <1>16, <2>1, <1>5 DEF WindowCloses
<1>17. CASE NetLinkTick
  <2>1. past'.told = past.told /\ UNCHANGED <<client, pending, session, myId>> BY <1>17, TickFields
  <2>2. CASE IdRefused(refused)
    <3>1. UNCHANGED <<refused, attempt>> BY <1>17, <2>2, TickFields
    <3>2. QED BY <2>1, <3>1, <1>4 DEF Warned, Dialling
  <2>3. CASE ~IdRefused(refused)
    <3>1. refused'.server = refused.server
          /\ attempt' = IF ~refused.server /\ attempt = "none" THEN "starting" ELSE attempt
      BY <1>17, <2>3, TickFields
    <3>2. refused.id # myId BY <2>3, <1>1, ConstantsAssumption DEF IdRefused
    <3>3. QED BY <2>1, <3>1, <3>2, <1>4 DEF Warned, Dialling
  <2>4. QED BY <2>2, <2>3
<1>18. CASE NetLinkDisconnect
  <2>1. UNCHANGED <<attempt, session, refused, myId>> /\ past'.told = past.told
        /\ (UNCHANGED <<client, pending>> \/ (client' = Down /\ pending' = <<>>))
    BY <1>18, DisconnectFields
  <2>2. QED BY <2>1, <1>4, GoneFields DEF Warned, Dialling
<1>19. ASSUME NEW id \in Ids, ChangeComputerId(id) PROVE Warned'
  BY <1>19, IdFields
<1> QED
  BY <1>2, <1>6, <1>7, <1>8, <1>9, <1>10, <1>11, <1>12, <1>13, <1>14, <1>15, <1>16, <1>17, <1>18,
     <1>19 DEF Next, Reader

\* A line without its last part holds no more refusals than the line.
LEMMA LineKept ==
    ASSUME TypeOK, TypeOK', OneRefusalIn(Line), myId' = myId, session'.helloSeen = session.helloSeen,
           pending' = pending, Line' = Line \/ Line' = pending
    PROVE  OneRefusalIn(Line)'
<1>1. ASSUME Line' = Line PROVE OneRefusalIn(Line)' BY <1>1 DEF OneRefusalIn
<1>2. ASSUME Line' = pending PROVE OneRefusalIn(Line)'
  <2>1. Len(pending) \in Nat /\ Len(Line) \in Nat /\ Len(pending) <= Len(Line)
        /\ \A i \in 1 .. Len(pending) : Line[i] = pending[i]
    BY LineFields
  <2>2. \A i \in 1 .. Len(pending) : i \in 1 .. Len(Line) BY <2>1
  <2>3. \A i, j \in 1 .. Len(pending) : pending[i] # "hello" /\ pending[j] # "hello" => i = j
    BY <2>1, <2>2 DEF OneRefusalIn
  <2>4. \A i \in 1 .. Len(pending) : pending[i] \in {"hello", "mismatch", myId}
    BY <2>1, <2>2 DEF OneRefusalIn
  <2>5. ASSUME NEW i \in 1 .. Len(pending), pending[i] \in Ids
        PROVE  session.helloSeen \/ \E j \in 1 .. i - 1 : pending[j] = "hello"
    <3>1. i \in 1 .. Len(Line) /\ Line[i] \in Ids BY <2>1, <2>2, <2>5
    <3>2. session.helloSeen \/ \E j \in 1 .. i - 1 : Line[j] = "hello" BY <3>1 DEF OneRefusalIn
    <3>3. \A j \in 1 .. i - 1 : pending[j] = Line[j] BY <2>1
    <3>4. QED BY <3>2, <3>3
  <2>6. QED BY <1>2, <2>3, <2>4, <2>5 DEF OneRefusalIn
<1>3. QED BY <1>1, <1>2

\* A line loses what is drained; what is left of it holds no more refusals.
LEMMA LineDrained ==
    ASSUME TypeOK, TypeOK', OneRefusalIn(Line), Drain, RefusalsIn(pending) = {}
    PROVE  OneRefusalIn(Line)'
<1>1. pending' = <<>> /\ client' = client /\ conn'.out = conn.out /\ myId' = myId
      /\ session'.helloSeen = SessionAfter(pending).helloSeen
  BY DrainFields
<1>2. client.up \in BOOLEAN BY DEF TypeOK, Clients
<1>3. pending \in Seq(FromServer) /\ conn.out \in Seq(FromServer) /\ Len(pending) \in Nat
      /\ (client.up => /\ Len(Line) = Len(pending) + Len(conn.out)
                       /\ \A i \in 1 .. Len(conn.out) : Line[Len(pending) + i] = conn.out[i])
  BY LineFields
<1>4. CASE ~client.up
  <2>1. Line' = <<>> BY <1>1, <1>4 DEF Line
  <2>2. QED BY <2>1 DEF OneRefusalIn
<1>5. CASE client.up
  <2>1. Line' = conn.out
    <3>1. Line' = <<>> \o conn.out BY <1>1, <1>5 DEF Line
    <3>2. QED BY <3>1, <1>3
  <2>2. \A i \in 1 .. Len(conn.out) : Len(pending) + i \in 1 .. Len(Line)
    BY <1>3, <1>5
  <2>3. \A i, j \in 1 .. Len(conn.out) : conn.out[i] # "hello" /\ conn.out[j] # "hello" => i = j
    <3>1. ASSUME NEW i \in 1 .. Len(conn.out), NEW j \in 1 .. Len(conn.out),
                 conn.out[i] # "hello", conn.out[j] # "hello"
          PROVE  i = j
      <4>1. Len(pending) + i = Len(pending) + j
        BY <3>1, <2>2, <1>3, <1>5 DEF OneRefusalIn
      <4>2. QED BY <4>1, <1>3
    <3>2. QED BY <3>1
  <2>4. \A i \in 1 .. Len(conn.out) : conn.out[i] \in {"hello", "mismatch", myId}
    BY <2>2, <1>3, <1>5 DEF OneRefusalIn
  <2>5. CASE pending = <<>>
    <3>1. Line = conn.out BY <2>5, <1>5, LineFields
    <3>2. ToSet(pending) = {} BY <2>5 DEF ToSet
    <3>3. session'.helloSeen = session.helloSeen
      <4>1. session.helloSeen \in BOOLEAN BY DEF TypeOK, Sessions
      <4>2. QED BY <1>1, <3>2, <4>1, DrainedFields
    <3>4. QED BY <2>1, <3>1, <3>3, <1>1 DEF OneRefusalIn
  <2>6. CASE pending # <<>>
    <3>1. 1 \in DOMAIN pending BY <2>6, <1>3
    <3>2. pending[1] = "hello" BY <3>1 DEF RefusalsIn
    <3>3. "hello" \in ToSet(pending) BY <3>1, <3>2 DEF ToSet
    <3>4. session'.helloSeen BY <1>1, <3>3, DrainedFields
    <3>5. QED BY <2>1, <2>3, <2>4, <3>4, <1>1 DEF OneRefusalIn
  <2>7. QED BY <2>5, <2>6
<1>6. QED BY <1>2, <1>4, <1>5

\* The server's answer to our HELLO is one HELLO and one refusal at most.
LEMMA LineAnswered ==
    ASSUME TypeOK, TypeOK', ServerReads, client.up, Line = <<>>, conn.state = "fresh",
           Head(conn.in) \in {None, myId}
    PROVE  OneRefusalIn(Line)'
<1>1. pending = <<>> /\ conn.out = <<>> /\ UNCHANGED <<pending, client, session, myId>>
  BY LineFields, ReadsFields
<1>2. Line' = conn'.out
  <2>1. Line' = <<>> \o conn'.out BY <1>1 DEF Line
  <2>2. conn'.out \in Seq(FromServer) BY DEF TypeOK, Conns
  <2>3. QED BY <2>1, <2>2
<1>3. myId # "hello" /\ myId \in Ids /\ "mismatch" \notin Ids /\ "hello" \notin Ids
  BY ConstantsAssumption DEF TypeOK
<1>4. \/ conn'.out = <<>> \/ conn'.out = <<"hello">> \/ conn'.out = <<"mismatch">>
      \/ conn'.out = <<"hello">> \o <<myId>>
  <2>1. CASE Head(conn.in) = None BY <2>1, <1>1, ReadsFields
  <2>2. CASE Head(conn.in) # None
    <3>1. \/ conn'.out = <<>> \o <<"hello">> \o Judged(myId)
          \/ conn'.out = Append(<<>>, "mismatch") \/ conn'.out = <<>>
      BY <2>2, <1>1, ReadsFields
    <3>2. Judged(myId) = <<>> \/ Judged(myId) = <<myId>> BY DEF Judged
    <3>3. <<>> \o <<"hello">> = <<"hello">> /\ <<"hello">> \o <<>> = <<"hello">>
          /\ Append(<<>>, "mismatch") = <<"mismatch">>
      OBVIOUS
    <3>4. QED BY <3>1, <3>2, <3>3
  <2>3. QED BY <2>1, <2>2
<1>5. CASE conn'.out = <<>> BY <1>2, <1>5 DEF OneRefusalIn
<1>6. CASE conn'.out = <<"hello">> BY <1>1, <1>2, <1>3, <1>6 DEF OneRefusalIn
<1>7. CASE conn'.out = <<"mismatch">> BY <1>1, <1>2, <1>3, <1>7 DEF OneRefusalIn
<1>8. CASE conn'.out = <<"hello">> \o <<myId>>
  <2> DEFINE line == <<"hello">> \o <<myId>>
  <2>1. Len(line) = 2 /\ line[1] = "hello" /\ line[2] = myId OBVIOUS
  <2>2. \A i \in 1 .. 2 : i = 1 \/ i = 2 OBVIOUS
  <2> HIDE DEF line
  <2>3. \A i, j \in 1 .. Len(line) : line[i] # "hello" /\ line[j] # "hello" => i = j
    BY <2>1, <2>2
  <2>4. \A i \in 1 .. Len(line) : line[i] \in {"hello", "mismatch", myId} BY <2>1, <2>2
  <2>5. \A i \in 1 .. Len(line) : line[i] \in Ids => \E j \in 1 .. i - 1 : line[j] = "hello"
    <3>1. ASSUME NEW i \in 1 .. Len(line), line[i] \in Ids PROVE \E j \in 1 .. i - 1 : line[j] = "hello"
      <4>1. i = 2 BY <2>1, <2>2, <3>1, <1>3
      <4>2. 1 \in 1 .. i - 1 BY <4>1
      <4>3. QED BY <4>2, <2>1
    <3>2. QED BY <3>1
  <2>6. Line' = line BY <1>2, <1>8 DEF line
  <2>7. QED BY <2>3, <2>4, <2>5, <2>6, <1>1 DEF OneRefusalIn
<1>9. QED BY <1>4, <1>5, <1>6, <1>7, <1>8

\* The HELLOs the server has still to read: a post of the main thread adds none, ours adds
\* one, reading takes the first.
LEMMA AskedFields ==
    ASSUME TypeOK, TypeOK'
    PROVE  /\ Asked \subseteq 1 .. Len(conn.in) /\ (conn.in = <<>> => Asked = {})
           /\ conn'.in = conn.in => Asked' = Asked
           /\ conn'.in = <<>> => Asked' = {}
           /\ conn'.in = <<None>> => Asked' = {}
           /\ conn'.in = Append(conn.in, myId) => Asked' = Asked \cup {Len(conn.in) + 1}
           /\ conn.in # <<>> /\ conn'.in = Tail(conn.in) =>
                 /\ \A i \in Asked' : i + 1 \in Asked /\ conn'.in[i] = conn.in[i + 1]
                 /\ Head(conn.in) # None => 1 \in Asked
                 /\ Head(conn.in) = conn.in[1]
<1>1. conn.in \in Seq(FromStation) /\ myId \in Ids /\ None \notin Ids /\ myId # None
  BY ConstantsAssumption DEF TypeOK, Conns
<1>2. Asked \subseteq 1 .. Len(conn.in) /\ (conn.in = <<>> => Asked = {}) BY <1>1 DEF Asked
<1>3. conn'.in = conn.in => Asked' = Asked BY DEF Asked
<1>4. conn'.in = <<>> => Asked' = {} BY DEF Asked
<1>5. conn'.in = <<None>> => Asked' = {}
  <2>1. Len(<<None>>) = 1 /\ <<None>>[1] = None OBVIOUS
  <2>2. \A i \in 1 .. 1 : i = 1 OBVIOUS
  <2>3. QED BY <2>1, <2>2 DEF Asked
<1>6. ASSUME conn'.in = Append(conn.in, myId) PROVE Asked' = Asked \cup {Len(conn.in) + 1}
  <2>1. Len(conn'.in) = Len(conn.in) + 1 /\ Len(conn.in) \in Nat
        /\ (\A i \in 1 .. Len(conn.in) : conn'.in[i] = conn.in[i])
        /\ \A i \in 1 .. Len(conn.in) + 1 : i \in 1 .. Len(conn.in) \/ (conn'.in[i] = myId /\ i = Len(conn.in) + 1)
    BY <1>1, <1>6
  <2>2. ASSUME NEW i \in Asked' PROVE i \in Asked \cup {Len(conn.in) + 1}
    <3>1. i \in 1 .. Len(conn.in) + 1 /\ conn'.in[i] # None BY <2>1, <2>2 DEF Asked
    <3>2. QED BY <3>1, <2>1 DEF Asked
  <2>3. ASSUME NEW i \in Asked \cup {Len(conn.in) + 1} PROVE i \in Asked'
    <3>1. CASE i \in Asked
      <4>1. i \in 1 .. Len(conn.in) /\ conn.in[i] # None BY <3>1 DEF Asked
      <4>2. i \in 1 .. Len(conn'.in) /\ conn'.in[i] # None BY <4>1, <2>1
      <4>3. QED BY <4>2 DEF Asked
    <3>2. CASE i = Len(conn.in) + 1
      <4>1. i \in 1 .. Len(conn.in) + 1 /\ i \notin 1 .. Len(conn.in) BY <3>2, <2>1
      <4>2. conn'.in[i] # None /\ i \in 1 .. Len(conn'.in) BY <4>1, <2>1, <1>1
      <4>3. QED BY <4>2 DEF Asked
    <3>3. QED BY <2>3, <3>1, <3>2
  <2>4. QED BY <2>2, <2>3
<1>7. ASSUME conn.in # <<>>, conn'.in = Tail(conn.in)
      PROVE  /\ \A i \in Asked' : i + 1 \in Asked /\ conn'.in[i] = conn.in[i + 1]
             /\ Head(conn.in) # None => 1 \in Asked
             /\ Head(conn.in) = conn.in[1]
  <2>1. Len(conn'.in) = Len(conn.in) - 1 /\ Len(conn.in) \in Nat /\ Head(conn.in) = conn.in[1]
        /\ (\A i \in 1 .. Len(conn'.in) : conn'.in[i] = conn.in[i + 1]) /\ 1 \in 1 .. Len(conn.in)
    BY <1>1, <1>7
  <2>2. ASSUME NEW i \in Asked' PROVE i + 1 \in Asked /\ conn'.in[i] = conn.in[i + 1]
    <3>1. i \in 1 .. Len(conn'.in) /\ conn'.in[i] # None BY <2>2 DEF Asked
    <3>2. i + 1 \in 1 .. Len(conn.in) BY <3>1, <2>1
    <3>3. QED BY <3>1, <3>2, <2>1 DEF Asked
  <2>3. Head(conn.in) # None => 1 \in Asked BY <2>1 DEF Asked
  <2>4. QED BY <2>1, <2>2, <2>3
<1>8. QED BY <1>2, <1>3, <1>4, <1>5, <1>6, <1>7

\* One HELLO of ours on a link, and one refusal of it.
LEMMA OneAnswerStep ==
    TypeOK /\ TypeOK' /\ Backed /\ Shape /\ CleanStart /\ Orphan /\ OneAnswer /\ [Next]_vars
    => OneAnswer'
<1> SUFFICES ASSUME TypeOK, TypeOK', Backed, Shape, CleanStart, Orphan, OneAnswer, [Next]_vars,
                    ~past'.muddled
             PROVE  OneAnswer'
  BY DEF OneAnswer
<1> USE DEF Greeting, Unannounced
<1>1. /\ client \in Clients /\ session \in Sessions /\ myId \in Ids /\ client.up \in BOOLEAN
      /\ conn.in \in Seq(FromStation) /\ conn.out \in Seq(FromServer) /\ pending \in Seq(FromServer)
      /\ past \in Pasts
  BY DEF TypeOK, Clients, Conns
<1>3. ASSUME ~client'.up, pending' = <<>> PROVE OneAnswer'
  <2>1. Line' = <<>> BY <1>3 DEF Line
  <2>2. QED BY <1>3, <2>1, NothingSaid DEF OneAnswer, OneRefusalIn
<1>4. ASSUME client' = Down, pending' = <<>> PROVE OneAnswer'
  BY <1>3, <1>4, GoneFields
<1>5. CASE NetLinkConnect \/ NetLinkReconnect
  <2>1. /\ ~Unreported \/ past'.muddled
        /\ refused'.id = None /\ UNCHANGED mainq
        /\ \/ ~client.up /\ UNCHANGED <<client, conn, pending>>
           \/ client' = Down /\ conn' = NoConn /\ pending' = <<>>
    BY <1>5, ConnectFields
  <2>2. ~Unreported BY <2>1
  <2>3. ~client'.up /\ (client' = client \/ client'.reader = "none")
        /\ (pending' = pending \/ pending' = <<>>)
    BY <2>1, GoneFields
  <2>4. pending' = <<>> BY <2>1, <2>2, <2>3, CleanBegins
  <2>5. QED BY <2>3, <2>4, <1>3
<1> SUFFICES ASSUME ~NetLinkConnect, ~NetLinkReconnect PROVE OneAnswer'
  BY <1>5
<1>6. ~past.muddled BY UnmuddledBefore
<1>7. /\ Greeting => Line = <<>> /\ (client.up => Asked = {} /\ conn.state # "joined")
      /\ client.up /\ conn.state \in Open /\ Asked # {} => conn.state = "fresh" /\ Line = <<>>
      /\ client.up => \A i, j \in Asked : i = j /\ conn.in[i] = myId
      /\ OneRefusalIn(Line)
  BY <1>6 DEF OneAnswer
<1>8. ASSUME UNCHANGED <<client, pending, session, myId>>,
             attempt' = attempt \/ ~Greeting' \/ Greeting,
             conn'.in = conn.in \/ (Asked = {} /\ Asked' = {}),
             conn'.out = conn.out, conn'.state = conn.state
      PROVE  OneAnswer'
  <2>1. Line' = Line BY <1>8 DEF Line
  <2>2. OneRefusalIn(Line)' BY <2>1, <1>7, <1>8 DEF OneRefusalIn
  <2>3. Greeting' => Greeting BY <1>8
  <2>4. CASE conn'.in = conn.in
    <3>1. Asked' = Asked BY <2>4 DEF Asked
    <3>2. QED BY <2>1, <2>2, <2>3, <2>4, <3>1, <1>7, <1>8 DEF OneAnswer
  <2>5. CASE Asked = {} /\ Asked' = {}
    BY <2>1, <2>2, <2>3, <2>5, <1>7, <1>8 DEF OneAnswer
  <2>6. QED BY <1>8, <2>4, <2>5
<1>9. CASE TearDown
  <2>1. Dialling /\ UNCHANGED pending /\ ~client'.up
    BY <1>9 DEF TearDown, Dialling, Down
  <2>2. pending' = <<>> BY <2>1, <1>6 DEF CleanStart, Unread
  <2>3. QED BY <2>1, <2>2, <1>3
<1>10. CASE DialFails BY <1>10, <1>4 DEF DialFails
<1>11. CASE DialSucceeds
  <2>1. Dialling /\ UNCHANGED pending /\ conn' = [NoConn EXCEPT !.state = "fresh"]
    BY <1>11 DEF DialSucceeds, Dialling
  <2>2. pending' = <<>> /\ conn'.in = <<>> /\ conn'.out = <<>> /\ conn'.state = "fresh"
    BY <2>1, <1>6 DEF CleanStart, Unread, NoConn
  <2>3. Line' = <<>>
    <3>1. Line' = <<>> \o <<>> BY <2>2 DEF Line
    <3>2. QED BY <3>1
  <2>4. Asked' = {} BY <2>2, AskedFields
  <2>5. QED BY <2>2, <2>3, <2>4, NothingSaid DEF OneAnswer, OneRefusalIn
<1>12. CASE StartReader \/ NetBeginLinkSession
  <2>1. UNCHANGED <<pending, conn, myId>> /\ client'.up = client.up /\ Greeting /\ Line = <<>>
    BY <1>12, <1>1, <1>7 DEF StartReader, NetBeginLinkSession, Clients
  <2>2. Line' = <<>> /\ Asked' = Asked BY <2>1 DEF Line, Asked
  <2>3. QED BY <2>1, <2>2, <1>7, NothingSaid DEF OneAnswer, OneRefusalIn
<1>13. CASE SendHello
  <2>1. /\ attempt = "hello" /\ attempt' = "look" /\ UNCHANGED <<client, pending, myId>>
        /\ conn'.state = conn.state /\ conn'.out = conn.out
        /\ conn'.in = IF client.up /\ (myId = None => conn.state = "fresh" /\ conn.in = <<>>)
                      THEN Append(conn.in, myId) ELSE conn.in
    BY <1>13, PostedFields DEF SendHello
  <2>2. session'.helloSeen = session.helloSeen BY <1>13, <1>1 DEF SendHello, Sessions
  <2>3. Line' = Line /\ Line = <<>> BY <2>1, <1>7 DEF Line
  <2>4. CASE ~client.up BY <2>1, <2>3, <2>4, NothingSaid DEF OneAnswer, OneRefusalIn
  <2>5. CASE client.up
    <3>1. myId # None BY <1>1, ConstantsAssumption
    <3>2. conn'.in = Append(conn.in, myId) BY <2>1, <2>5, <3>1
    <3>3. Asked = {} /\ conn.state # "joined" BY <2>1, <2>5, <1>7
    <3>4. Asked' = {Len(conn.in) + 1} BY <3>2, <3>3, AskedFields
    <3>5. conn'.in[Len(conn.in) + 1] = myId BY <3>2, <1>1
    <3>6. conn'.state \in Open => conn'.state = "fresh" BY <3>3, <2>1 DEF Open
    <3>7. \A i, j \in Asked' : i = j /\ conn'.in[i] = myId BY <3>4, <3>5
    <3>8. Line' = <<>> BY <2>3
    <3>9. OneRefusalIn(Line)' BY <3>8 DEF OneRefusalIn
    <3>10. ~Greeting' BY <2>1
    <3>11. QED BY <2>1, <3>6, <3>7, <3>8, <3>9, <3>10 DEF OneAnswer
  <2>6. QED BY <1>1, <2>4, <2>5
<1>14. CASE LookAtWish
  <2>1. CASE client' = Down /\ pending' = <<>> BY <2>1, <1>4
  <2>2. CASE UNCHANGED <<client, conn, pending>> BY <1>14, <2>2, <1>8 DEF LookAtWish
  <2>3. QED BY <1>14, <2>1, <2>2 DEF LookAtWish
<1>15. CASE AttemptEnds BY <1>15, <1>8 DEF AttemptEnds
<1>16. ASSUME NEW n \in 1 .. Len(conn.out), NetDataArrived(n) PROVE OneAnswer'
  <2>1. client.up /\ Line' = Line BY <1>16, ArrivedLine
  <2>2. conn'.state = conn.state /\ conn'.in = conn.in /\ conn.out # <<>>
        /\ UNCHANGED <<attempt, client, session, myId>>
    BY <1>16, ArrivedFields
  <2>3. Asked' = Asked BY <2>2 DEF Asked
  <2>4. Line # <<>> BY <2>1, <2>2, LineFields
  <2>5. OneRefusalIn(Line)' BY <2>1, <2>2, <1>7 DEF OneRefusalIn
  <2>6. QED BY <2>1, <2>2, <2>3, <2>5, <1>7 DEF OneAnswer
<1>17. CASE ReaderEnds
  <2>1. UNCHANGED <<attempt, conn, pending, session, myId>> /\ ~client'.up /\ conn.out = <<>>
    BY <1>17, <1>1 DEF ReaderEnds, Clients
  <2>2. Line' = pending /\ Line = pending
    <3>1. Line' = pending \o <<>> BY <2>1 DEF Line
    <3>2. QED BY <3>1, <2>1, <1>1, LineFields
  <2>3. OneRefusalIn(Line)' BY <2>1, <2>2, <1>7, LineKept
  <2>4. QED BY <2>1, <2>2, <2>3, <1>7 DEF OneAnswer
<1>18. CASE NetLinkDropped
  <2>1. UNCHANGED <<attempt, conn, pending, session, myId>> /\ client'.up = client.up
    BY <1>18, <1>1 DEF NetLinkDropped, Clients
  <2>2. Line' = Line /\ Asked' = Asked BY <2>1 DEF Line, Asked
  <2>3. OneRefusalIn(Line)' BY <2>1, <2>2, <1>7, LineKept
  <2>4. QED BY <2>1, <2>2, <2>3, <1>7 DEF OneAnswer
<1>19. CASE Drain
  <2>1. CASE RefusalsIn(pending) # {} BY <1>19, <2>1, <1>4, DrainFields
  <2>2. CASE RefusalsIn(pending) = {}
    <3>1. /\ pending' = <<>> /\ client' = client /\ conn'.state = conn.state /\ conn'.out = conn.out
          /\ UNCHANGED <<attempt, myId>>
          /\ conn'.in = conn.in \/ (conn.in = <<>> /\ conn'.in = <<None>>)
      BY <1>19, <2>2, DrainFields
    <3>2. conn'.in = conn.in \/ (Asked = {} /\ Asked' = {}) BY <3>1, AskedFields
    <3>3. OneRefusalIn(Line)' BY <1>19, <2>2, <1>7, LineDrained
    <3>4. Line = <<>> => Line' = <<>>
      <4>1. ASSUME Line = <<>> PROVE Line' = <<>>
        <5>1. pending = <<>> BY <4>1, LineFields
        <5>2. pending' = pending /\ client'.up = client.up /\ conn'.out = conn.out BY <3>1, <5>1
        <5>3. Line' = Line BY <5>2 DEF Line
        <5>4. QED BY <4>1, <5>3
      <4>2. QED BY <4>1
    <3>5. Asked' = Asked /\ (Asked # {} => conn'.in = conn.in)
      <4>1. conn'.in = conn.in => Asked' = Asked BY AskedFields
      <4>2. QED BY <3>2, <4>1
    <3>6. Greeting' => Line' = <<>> /\ (client'.up => Asked' = {} /\ conn'.state # "joined")
      BY <3>1, <3>4, <3>5, <1>7
    <3>7. client'.up /\ conn'.state \in Open /\ Asked' # {} => conn'.state = "fresh" /\ Line' = <<>>
      BY <3>1, <3>4, <3>5, <1>7
    <3>8. client'.up => \A i, j \in Asked' : i = j /\ conn'.in[i] = myId
      BY <3>1, <3>5, <1>7
    <3>9. QED BY <3>1, <3>3, <3>6, <3>7, <3>8 DEF OneAnswer
  <2>3. QED BY <2>1, <2>2
<1>20. CASE ReportDropped BY <1>20, <1>4, DroppedFields
<1>21. ASSUME conn' = PostedByMain(None), UNCHANGED <<attempt, client, pending, session, myId>>
       PROVE  OneAnswer'
  <2>1. /\ conn'.state = conn.state /\ conn'.out = conn.out
        /\ conn'.in = conn.in \/ (conn.in = <<>> /\ conn'.in = Append(conn.in, None))
    BY <1>21, PostedByMainFields
  <2>2. conn.in = <<>> => Append(conn.in, None) = <<None>> OBVIOUS
  <2>3. conn'.in = conn.in \/ (Asked = {} /\ Asked' = {}) BY <2>1, <2>2, AskedFields
  <2>4. QED BY <2>1, <2>3, <1>8, <1>21
<1>22. CASE AnnounceStation BY <1>22, <1>21 DEF AnnounceStation
<1>23. CASE SendToNet BY <1>23, <1>21 DEF SendToNet
<1>24. CASE NetContestChanged BY <1>24, <1>1 DEF NetContestChanged, Pasts
<1>25. CASE WindowCloses
  <2>1. session'.helloSeen = session.helloSeen BY <1>25, <1>1 DEF WindowCloses, Sessions
  <2>2. UNCHANGED <<attempt, conn, pending, client, myId>> BY <1>25 DEF WindowCloses
  <2>3. Line' = Line /\ Asked' = Asked BY <2>2 DEF Line, Asked
  <2>4. OneRefusalIn(Line)' BY <2>1, <2>2, <2>3, <1>7, LineKept
  <2>5. QED BY <2>2, <2>3, <2>4, <1>7 DEF OneAnswer
<1>26. CASE NetLinkTick
  <2>1. UNCHANGED <<client, conn, pending, session, myId>>
        /\ (attempt' = attempt \/ attempt' = "starting")
    BY <1>26, TickFields
  <2>2. QED BY <2>1, <1>8
<1>27. CASE ServerReads
  <2>1. /\ conn.state \in Open /\ conn.in # <<>> /\ conn'.in = Tail(conn.in)
        /\ conn.state = "joined" => conn'.state = "joined"
        /\ Head(conn.in) = None => conn'.out = conn.out
        /\ UNCHANGED <<attempt, client, pending, session, myId>>
    BY <1>27, ReadsFields
  <2>2. client.up BY <2>1 DEF Shape
  <2>3. /\ \A i \in Asked' : i + 1 \in Asked /\ conn'.in[i] = conn.in[i + 1]
        /\ Head(conn.in) # None => 1 \in Asked
        /\ Head(conn.in) = conn.in[1]
    BY <2>1, AskedFields
  <2>4. \A i, j \in Asked' : i = j /\ conn'.in[i] = myId
    <3>1. ASSUME NEW i \in Asked', NEW j \in Asked' PROVE i = j /\ conn'.in[i] = myId
      <4>1. i + 1 \in Asked /\ j + 1 \in Asked /\ conn'.in[i] = conn.in[i + 1] BY <2>3
      <4>2. i + 1 = j + 1 /\ conn.in[i + 1] = myId BY <4>1, <2>2, <1>7
      <4>3. i \in Nat /\ j \in Nat BY DEF Asked
      <4>4. QED BY <4>1, <4>2, <4>3
    <3>2. QED BY <3>1
  <2>5. Head(conn.in) \in {None, myId} BY <2>2, <2>3, <1>7
  <2>6. CASE conn.state = "joined"
    <3>1. Asked = {} BY <2>1, <2>2, <2>6, <1>7
    <3>2. Asked' = {} /\ conn'.out = conn.out BY <3>1, <2>1, <2>3
    <3>3. Line' = Line BY <3>2, <2>1 DEF Line
    <3>4. OneRefusalIn(Line)' BY <3>3, <2>1, <1>7, LineKept
    <3>5. ~Greeting BY <2>2, <2>6, <1>7
    <3>6. QED BY <2>1, <3>2, <3>4, <3>5 DEF OneAnswer
  <2>7. CASE conn.state = "fresh" /\ Head(conn.in) = None
    <3>1. conn'.out = conn.out /\ conn'.state \in {"fresh", "refused"} BY <1>27, <2>7, ReadsFields
    <3>2. Line' = Line BY <3>1, <2>1 DEF Line
    <3>3. OneRefusalIn(Line)' BY <3>2, <2>1, <1>7, LineKept
    <3>4. Asked = {} => Asked' = {} BY <2>3
    <3>5. QED BY <2>1, <2>2, <2>4, <2>7, <3>1, <3>2, <3>3, <3>4, <1>7 DEF OneAnswer, Open
  <2>8. CASE conn.state = "fresh" /\ Head(conn.in) # None
    <3>1. 1 \in Asked /\ Line = <<>> BY <2>1, <2>2, <2>3, <2>8, <1>7
    <3>2. OneRefusalIn(Line)' BY <1>27, <2>2, <2>5, <2>8, <3>1, LineAnswered
    <3>3. Asked' = {}
      <4>1. ASSUME NEW i \in Asked' PROVE FALSE
        <5>1. i + 1 \in Asked BY <2>3
        <5>2. i + 1 = 1 BY <5>1, <3>1, <2>2, <1>7
        <5>3. i \in 1 .. Len(conn'.in) BY DEF Asked
        <5>4. QED BY <5>2, <5>3
      <4>2. QED BY <4>1
    <3>4. ~Greeting BY <2>2, <3>1, <1>7
    <3>5. QED BY <2>1, <3>2, <3>3, <3>4 DEF OneAnswer
  <2>9. QED BY <2>1, <2>6, <2>7, <2>8 DEF Open
<1>28. ASSUME LinkLost \/ \E kind \in Kinds : ServerChanges(kind) PROVE OneAnswer'
  <2>1. conn' = Broken /\ UNCHANGED <<attempt, client, pending, session, myId>>
    BY <1>28 DEF LinkLost, ServerChanges
  <2>2. CASE conn.state \notin Open
    <3>1. conn' = conn BY <2>1, <2>2, BrokenFields
    <3>2. QED BY <2>1, <3>1, <1>8
  <2>3. CASE conn.state \in Open
    <3>1. conn'.state = "lost" /\ conn'.in = <<>> /\ conn'.out = <<>> BY <2>1, <2>3, BrokenFields
    <3>2. Line' = pending
      <4>1. Line' = pending \o <<>> BY <2>1, <3>1 DEF Line
      <4>2. QED BY <4>1, <1>1
    <3>3. OneRefusalIn(Line)' BY <2>1, <3>2, <1>7, LineKept
    <3>4. Asked' = {} BY <3>1, AskedFields
    <3>5. Greeting' => Line' = <<>> BY <2>1, <3>2, <1>7, LineFields
    <3>6. QED BY <2>1, <3>1, <3>3, <3>4, <3>5 DEF OneAnswer, Open
  <2>4. QED BY <2>2, <2>3
<1>29. CASE NetLinkDisconnect
  <2>1. /\ UNCHANGED <<attempt, session, myId>>
        /\ UNCHANGED <<client, conn, pending>> \/ (client' = Down /\ pending' = <<>>)
    BY <1>29, DisconnectFields
  <2>2. QED BY <2>1, <1>4, <1>8
<1>30. ASSUME NEW id \in Ids, ChangeComputerId(id) PROVE OneAnswer'
  <2>1. UNCHANGED <<client, pending, mainq>>
        /\ past'.muddled = (past.muddled \/ client.up \/ attempt # "none" \/ Unreported)
    BY <1>30, IdFields
  <2>2. ~client.up /\ mainq = <<>> BY <2>1 DEF Unreported
  <2>3. pending = <<>>
    <3>1. "drain" \notin ToSet(mainq) BY <2>2 DEF ToSet
    <3>2. QED BY <3>1 DEF Shape
  <2>4. QED BY <2>1, <2>2, <2>3, <1>3
<1>31. CASE UNCHANGED vars BY <1>31, <1>8 DEF vars
<1> QED
  BY <1>9, <1>10, <1>11, <1>12, <1>13, <1>14, <1>15, <1>16, <1>17, <1>18, <1>19, <1>20, <1>22, <1>23,
     <1>24, <1>25, <1>26, <1>27, <1>28, <1>29, <1>30, <1>31 DEF Next

(* Together. *)

\* What the station's link keeps true, and what the two theorems below follow from.
IInv ==
    /\ TypeOK /\ Backed /\ Shape /\ CleanStart /\ Orphan /\ Reports
    /\ Answered /\ Sent /\ RefusalHasACause
    /\ Warned /\ OneAnswer

\* No link, nothing queued, nobody refused.
LEMMA InitInv == Init => IInv
<1> SUFFICES ASSUME Init PROVE IInv OBVIOUS
<1>1. TypeOK BY InitTyped
<1>2. ~client.up /\ client.reader = "none" /\ conn.state = "none" /\ attempt = "none"
      /\ mainq = <<>> /\ pending = <<>> /\ past.told = 0 /\ ~refused.server
  BY GoneFields DEF Init, Down
<1>3. Backed /\ Shape /\ CleanStart /\ Orphan
  BY <1>2 DEF Backed, LiveLinkHasReader, Shape, CleanStart, Orphan, Unread, Dialling, Open
<1>4. Reports
  <2>1. Len(mainq) = 0 BY <1>2
  <2>2. QED BY <1>2, <2>1 DEF Reports
<1>5. Answered /\ Sent BY <1>2 DEF Answered, Sent, InOrder
<1>6. RefusalHasACause /\ Warned BY <1>2 DEF RefusalHasACause, Warned
<1>7. OneAnswer
  <2>1. Line = <<>> BY <1>2 DEF Line
  <2>2. QED BY <1>2, <2>1, NothingSaid DEF OneAnswer, Greeting, Unannounced
<1>8. QED BY <1>1, <1>3, <1>4, <1>5, <1>6, <1>7 DEF IInv

\* Every step keeps it.
LEMMA InvStep == IInv /\ [Next]_vars => IInv'
<1> SUFFICES ASSUME IInv, [Next]_vars PROVE IInv' OBVIOUS
<1>1. /\ TypeOK /\ Backed /\ Shape /\ CleanStart /\ Orphan /\ Reports
      /\ Answered /\ Sent /\ RefusalHasACause /\ Warned /\ OneAnswer
  BY DEF IInv
<1>2. TypeOK' BY <1>1, StepTyped
<1>3. Backed' BY <1>1, LinkBackedStep
<1>4. Shape' BY <1>1, ShapeStep
<1>5. CleanStart' BY <1>1, CleanStep
<1>5o. Orphan' BY <1>1, OrphanStep
<1>6. Reports' BY <1>1, ReportsStep
<1>7. Answered' BY <1>1, AnsweredStep
<1>8. Sent' BY <1>1, SentStep
<1>9. RefusalHasACause' BY <1>1, CauseStep
<1>10. Warned' BY <1>1, WarnedStep
<1>11. OneAnswer' BY <1>1, <1>2, OneAnswerStep
<1>12. QED BY <1>2, <1>3, <1>4, <1>5, <1>5o, <1>6, <1>7, <1>8, <1>9, <1>10, <1>11 DEF IInv

\* What was logged offline goes on every link the server has answered, and once, in whatever
\* order the connect thread resets the session, the reader hands in the answer and the main
\* thread drains it.
THEOREM OfflineWorkIsSentOnce == Spec => []OfflineWorkGoesOnce
<1>1. IInv => OfflineWorkGoesOnce
  <2> SUFFICES ASSUME IInv, client.up, conn.answered, "drain" \notin ToSet(mainq), ~conn.early,
                      ~past.stale
               PROVE  conn.resends = 1
    BY DEF OfflineWorkGoesOnce
  <2>1. TypeOK /\ Backed /\ Shape /\ Answered /\ Sent BY DEF IInv
  <2>2. InOrder BY <2>1 DEF InOrder, Backed, LiveLinkHasReader, Shape
  <2>3. pending = <<>> BY <2>1 DEF Shape
  <2>4. ToSet(pending) = {} BY <2>3 DEF ToSet
  <2>5. session.resent BY <2>1, <2>2, <2>4 DEF Sent
  <2>6. ~Greeting BY <2>1, <2>2 DEF Answered
  <2>7. QED BY <2>1, <2>2, <2>5, <2>6 DEF Sent, Greeting, Unannounced
<1>2. QED BY <1>1, InitInv, InvStep, PTL DEF Spec

\* A server is given up only for something it did, and the operator is told of a refusal once
\* until he acts, however its messages, the drop of the link and the retry timer interleave.
THEOREM RefusalsAreHonestAlways == Spec => []RefusalsAreHonest
<1>1. IInv => RefusalsAreHonest
  <2> SUFFICES ASSUME IInv PROVE RefusalsAreHonest OBVIOUS
  <2>1. RefusalHasACause /\ Warned BY DEF IInv
  <2>2. past.told \in 0 .. 2 /\ past.muddled \in BOOLEAN BY DEF IInv, TypeOK, Pasts
  <2>3. OperatorToldOnce BY <2>1, <2>2 DEF OperatorToldOnce, Warned
  <2>4. QED BY <2>1, <2>3 DEF RefusalsAreHonest
<1>2. QED BY <1>1, InitInv, InvStep, PTL DEF Spec
=============================================================================
