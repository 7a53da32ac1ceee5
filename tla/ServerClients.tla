---------------------------- MODULE ServerClients ----------------------------
(***************************************************************************)
(* The multi-op server's client table (ClientsSoocketsArray) and the        *)
(* connections behind it (TServerConn, uServerNet.pas): admission, the      *)
(* HELLO that names a station's computer id and contest, what each station  *)
(* has been told of its peers, drops, and the operator's Stop.              *)
(*                                                                         *)
(* Every connection has a thread of its own, which only moves bytes; what   *)
(* touches the table runs on the main thread through Synchronize, so it     *)
(* needs the main thread to be serving.  The table knows a connection by    *)
(* its socket handle, and the operating system gives a closed socket's      *)
(* handle to the next connection.  A message is parsed whole, one a step:   *)
(* the read that holds several is several steps.                            *)
(***************************************************************************)
EXTENDS Naturals, FiniteSets, FiniteSetsExt

CONSTANTS
    MaxConns,       \* connections are bounded; they arrive in the order 1, 2, ...
    MaxClients,     \* slots of the table (26 in the program)
    Handles,        \* socket handles the operating system hands out
    Ids,            \* computer ids
    Contests,       \* what a HELLO can announce
    None            \* a zeroed field

ASSUME ConstantsAssumption ==
    /\ MaxConns \in Nat /\ MaxClients \in Nat
    /\ None \notin Handles \cup Ids \cup Contests

VARIABLES
    ctx,        \* the connections' contexts
    table,      \* ClientsSoocketsArray
    heard,      \* per connection, the contest it was last told each peer is on
    main,       \* the main thread: "serving", "stopping" (inside StopServer), "stopped"
    past        \* history of each connection

vars == <<ctx, table, heard, main, past>>

Conns == 1 .. MaxConns
Slots == 1 .. MaxClients

Absent == [thread |-> "absent", handle |-> None, open |-> FALSE, closed |-> FALSE,
           admitted |-> FALSE, drop |-> FALSE, id |-> None]
NoPast == [seated |-> FALSE, shared |-> FALSE, announced |-> None, met |-> FALSE,
           early |-> FALSE, refused |-> FALSE, unanswered |-> FALSE]
EmptySlot == [socket |-> None, id |-> None, helloSeen |-> FALSE, hello |-> None]
Nobody == [i \in Ids |-> None]

Contexts == [thread : {"absent", "handshake", "running", "ending", "done"},
             handle : Handles \cup {None}, open : BOOLEAN, closed : BOOLEAN,
             admitted : BOOLEAN, drop : BOOLEAN, id : Ids \cup {None}]

\* Had a slot; came with a handle that a connection not yet dropped has (both are marked);
\* the contest the server last accepted from it; its first HELLO was accepted; something
\* else was handled before it; its id was refused; the password was right and TR4W could
\* not be written.
Pasts == [seated : BOOLEAN, shared : BOOLEAN, announced : Contests \cup {None},
          met : BOOLEAN, early : BOOLEAN, refused : BOOLEAN, unanswered : BOOLEAN]

Entries == [socket : Handles \cup {None}, id : Ids \cup {None},
            helloSeen : BOOLEAN, hello : Contests \cup {None}]

TypeOK ==
    /\ ctx \in [Conns -> Contexts]
    /\ past \in [Conns -> Pasts]
    /\ table \in [Slots -> Entries]
    /\ heard \in [Conns -> [Ids -> Contests \cup {None}]]
    /\ main \in {"serving", "stopping", "stopped"}

Init ==
    /\ ctx = [c \in Conns |-> Absent]
    /\ table = [i \in Slots |-> EmptySlot]
    /\ heard = [c \in Conns |-> Nobody]
    /\ main = "serving"
    /\ past = [c \in Conns |-> NoPast]

(* Lookups *)

Alive(c) == ctx[c].thread \notin {"absent", "done"}     \* in the server's context list
First(S) == IF S = {} THEN 0 ELSE Min(S)

SlotOf(h) == First({i \in Slots : table[i].socket = h})

\* Which context a handle is written to: the first in the list that is not marked closed.
MayAnswer(c, h) == Alive(c) /\ ctx[c].handle = h /\ ~ctx[c].closed
ContextOf(h) == First({c \in Conns : MayAnswer(c, h)})

\* A write succeeds on an open socket only.
Reached(h) == {c \in Conns : c = ContextOf(h) /\ ctx[c].open}
Holders(tab) == {i \in Slots : tab[i].socket # None}
Everyone(tab) == UNION {Reached(tab[i].socket) : i \in Holders(tab)}

(* A connection arrives, and its thread closes it or finds it closed. *)

Accept(c, h, id) ==
    /\ main = "serving"
    /\ ctx[c].thread = "absent" /\ \A d \in 1 .. (c - 1) : ctx[d].thread # "absent"
    /\ \A d \in Conns : ctx[d].open => ctx[d].handle # h
    /\ ctx' = [ctx EXCEPT ![c] = [Absent EXCEPT !.thread = "handshake", !.handle = h,
                                                !.open = TRUE, !.id = id]]
    /\ LET others == {d \in Conns : Alive(d) /\ ctx[d].admitted /\ ctx[d].handle = h} IN
       past' = [d \in Conns |-> IF others # {} /\ d \in others \cup {c}
                                THEN [past[d] EXCEPT !.shared = TRUE] ELSE past[d]]
    /\ UNCHANGED <<table, heard, main>>

\* The server closes: a refused handshake, a parsed message that asked for the drop,
\* or bytes no message id is known for.
CloseConnection(c) ==
    /\ ctx[c].thread \in {"handshake", "running"}
    /\ ctx' = [ctx EXCEPT ![c].closed = TRUE, ![c].open = FALSE, ![c].drop = FALSE,
                          ![c].thread = "ending"]
    /\ UNCHANGED <<table, heard, main, past>>

\* The thread finds that the other end has gone: Indy closes the socket, and only
\* SyncDrop will mark the context.
LinkLost(c) ==
    /\ ctx[c].thread \in {"handshake", "running"} /\ ~ctx[c].drop
    /\ ctx' = [ctx EXCEPT ![c].open = FALSE, ![c].thread = "ending"]
    /\ UNCHANGED <<table, heard, main, past>>

(* What Synchronize runs on the main thread. *)

\* The first free slot, zeroed; none, and the connection is admitted without one.
FreeSlots == {i \in Slots : table[i].socket = None}
AddSocketToArray(h) ==
    [i \in Slots |-> IF i = First(FreeSlots) THEN [EmptySlot EXCEPT !.socket = h] ELSE table[i]]

WrongPassword(c) ==
    /\ main = "serving" /\ ctx[c].thread = "handshake" /\ ~ctx[c].drop
    /\ ctx' = [ctx EXCEPT ![c].drop = TRUE]
    /\ UNCHANGED <<table, heard, main, past>>

SyncHandshake(c) ==
    /\ main = "serving" /\ ctx[c].thread = "handshake" /\ ~ctx[c].drop
    /\ \/ /\ Reached(ctx[c].handle) = {}        \* TR4W could not be written
          /\ ctx' = [ctx EXCEPT ![c].drop = TRUE]
          /\ past' = [past EXCEPT ![c].unanswered = TRUE]
          /\ UNCHANGED table
       \/ /\ Reached(ctx[c].handle) # {}
          /\ table' = AddSocketToArray(ctx[c].handle)
          /\ ctx' = [ctx EXCEPT ![c].thread = "running", ![c].admitted = TRUE]
          /\ past' = [past EXCEPT ![c].seated = (FreeSlots # {})]
    /\ UNCHANGED <<heard, main>>

Parsing(c) == main = "serving" /\ ctx[c].thread = "running" /\ ~ctx[c].drop
Slot(c) == SlotOf(ctx[c].handle)

\* Ids of the other connected slots: a slot keeps the id of the station that left it.
Bug_NobodyAsked(mine) == {}
Bug_FreedSlotsCount(mine) == {table[i].id : i \in Slots \ {mine}} \ {None}
TakenIds(mine) == {table[i].id : i \in Holders(table) \ {mine}} \ {None}

\* An accepted HELLO goes to every station whose own has been seen; a first one is
\* answered with those the server has kept.
Relays(s) == UNION {Reached(table[i].socket) : i \in {j \in Holders(table) \ {s} : table[j].helloSeen}}
Kept(s) == {i \in Holders(table) \ {s} : table[i].hello # None}

Bug_OnlyTheFirstIsRelayed(c, s, first, contest) ==
    [d \in Conns |-> [i \in Ids |->
        IF first /\ d \in Relays(s) /\ i = ctx[c].id THEN contest
        ELSE IF first /\ d \in Reached(ctx[c].handle) /\ \E k \in Kept(s) : table[k].id = i
        THEN table[CHOOSE k \in Kept(s) : table[k].id = i].hello
        ELSE heard[d][i]]]
HeardAfterHello(c, s, first, contest) ==
    [d \in Conns |-> [i \in Ids |->
        IF d \in Relays(s) /\ i = ctx[c].id THEN contest
        ELSE IF first /\ d \in Reached(ctx[c].handle) /\ \E k \in Kept(s) : table[k].id = i
        THEN table[CHOOSE k \in Kept(s) : table[k].id = i].hello
        ELSE heard[d][i]]]

HelloAccepted(c, s, contest) ==
    LET first == ~table[s].helloSeen IN
    /\ table' = [table EXCEPT ![s].helloSeen = TRUE, ![s].id = ctx[c].id, ![s].hello = contest]
    /\ past' = [past EXCEPT ![c].announced = contest, ![c].met = @ \/ first]
    /\ heard' = HeardAfterHello(c, s, first, contest)

\* SM_COMPUTERID_IN_USE: told, left without an id, not disconnected.
HelloRefused(c, s) ==
    /\ table' = [table EXCEPT ![s].helloSeen = TRUE]
    /\ past' = [past EXCEPT ![c].refused = TRUE]
    /\ UNCHANGED heard

\* The HELLO of a connection without a slot changes nothing.
AcceptHello(c, contest) ==
    LET s == Slot(c) IN
    /\ Parsing(c)
    /\ s \in Slots
    /\ IF ctx[c].id \in TakenIds(s) THEN HelloRefused(c, s) ELSE HelloAccepted(c, s, contest)
    /\ UNCHANGED <<ctx, main>>

\* A station of another protocol, on its first HELLO: SM_PROTOCOL_MISMATCH and the drop.
AcceptHelloOfAnotherProtocol(c) ==
    /\ Parsing(c) /\ Slot(c) # 0 /\ past[c].announced = None /\ ~past[c].refused
    /\ ctx' = [ctx EXCEPT ![c].drop = TRUE]
    /\ UNCHANGED <<table, heard, main, past>>

\* Any other message.
MessageAllowedNow(s) == IF s = 0 THEN TRUE ELSE table[s].helloSeen

OtherMessage(c) ==
    /\ Parsing(c)
    /\ \/ /\ MessageAllowedNow(Slot(c))
          /\ past' = [past EXCEPT ![c].early = @ \/ (past[c].announced = None /\ ~past[c].refused)]
          /\ UNCHANGED ctx
       \/ /\ ~MessageAllowedNow(Slot(c))
          /\ ctx' = [ctx EXCEPT ![c].drop = TRUE]
          /\ UNCHANGED past
    /\ UNCHANGED <<table, heard, main>>

\* The slot is looked up by the handle of admission; only its socket is zeroed, and its
\* id is told to those that remain.
Bug_HandleOfClosedBinding(c) == 0
DeletedSlot(c) == SlotOf(ctx[c].handle)
Bug_ZeroedBeforeTold(c) ==
    LET s == DeletedSlot(c) IN
    /\ table' = IF s = 0 THEN table ELSE [table EXCEPT ![s] = EmptySlot]
    /\ UNCHANGED heard
DeleteSocketFromArray(c) ==
    LET s == DeletedSlot(c)
        after == [table EXCEPT ![s].socket = None]
    IN  IF s = 0 THEN UNCHANGED <<table, heard>>
        ELSE /\ table' = after
             /\ heard' = [d \in Conns |-> [i \in Ids |->
                            IF d \in Everyone(after) /\ i = table[s].id THEN None ELSE heard[d][i]]]

SyncDrop(c) ==
    /\ main = "serving" /\ ctx[c].thread = "ending"
    /\ IF ctx[c].admitted THEN DeleteSocketFromArray(c) ELSE UNCHANGED <<table, heard>>
    /\ ctx' = [ctx EXCEPT ![c].thread = "done", ![c].closed = TRUE, ![c].admitted = FALSE]
    /\ UNCHANGED <<main, past>>

(* The operator's Stop: the main thread closes every socket and waits for the threads,
   each of which wants SyncDrop; then the table is forgotten. *)

StopServer ==
    /\ main = "serving"
    /\ main' = "stopping"
    /\ ctx' = [c \in Conns |-> [ctx[c] EXCEPT !.open = FALSE]]
    /\ UNCHANGED <<table, heard, past>>

StopReturns ==
    /\ main = "stopping" /\ \A c \in Conns : ~Alive(c)
    /\ main' = "stopped"
    /\ table' = [i \in Slots |-> [table[i] EXCEPT !.socket = None]]
    /\ UNCHANGED <<ctx, heard, past>>

RunServer == main = "stopped" /\ main' = "serving" /\ UNCHANGED <<ctx, table, heard, past>>

FromMainThread(c) ==
    \/ SyncHandshake(c) \/ WrongPassword(c) \/ SyncDrop(c)
    \/ \E k \in Contests : AcceptHello(c, k)
    \/ AcceptHelloOfAnotherProtocol(c) \/ OtherMessage(c)

FromOwnThread(c) == CloseConnection(c) \/ LinkLost(c)

Next ==
    \/ \E c \in Conns, h \in Handles, id \in Ids : Accept(c, h, id)
    \/ \E c \in Conns : FromMainThread(c) \/ FromOwnThread(c)
    \/ StopServer \/ StopReturns \/ RunServer

Spec == Init /\ [][Next]_vars

\* Threads run, and a serving main thread gets round to what waits for it.
FairSpec ==
    /\ Spec
    /\ \A c \in Conns : WF_vars(SyncDrop(c)) /\ WF_vars(SyncHandshake(c))
                        /\ WF_vars(~ctx[c].open /\ FromOwnThread(c))
    /\ WF_vars(StopReturns)

(***************************************************************************)
(* Properties                                                              *)
(***************************************************************************)

\* A station at work, whose handle was not another's when it came.
Settled(c) == ctx[c].thread = "running" /\ past[c].seated /\ ~past[c].shared

\* A slot is neither leaked nor freed early: as many slots carry a handle as there are
\* seated connections of it that SyncDrop has not run for (the leaked "client 6",
\* "client 7", "client 8" of the FHandle comment).
SlotsAreCounted == \A h \in Handles :
    (\A c \in Conns : Alive(c) /\ ctx[c].handle = h => ~past[c].shared) =>
        Cardinality({i \in Slots : table[i].socket = h}) =
        Cardinality({c \in Conns : Alive(c) /\ ctx[c].admitted /\ past[c].seated
                                   /\ ctx[c].handle = h})

\* Protocol 2: until a connection has sent its HELLO nothing else of it is handled.  A
\* connection the full table had no slot for is not held to it.
HelloComesFirst == \A c \in Conns : past[c].seated /\ ~past[c].shared => ~past[c].early

\* A slot is its station's and nobody else's: it is taken and freed with the connection, and
\* what the last station left in it (HELLO seen) opens the gate for no other.
SlotsAreOwned == SlotsAreCounted /\ HelloComesFirst

\* Two connected slots never hold one computer id (SetComputerID): the stations index
\* their status table, and judge whose QSO is whose, by it.
IdsAreUnique == \A i, j \in Holders(table) :
    i # j /\ table[i].id # None => table[i].id # table[j].id

\* A station's id is refused only while another station's connection that the server has
\* not yet dropped holds it: never because of a slot that is free again, or of its own.
\* Of two connections that shared a handle the first to end may free the other's slot, and its
\* id then stays in a slot that looks taken: ids of such connections are left out.
RefusalsAreJust == [][
    \A c \in Conns :
        (past'[c].refused /\ ~past[c].refused /\ Settled(c)
            /\ \A d \in Conns : past[d].shared => ctx[d].id # ctx[c].id) =>
        \E d \in Conns \ {c} : Alive(d) /\ ctx[d].admitted /\ ctx[d].id = ctx[c].id
    ]_vars

\* What the HELLOs are for: of any two stations the server has accepted, each was told the
\* contest the other announced last.  A station whose first HELLO was refused and a later
\* one accepted is not told of those before it.
PeersAreCurrent == \A c, d \in Conns :
    (c # d /\ Settled(c) /\ Settled(d) /\ ctx[c].open /\ past[c].met
        /\ past[c].announced # None /\ past[d].announced # None) =>
        heard[c][ctx[d].id] = past[d].announced

\* And no station is believed to be on a contest after it has gone: what is heard of an id
\* is what a connection the server still has announced under it.
NoPeerOutlivesItsLink == \A c \in Conns, i \in Ids :
    (Settled(c) /\ ctx[c].open /\ heard[c][i] # None
        /\ \A d \in Conns : past[d].shared => ctx[d].id # i) =>
        \E d \in Conns \ {c} : Alive(d) /\ ctx[d].id = i /\ past[d].announced = heard[c][i]

\* A station that knows the password is answered TR4W, whoever had its handle before.
NewcomerIsAnswered == \A c \in Conns : ~past[c].unanswered

\* Stop stops: once the operator has confirmed, the server is stopped (and can be started
\* again, as the menu then offers).
StopEnds == (main = "stopping") ~> (main = "stopped")

=============================================================================
