------------------------- MODULE ServerClientsProofs -------------------------
(***************************************************************************)
(* The client table for any number of connections, slots, handles, ids and *)
(* contests: its types, one station per id, a slot for every seated        *)
(* connection and for nobody else, refusals that have a cause, and peers   *)
(* that are heard of truly.                                                *)
(***************************************************************************)
EXTENDS ServerClients, FiniteSetTheorems, WellFoundedInduction, TLAPS

USE DEF Conns, Slots

\* The initial state has the types.
LEMMA TypeInit == Init => TypeOK
<1> SUFFICES ASSUME Init PROVE TypeOK
  OBVIOUS
<1>1. ctx \in [Conns -> Contexts]
  BY DEF Init, Contexts, Absent
<1>2. past \in [Conns -> Pasts]
  BY DEF Init, Pasts, NoPast
<1>3. table \in [Slots -> Entries]
  BY DEF Init, Entries, EmptySlot
<1> QED
  BY <1>1, <1>2, <1>3 DEF Init, TypeOK, Nobody

\* A connection's arrival keeps them.
LEMMA TypeAccept ==
    ASSUME TypeOK, NEW c \in Conns, NEW h \in Handles, NEW id \in Ids, Accept(c, h, id)
    PROVE  TypeOK'
<1>1. ctx' \in [Conns -> Contexts]
  BY DEF Accept, TypeOK, Contexts, Absent
<1>2. past' \in [Conns -> Pasts]
  <2>1. \A d \in Conns : past[d] \in Pasts /\ [past[d] EXCEPT !.shared = TRUE] \in Pasts
    BY DEF TypeOK, Pasts
  <2> QED
    BY <2>1 DEF Accept
<1> QED
  BY <1>1, <1>2 DEF Accept, TypeOK

\* So do the steps of a connection's own thread.
LEMMA TypeThread ==
    ASSUME TypeOK, NEW c \in Conns, FromOwnThread(c) PROVE TypeOK'
<1>1. ctx' \in [Conns -> Contexts]
  <2>1. CASE CloseConnection(c)
    BY <2>1 DEF CloseConnection, TypeOK, Contexts
  <2>2. CASE LinkLost(c)
    BY <2>2 DEF LinkLost, TypeOK, Contexts
  <2> QED
    BY <2>1, <2>2 DEF FromOwnThread
<1> QED
  BY <1>1 DEF FromOwnThread, CloseConnection, LinkLost, TypeOK

\* So do the handshake and the password.
LEMMA TypeHandshake ==
    ASSUME TypeOK, NEW c \in Conns, SyncHandshake(c) PROVE TypeOK'
<1>1. ctx[c] \in Contexts /\ past[c] \in Pasts
  BY DEF TypeOK
<1>2. CASE Reached(ctx[c].handle) = {}
  <2>1. [ctx[c] EXCEPT !.drop = TRUE] \in Contexts /\ [past[c] EXCEPT !.unanswered = TRUE] \in Pasts
    BY <1>1 DEF Contexts, Pasts
  <2> QED
    BY <1>2, <2>1 DEF SyncHandshake, TypeOK
<1>3. CASE Reached(ctx[c].handle) # {}
  <2>1. [ctx[c] EXCEPT !.thread = "running", !.admitted = TRUE] \in Contexts
    BY <1>1 DEF Contexts
  <2>2. [past[c] EXCEPT !.seated = (FreeSlots # {})] \in Pasts
    BY <1>1 DEF Pasts
  <2>3. [EmptySlot EXCEPT !.socket = ctx[c].handle] \in Entries
    BY <1>1 DEF EmptySlot, Entries, Contexts
  <2>4. AddSocketToArray(ctx[c].handle) \in [Slots -> Entries]
    BY <2>3 DEF AddSocketToArray, TypeOK
  <2> QED
    BY <1>3, <2>1, <2>2, <2>4, ZenonT(60) DEF SyncHandshake, TypeOK
<1> QED
  BY <1>2, <1>3

\* An accepted or refused HELLO.
LEMMA TypeHello ==
    ASSUME TypeOK, NEW c \in Conns, NEW k \in Contests, AcceptHello(c, k) PROVE TypeOK'
<1> DEFINE s == Slot(c)
<1>1. s \in Slots /\ ctx[c] \in Contexts /\ past[c] \in Pasts /\ table[s] \in Entries
  BY DEF AcceptHello, TypeOK
<1>2. CASE HelloRefused(c, s)
  <2>1. [table[s] EXCEPT !.helloSeen = TRUE] \in Entries /\ [past[c] EXCEPT !.refused = TRUE] \in Pasts
    BY <1>1 DEF Entries, Pasts
  <2>2. /\ table' = [table EXCEPT ![s] = [table[s] EXCEPT !.helloSeen = TRUE]]
        /\ past' = [past EXCEPT ![c] = [past[c] EXCEPT !.refused = TRUE]]
        /\ UNCHANGED <<ctx, heard, main>>
    BY <1>2 DEF AcceptHello, HelloRefused
  <2> HIDE DEF s
  <2> QED
    BY <1>1, <2>1, <2>2 DEF TypeOK
<1>3. CASE HelloAccepted(c, s, k)
  <2> DEFINE newEntry == [table[s] EXCEPT !.helloSeen = TRUE, !.id = ctx[c].id, !.hello = k]
             newPast == [past[c] EXCEPT !.announced = k, !.met = @ \/ ~table[s].helloSeen]
  <2>1. newEntry \in Entries
    BY <1>1 DEF Entries, Contexts
  <2>2. newPast \in Pasts
    BY <1>1 DEF Entries, Pasts
  <2>3. /\ table' = [table EXCEPT ![s] = newEntry]
        /\ past' = [past EXCEPT ![c] = newPast]
        /\ heard' = HeardAfterHello(c, s, ~table[s].helloSeen, k)
        /\ UNCHANGED <<ctx, main>>
    BY <1>3 DEF AcceptHello, HelloAccepted
  <2>4. HeardAfterHello(c, s, ~table[s].helloSeen, k) \in [Conns -> [Ids -> Contests \cup {None}]]
    <3>1. \A i \in Ids : (\E j \in Kept(s) : table[j].id = i) =>
             table[CHOOSE j \in Kept(s) : table[j].id = i].hello \in Contests \cup {None}
      BY DEF Kept, Holders, TypeOK, Entries
    <3>2. \A d \in Conns, i \in Ids : heard[d][i] \in Contests \cup {None}
      BY DEF TypeOK
    <3> HIDE DEF s
    <3> QED
      BY <3>1, <3>2 DEF HeardAfterHello
  <2> HIDE DEF s, newEntry, newPast
  <2> QED
    BY <1>1, <2>1, <2>2, <2>3, <2>4 DEF TypeOK
<1> QED
  BY <1>2, <1>3 DEF AcceptHello

\* A step that only asks for the drop.
LEMMA TypeAskDrop ==
    ASSUME TypeOK, NEW c \in Conns, ctx' = [ctx EXCEPT ![c].drop = TRUE],
           UNCHANGED <<table, heard, main, past>>
    PROVE  TypeOK'
<1> ctx[c] \in Contexts
  BY DEF TypeOK
<1>1. [ctx[c] EXCEPT !.drop = TRUE] \in Contexts
  BY DEF Contexts
<1> QED
  BY <1>1 DEF TypeOK

\* Another message.
LEMMA TypeOther ==
    ASSUME TypeOK, NEW c \in Conns, OtherMessage(c) PROVE TypeOK'
<1> DEFINE newPast == [past[c] EXCEPT !.early = @ \/ (past[c].announced = None /\ ~past[c].refused)]
<1>1. newPast \in Pasts
  BY ZenonT(60) DEF TypeOK, Pasts
<1>2. CASE past' = [past EXCEPT ![c] = newPast] /\ UNCHANGED <<ctx, table, heard, main>>
  <2> HIDE DEF newPast
  <2> QED
    BY <1>1, <1>2 DEF TypeOK
<1>3. CASE ctx' = [ctx EXCEPT ![c].drop = TRUE] /\ UNCHANGED <<table, heard, main, past>>
  BY <1>3, TypeAskDrop
<1> QED
  BY <1>2, <1>3 DEF OtherMessage

\* A connection's end.
LEMMA TypeDrop ==
    ASSUME TypeOK, NEW c \in Conns, SyncDrop(c) PROVE TypeOK'
<1>1. ctx' \in [Conns -> Contexts]
  <2> ctx[c] \in Contexts
    BY DEF TypeOK
  <2>1. [ctx[c] EXCEPT !.thread = "done", !.closed = TRUE, !.admitted = FALSE] \in Contexts
    BY DEF Contexts
  <2> QED
    BY <2>1 DEF SyncDrop, TypeOK
<1>2. table' \in [Slots -> Entries] /\ heard' \in [Conns -> [Ids -> Contests \cup {None}]]
  <2>1. CASE UNCHANGED <<table, heard>>
    BY <2>1 DEF TypeOK
  <2>2. CASE DeleteSocketFromArray(c) /\ DeletedSlot(c) # 0
    <3> DEFINE s == DeletedSlot(c)
               after == [table EXCEPT ![s].socket = None]
    <3>1. \A i \in Slots : [table[i] EXCEPT !.socket = None] \in Entries
      BY DEF TypeOK, Entries
    <3>2. after \in [Slots -> Entries]
      BY <3>1 DEF TypeOK
    <3>3. table' = after
      BY <2>2 DEF DeleteSocketFromArray
    <3>4. heard' = [d \in Conns |-> [i \in Ids |->
                      IF d \in Everyone(after) /\ i = table[s].id THEN None ELSE heard[d][i]]]
      BY <2>2 DEF DeleteSocketFromArray
    <3>5. \A d \in Conns, i \in Ids : heard[d][i] \in Contests \cup {None}
      BY DEF TypeOK
    <3> HIDE DEF s, after
    <3> QED
      BY <3>2, <3>3, <3>4, <3>5
  <2> QED
    BY <2>1, <2>2 DEF SyncDrop, DeleteSocketFromArray
<1> QED
  BY <1>1, <1>2 DEF SyncDrop, TypeOK

\* And the operator's.
LEMMA TypeStop ==
    ASSUME TypeOK, StopServer \/ StopReturns \/ RunServer PROVE TypeOK'
<1>1. CASE StopServer
  <2>1. ctx' \in [Conns -> Contexts]
    BY <1>1, ZenonT(60) DEF StopServer, TypeOK, Contexts
  <2> QED
    BY <1>1, <2>1 DEF StopServer, TypeOK
<1>2. CASE StopReturns
  <2>1. table' \in [Slots -> Entries]
    BY <1>2 DEF StopReturns, TypeOK, Entries
  <2> QED
    BY <1>2, <2>1 DEF StopReturns, TypeOK
<1>3. CASE RunServer
  BY <1>3 DEF RunServer, TypeOK
<1> QED
  BY <1>1, <1>2, <1>3

LEMMA TypeStep == TypeOK /\ [Next]_vars => TypeOK'
<1> SUFFICES ASSUME TypeOK, [Next]_vars PROVE TypeOK'
  OBVIOUS
<1>1. CASE UNCHANGED vars
  BY <1>1 DEF vars, TypeOK
<1>2. ASSUME NEW c \in Conns, FromMainThread(c) PROVE TypeOK'
  BY <1>2, TypeHandshake, TypeHello, TypeOther, TypeDrop, TypeAskDrop
     DEF FromMainThread, WrongPassword, AcceptHelloOfAnotherProtocol
<1> QED
  BY <1>1, <1>2, TypeAccept, TypeThread, TypeStop DEF Next

\* Every field keeps its type, whatever the numbers of connections, slots and ids.
THEOREM TypeCorrect == Spec => []TypeOK
  BY TypeInit, TypeStep, PTL DEF Spec

\* A HELLO is accepted for an id no other connected slot has.
LEMMA UniqueAfterHello ==
    ASSUME TypeOK, IdsAreUnique, NEW c \in Conns, NEW k \in Contests, AcceptHello(c, k)
    PROVE  IdsAreUnique'
<1> DEFINE s == Slot(c)
<1>1. s \in Slots /\ table \in [Slots -> Entries]
  BY DEF AcceptHello, TypeOK
<1>2. CASE table' = [table EXCEPT ![s].helloSeen = TRUE]
  <2>1. \A i \in Slots : table'[i].id = table[i].id /\ table'[i].socket = table[i].socket
    BY <1>1, <1>2 DEF Entries
  <2> QED
    BY <2>1 DEF IdsAreUnique, Holders
<1>3. CASE /\ ctx[c].id \notin TakenIds(s)
           /\ table' = [table EXCEPT ![s].helloSeen = TRUE, ![s].id = ctx[c].id, ![s].hello = k]
  <2> HIDE DEF s
  <2>1. \A i \in Slots : table'[i].socket = table[i].socket
    BY <1>1, <1>3 DEF Entries
  <2>2. \A i \in Slots \ {s} : table'[i].id = table[i].id
    BY <1>1, <1>3
  <2>3. table'[s].id = ctx[c].id
    BY <1>1, <1>3 DEF Entries
  <2>4. \A i \in Holders(table) \ {s} : table[i].id = None \/ table[i].id # ctx[c].id
    BY <1>3 DEF TakenIds
  <2> QED
    BY <1>1, <2>1, <2>2, <2>3, <2>4 DEF IdsAreUnique, Holders
<1> QED
  BY <1>2, <1>3 DEF AcceptHello, HelloAccepted, HelloRefused

\* Everything else only frees slots, or fills one without an id.
LEMMA UniqueStep == TypeOK /\ IdsAreUnique /\ [Next]_vars => IdsAreUnique'
<1> SUFFICES ASSUME TypeOK, IdsAreUnique, [Next]_vars PROVE IdsAreUnique'
  OBVIOUS
<1>1. CASE table' = table
  BY <1>1 DEF IdsAreUnique, Holders
<1>2. ASSUME NEW c \in Conns, SyncHandshake(c) PROVE IdsAreUnique'
  <2>1. CASE table' = AddSocketToArray(ctx[c].handle)
    <3>1. \A i \in Slots : table'[i] = table[i] \/ table'[i].id = None
      BY <2>1 DEF AddSocketToArray, EmptySlot
    <3> QED
      BY <3>1 DEF IdsAreUnique, Holders
  <2> QED
    BY <1>1, <1>2, <2>1 DEF SyncHandshake
<1>3. ASSUME NEW c \in Conns, SyncDrop(c) PROVE IdsAreUnique'
  <2>1. CASE \E s : table' = [table EXCEPT ![s].socket = None]
    <3>1. \A i \in Slots : table'[i].id = table[i].id
                          /\ (table'[i].socket = table[i].socket \/ table'[i].socket = None)
      BY <2>1 DEF TypeOK, Entries
    <3> QED
      BY <3>1 DEF IdsAreUnique, Holders
  <2> QED
    BY <1>1, <1>3, <2>1 DEF SyncDrop, DeleteSocketFromArray
<1>4. CASE StopReturns
  BY <1>4 DEF StopReturns, IdsAreUnique, Holders, TypeOK, Entries
<1>5. ASSUME NEW c \in Conns, FromMainThread(c) PROVE IdsAreUnique'
  BY <1>1, <1>2, <1>3, <1>5, UniqueAfterHello
     DEF FromMainThread, WrongPassword, AcceptHelloOfAnotherProtocol, OtherMessage
<1> QED
  BY <1>1, <1>4, <1>5
     DEF Next, Accept, FromOwnThread, CloseConnection, LinkLost, StopServer, RunServer, vars

\* No two connected stations ever hold one computer id.
THEOREM OneStationPerId == Spec => []IdsAreUnique
<1>1. Init => IdsAreUnique
  BY DEF Init, IdsAreUnique, Holders, EmptySlot
<1> QED
  BY <1>1, TypeCorrect, UniqueStep, PTL DEF Spec

(***************************************************************************)
(* The contexts: where a connection is in its life, and what two           *)
(* connections with one handle can be.                                     *)
(***************************************************************************)

Admitted(c) == Alive(c) /\ ctx[c].admitted

\* A connection the table knows as its own: admitted, and its handle was never another's.
Own(c) == Admitted(c) /\ ~past[c].shared
Seated(c) == Own(c) /\ past[c].seated

Greeting(c) == ctx[c].thread = "handshake"
Working(c) == ctx[c].thread \in {"handshake", "running"}
Untouched(c) == ~past[c].seated /\ past[c].announced = None /\ ~past[c].met
                /\ ~past[c].early /\ ~past[c].refused

LifeOK(c) ==
    /\ ctx[c].thread = "absent" => ~past[c].shared
    /\ ctx[c].thread # "absent" => ctx[c].handle \in Handles /\ ctx[c].id \in Ids
    /\ ctx[c].thread \in {"absent", "handshake"} => Untouched(c)
    /\ Working(c) => ~ctx[c].closed /\ (main = "serving" => ctx[c].open)
    /\ ctx[c].admitted => ctx[c].thread \in {"running", "ending"}
    /\ ctx[c].thread = "running" => ctx[c].admitted
    /\ ctx[c].open => Working(c)
    /\ main = "stopped" => ~Alive(c)
Life == \A c \in Conns : LifeOK(c)

InOrder == \A c, d \in Conns : c < d /\ ctx[d].thread # "absent" => ctx[c].thread # "absent"

\* Two connections meet on a handle only while one of them is on its way out; where the
\* table could confuse them both are marked, and a write finds the one it is meant for.
Meet(c, d) == c # d /\ Alive(c) /\ Alive(d) /\ ctx[c].handle = ctx[d].handle
ApartOK(c, d) ==
    /\ Working(c) => ctx[d].thread = "ending"
    /\ Greeting(c) => d < c
    /\ ctx[c].admitted /\ (Greeting(d) \/ ctx[d].admitted) => past[c].shared /\ past[d].shared
    /\ Own(c) => ctx[d].closed
Apart == \A c, d \in Conns : Meet(c, d) => ApartOK(c, d)

Order == Life /\ InOrder /\ Apart

\* A step after which table, messages and ownership are what they were: at most a thread
\* goes on towards its end.
Quiet ==
    /\ UNCHANGED <<table, heard>>
    /\ \A d \in Conns :
        /\ ctx'[d].handle = ctx[d].handle /\ ctx'[d].id = ctx[d].id
        /\ ctx'[d].admitted = ctx[d].admitted
        /\ Alive(d)' <=> Alive(d)
        /\ ctx'[d].open => ctx[d].open
        /\ ctx'[d].thread = "running" => ctx[d].thread = "running"
        /\ ctx'[d].thread \in {"absent", "handshake"} => ctx'[d].thread = ctx[d].thread
        /\ past'[d].seated = past[d].seated /\ past'[d].shared = past[d].shared
        /\ past'[d].announced = past[d].announced /\ past'[d].met = past[d].met
        /\ past'[d].refused = past[d].refused

\* What an arrival changes.
LEMMA AcceptEffect ==
    ASSUME TypeOK, NEW c \in Conns, NEW h \in Handles, NEW id \in Ids, Accept(c, h, id)
    PROVE  /\ \A d \in Conns \ {c} : ctx'[d] = ctx[d]
           /\ ctx'[c].thread = "handshake" /\ ctx'[c].handle = h /\ ctx'[c].id = id
           /\ ctx'[c].open /\ ~ctx'[c].closed /\ ~ctx'[c].admitted
           /\ \A d \in Conns : /\ past'[d].seated = past[d].seated /\ past'[d].met = past[d].met
                               /\ past'[d].announced = past[d].announced
                               /\ past'[d].early = past[d].early /\ past'[d].refused = past[d].refused
                               /\ past[d].shared => past'[d].shared
                               /\ Alive(d) /\ ctx[d].admitted /\ ctx[d].handle = h =>
                                    past'[d].shared /\ past'[c].shared
                               /\ past'[d].shared /\ ~past[d].shared => d = c \/ Alive(d)
           /\ UNCHANGED <<table, heard, main>> /\ main = "serving"
<1> DEFINE others == {d \in Conns : Alive(d) /\ ctx[d].admitted /\ ctx[d].handle = h}
<1>1. ctx' = [ctx EXCEPT ![c] = [Absent EXCEPT !.thread = "handshake", !.handle = h,
                                                !.open = TRUE, !.id = id]]
  BY DEF Accept
<1>2. \A d \in Conns : past'[d] = IF others # {} /\ d \in others \cup {c}
                                  THEN [past[d] EXCEPT !.shared = TRUE] ELSE past[d]
  BY DEF Accept
<1>3. \A d \in Conns \ {c} : ctx'[d] = ctx[d]
  BY <1>1 DEF TypeOK
<1>4. /\ ctx'[c].thread = "handshake" /\ ctx'[c].handle = h /\ ctx'[c].id = id
      /\ ctx'[c].open /\ ~ctx'[c].closed /\ ~ctx'[c].admitted
  BY <1>1 DEF TypeOK, Absent
<1>5. \A d \in Conns : past[d] \in Pasts
  BY DEF TypeOK
<1>6. \A d \in Conns : /\ past'[d].seated = past[d].seated /\ past'[d].met = past[d].met
                       /\ past'[d].announced = past[d].announced
                       /\ past'[d].early = past[d].early /\ past'[d].refused = past[d].refused
                       /\ past[d].shared => past'[d].shared
                       /\ d \in others => past'[d].shared /\ past'[c].shared
                       /\ past'[d].shared /\ ~past[d].shared => d = c \/ d \in others
  <2> HIDE DEF others
  <2> SUFFICES ASSUME NEW d \in Conns
               PROVE  /\ past'[d] = [past[d] EXCEPT !.shared = TRUE] \/ past'[d] = past[d]
                      /\ d \in others => past'[d] = [past[d] EXCEPT !.shared = TRUE]
                                         /\ past'[c] = [past[c] EXCEPT !.shared = TRUE]
                      /\ d \notin others \cup {c} => past'[d] = past[d]
    BY <1>5 DEF Pasts
  <2> QED
    BY <1>2
<1> QED
  BY <1>3, <1>4, <1>6 DEF Accept

\* An arrival leaves the contexts in order.
LEMMA OrderAccept ==
    ASSUME TypeOK, Order, NEW c \in Conns, NEW h \in Handles, NEW id \in Ids, Accept(c, h, id)
    PROVE  Order'
<1>1. /\ \A d \in Conns \ {c} : ctx'[d] = ctx[d]
      /\ ctx'[c].thread = "handshake" /\ ctx'[c].handle = h /\ ctx'[c].id = id
      /\ ctx'[c].open /\ ~ctx'[c].closed /\ ~ctx'[c].admitted
      /\ main' = main /\ main = "serving"
  BY AcceptEffect
<1>2. \A d \in Conns : /\ past'[d].seated = past[d].seated /\ past'[d].met = past[d].met
                       /\ past'[d].announced = past[d].announced
                       /\ past'[d].early = past[d].early /\ past'[d].refused = past[d].refused
                       /\ past[d].shared => past'[d].shared
                       /\ Alive(d) /\ ctx[d].admitted /\ ctx[d].handle = h =>
                            past'[d].shared /\ past'[c].shared
                       /\ past'[d].shared /\ ~past[d].shared => d = c \/ Alive(d)
  BY AcceptEffect
<1>3. /\ ctx[c].thread = "absent" /\ \A d \in 1 .. (c - 1) : ctx[d].thread # "absent"
      /\ \A d \in Conns : ctx[d].open => ctx[d].handle # h
  BY DEF Accept
<1>4. Life'
  <2>1. Untouched(c) /\ \A d \in Conns : Untouched(d)' <=> Untouched(d)
    BY <1>2, <1>3 DEF Order, Life, LifeOK, Untouched
  <2>2. LifeOK(c)'
    BY <1>1, <2>1 DEF LifeOK, Working, Alive
  <2>3. ASSUME NEW d \in Conns \ {c} PROVE LifeOK(d)'
    <3>1. CASE ctx[d].thread = "absent"
      <4>1. ~past'[d].shared
        BY <1>2, <3>1, <2>3 DEF Order, Life, LifeOK, Alive
      <4> QED
        BY <1>1, <2>1, <3>1, <4>1 DEF Order, Life, LifeOK, Working, Alive
    <3> QED
      BY <1>1, <2>1, <3>1 DEF Order, Life, LifeOK, Working, Alive
  <2> QED
    BY <2>2, <2>3 DEF Life
<1>5. InOrder'
  BY <1>1, <1>3, ConstantsAssumption DEF Order, InOrder
<1>6. ASSUME NEW x \in Conns, NEW y \in Conns, Meet(x, y)' PROVE ApartOK(x, y)'
  <2>1. ASSUME NEW d \in Conns \ {c}, ctx[d].handle = h, Alive(d)
        PROVE  ctx[d].thread = "ending" /\ d < c
    <3>1. ctx[d].thread = "ending"
      BY <1>1, <1>3, <2>1 DEF Order, Life, LifeOK, Working, Alive, TypeOK, Contexts
    <3>2. ~(c < d)
      BY <1>3, <3>1 DEF Order, InOrder
    <3> QED
      BY <3>1, <3>2, ConstantsAssumption
  <2>2. CASE x = c
    <3>1. y # c /\ ctx[y].handle = h /\ Alive(y) /\ ctx'[y] = ctx[y]
      BY <1>6, <1>1, <2>2 DEF Meet, Alive
    <3> QED
      BY <1>1, <2>1, <2>2, <3>1 DEF ApartOK, Working, Greeting, Own, Admitted
  <2>3. CASE y = c
    <3>1. x # c /\ ctx[x].handle = h /\ Alive(x) /\ ctx'[x] = ctx[x]
      BY <1>6, <1>1, <2>3 DEF Meet, Alive
    <3>2. ctx[x].admitted => past'[x].shared /\ past'[c].shared
      BY <1>2, <3>1
    <3> QED
      BY <1>1, <2>1, <2>3, <3>1, <3>2 DEF ApartOK, Working, Greeting, Own, Admitted
  <2>4. CASE x # c /\ y # c
    <3>1. Meet(x, y) /\ ctx'[x] = ctx[x] /\ ctx'[y] = ctx[y]
      BY <1>6, <1>1, <2>4 DEF Meet, Alive
    <3>2. ApartOK(x, y)
      BY <3>1 DEF Order, Apart
    <3> QED
      BY <1>2, <3>1, <3>2 DEF ApartOK, Working, Greeting, Own, Admitted, Alive
  <2> QED
    BY <2>2, <2>3, <2>4
<1> QED
  BY <1>4, <1>5, <1>6 DEF Order, Apart

(* The least of a set of numbers, which the lookups return. *)

LEMMA HasLeast ==
    ASSUME NEW S \in SUBSET Nat, S # {} PROVE \E m \in S : \A n \in S : m <= n
<1>1. PICK m \in S : \A n \in S : ~(<<n, m>> \in OpToRel(<, Nat))
  BY NatLessThanWellFounded, WFMin
<1>2. \A n \in S : ~(n < m)
  BY <1>1 DEF OpToRel
<1> QED
  BY <1>2

\* A lookup returns the least of what it looks for, or 0.
LEMMA FirstIsLeast ==
    ASSUME NEW S \in SUBSET Nat
    PROVE  /\ S # {} => First(S) \in S /\ \A n \in S : First(S) <= n
           /\ S = {} => First(S) = 0
  BY HasLeast DEF First, Min

\* A handle's slot carries it.
LEMMA SlotLookup ==
    ASSUME NEW h
    PROVE  /\ (\E i \in Slots : table[i].socket = h) => SlotOf(h) \in Slots /\ table[SlotOf(h)].socket = h
           /\ (\A i \in Slots : table[i].socket # h) => SlotOf(h) = 0
           /\ 0 \notin Slots
<1> DEFINE S == {i \in Slots : table[i].socket = h}
<1>1. S \in SUBSET Nat /\ 0 \notin Slots
  BY ConstantsAssumption
<1>2. (S # {} => First(S) \in S) /\ (S = {} => First(S) = 0)
  BY <1>1, FirstIsLeast
<1> QED
  BY <1>1, <1>2 DEF SlotOf

\* A write goes to a connection in the list that has the handle and is not marked closed,
\* and to the first of those.
LEMMA WriteLookup ==
    ASSUME NEW h, NEW c \in Conns
    PROVE  /\ c \in Reached(h) => MayAnswer(c, h) /\ ctx[c].open
                                  /\ \A d \in Conns : MayAnswer(d, h) => c <= d
           /\ MayAnswer(c, h) /\ ctx[c].open /\ (\A d \in Conns : MayAnswer(d, h) => d = c) =>
                Reached(h) = {c}
<1> DEFINE S == {d \in Conns : MayAnswer(d, h)}
<1>1. S \in SUBSET Nat /\ 0 \notin Conns
  BY ConstantsAssumption
<1>2. (S # {} => First(S) \in S /\ \A n \in S : First(S) <= n) /\ (S = {} => First(S) = 0)
  BY <1>1, FirstIsLeast
<1>3. \A d : d \in S <=> d \in Conns /\ MayAnswer(d, h)
  OBVIOUS
<1>4. ContextOf(h) = First(S)
  BY DEF ContextOf
<1>5. \A d : d \in Reached(h) <=> d \in Conns /\ d = First(S) /\ ctx[d].open
  BY <1>4 DEF Reached
<1> HIDE DEF S
<1>6. c \in Reached(h) => MayAnswer(c, h) /\ ctx[c].open
                          /\ \A d \in Conns : MayAnswer(d, h) => c <= d
  BY <1>1, <1>2, <1>3, <1>5
<1>7. ASSUME MayAnswer(c, h), ctx[c].open, \A d \in Conns : MayAnswer(d, h) => d = c
      PROVE  Reached(h) = {c}
  <2>1. First(S) = c
    BY <1>2, <1>3, <1>7
  <2> QED
    BY <1>5, <1>7, <2>1
<1> QED
  BY <1>6, <1>7

\* What an admission changes: the connection's place in its life, and one slot.
LEMMA AdmitEffect ==
    ASSUME TypeOK, NEW c \in Conns, SyncHandshake(c), Reached(ctx[c].handle) # {}
    PROVE  /\ \A d \in Conns \ {c} : ctx'[d] = ctx[d] /\ past'[d] = past[d]
           /\ ctx[c].thread = "handshake" /\ ctx'[c].thread = "running" /\ ctx'[c].admitted
           /\ ctx'[c].handle = ctx[c].handle /\ ctx'[c].id = ctx[c].id
           /\ ctx'[c].open = ctx[c].open /\ ctx'[c].closed = ctx[c].closed
           /\ past'[c].seated = (FreeSlots # {}) /\ past'[c].shared = past[c].shared
           /\ past'[c].announced = past[c].announced /\ past'[c].met = past[c].met
           /\ past'[c].early = past[c].early /\ past'[c].refused = past[c].refused
           /\ table' = AddSocketToArray(ctx[c].handle)
           /\ UNCHANGED <<heard, main>> /\ main = "serving"
<1>1. /\ ctx' = [ctx EXCEPT ![c].thread = "running", ![c].admitted = TRUE]
      /\ past' = [past EXCEPT ![c].seated = (FreeSlots # {})]
  BY DEF SyncHandshake
<1>2. ctx[c] \in Contexts /\ past[c] \in Pasts
  BY DEF TypeOK
<1>3. \A d \in Conns \ {c} : ctx'[d] = ctx[d] /\ past'[d] = past[d]
  BY <1>1 DEF TypeOK
<1>4. /\ ctx'[c].thread = "running" /\ ctx'[c].admitted
      /\ ctx'[c].handle = ctx[c].handle /\ ctx'[c].id = ctx[c].id
      /\ ctx'[c].open = ctx[c].open /\ ctx'[c].closed = ctx[c].closed
  BY <1>1, <1>2 DEF TypeOK, Contexts
<1>5. /\ past'[c].seated = (FreeSlots # {}) /\ past'[c].shared = past[c].shared
      /\ past'[c].announced = past[c].announced /\ past'[c].met = past[c].met
      /\ past'[c].early = past[c].early /\ past'[c].refused = past[c].refused
  <2> DEFINE free == (FreeSlots # {})
  <2>1. past' = [past EXCEPT ![c].seated = free]
    BY <1>1
  <2> HIDE DEF free
  <2>2. /\ past'[c].seated = free /\ past'[c].shared = past[c].shared
        /\ past'[c].announced = past[c].announced /\ past'[c].met = past[c].met
        /\ past'[c].early = past[c].early /\ past'[c].refused = past[c].refused
    BY <2>1, <1>2 DEF TypeOK, Pasts
  <2> QED
    BY <2>2 DEF free
<1> QED
  BY <1>3, <1>4, <1>5 DEF SyncHandshake

\* And what the end of a connection changes of it.
LEMMA DropEffect ==
    ASSUME TypeOK, NEW c \in Conns, SyncDrop(c)
    PROVE  /\ \A d \in Conns \ {c} : ctx'[d] = ctx[d]
           /\ ctx[c].thread = "ending" /\ ctx'[c].thread = "done" /\ ~ctx'[c].admitted
           /\ ctx'[c].handle = ctx[c].handle /\ ctx'[c].id = ctx[c].id
           /\ ctx'[c].open = ctx[c].open /\ ctx'[c].closed
           /\ UNCHANGED <<main, past>> /\ main = "serving"
<1>1. ctx[c] \in Contexts /\ ctx' = [ctx EXCEPT ![c].thread = "done", ![c].closed = TRUE, ![c].admitted = FALSE]
  BY DEF SyncDrop, TypeOK
<1>2. /\ \A d \in Conns \ {c} : ctx'[d] = ctx[d]
      /\ ctx'[c].thread = "done" /\ ~ctx'[c].admitted
      /\ ctx'[c].handle = ctx[c].handle /\ ctx'[c].id = ctx[c].id
      /\ ctx'[c].open = ctx[c].open /\ ctx'[c].closed
  BY <1>1 DEF TypeOK, Contexts
<1> QED
  BY <1>2 DEF SyncDrop

\* An admission leaves the contexts in order: the handshake was answered, so the write found
\* this connection, and whoever had its handle is marked closed.
LEMMA OrderAdmit ==
    ASSUME TypeOK, Order, NEW c \in Conns, SyncHandshake(c), Reached(ctx[c].handle) # {}
    PROVE  Order'
<1> DEFINE h == ctx[c].handle
<1>1. /\ \A d \in Conns \ {c} : ctx'[d] = ctx[d] /\ past'[d] = past[d]
      /\ ctx[c].thread = "handshake" /\ ctx'[c].thread = "running" /\ ctx'[c].admitted
      /\ ctx'[c].handle = ctx[c].handle /\ ctx'[c].id = ctx[c].id
      /\ ctx'[c].open = ctx[c].open /\ ctx'[c].closed = ctx[c].closed
      /\ past'[c].shared = past[c].shared
      /\ UNCHANGED main /\ main = "serving"
  BY AdmitEffect
<1>2. LifeOK(c) /\ Alive(c) /\ ctx[c].handle \in Handles
  BY <1>1 DEF Order, Life, LifeOK, Alive
<1>3. Life'
  <2>1. ASSUME NEW d \in Conns \ {c} PROVE LifeOK(d)'
    BY <1>1, <2>1 DEF Order, Life, LifeOK, Working, Untouched, Alive
  <2>2. LifeOK(c)'
    BY <1>1, <1>2 DEF LifeOK, Working, Untouched, Alive
  <2> QED
    BY <2>1, <2>2 DEF Life
<1>4. InOrder'
  BY <1>1 DEF Order, InOrder
<1>5. ASSUME NEW d \in Conns, d # c, Alive(d), ctx[d].handle = h PROVE ctx[d].closed /\ ctx[d].thread = "ending"
  <2>1. PICK r : r \in Reached(h)
    OBVIOUS
  <2>2. r \in Conns
    BY <2>1 DEF Reached
  <2>3. MayAnswer(r, h) /\ ctx[r].open /\ \A e \in Conns : MayAnswer(e, h) => r <= e
    BY <2>1, <2>2, WriteLookup
  <2>4. r = c
    <3> SUFFICES ASSUME r # c PROVE FALSE
      OBVIOUS
    <3>1. Meet(c, r)
      BY <1>2, <2>2, <2>3 DEF Meet, MayAnswer
    <3>2. ctx[r].thread = "ending"
      BY <1>1, <2>2, <3>1 DEF Order, Apart, ApartOK, Working
    <3> QED
      BY <2>2, <2>3, <3>2 DEF Order, Life, LifeOK, Working
  <2>5. Meet(c, d)
    BY <1>2, <1>5 DEF Meet
  <2>6. d < c /\ ctx[d].thread = "ending"
    BY <1>1, <2>5 DEF Order, Apart, ApartOK, Greeting, Working
  <2>7. ~MayAnswer(d, h)
    BY <2>3, <2>4, <2>6, ConstantsAssumption
  <2> QED
    BY <1>5, <2>6, <2>7 DEF MayAnswer, TypeOK, Contexts
<1>6. ASSUME NEW x \in Conns, NEW y \in Conns, Meet(x, y)' PROVE ApartOK(x, y)'
  <2>1. Meet(x, y)
    BY <1>1, <1>2, <1>6 DEF Meet, Alive
  <2>2. ApartOK(x, y) /\ ApartOK(y, x)
    BY <2>1 DEF Order, Apart, Meet
  <2>3. CASE x = c
    <3>1. y # c /\ Alive(y) /\ ctx[y].handle = h /\ ctx'[y] = ctx[y] /\ past'[y] = past[y]
      BY <1>1, <2>1, <2>3 DEF Meet
    <3> QED
      BY <1>1, <1>5, <2>2, <2>3, <3>1 DEF ApartOK, Working, Greeting, Own, Admitted
  <2>4. CASE y = c
    <3>1. x # c /\ Alive(x) /\ ctx[x].handle = h /\ ctx'[x] = ctx[x] /\ past'[x] = past[x]
      BY <1>1, <2>1, <2>4 DEF Meet
    <3> QED
      BY <1>1, <1>5, <2>2, <2>4, <3>1 DEF ApartOK, Working, Greeting, Own, Admitted, Alive
  <2>5. CASE x # c /\ y # c
    BY <1>1, <2>2, <2>5 DEF ApartOK, Working, Greeting, Own, Admitted, Alive
  <2> QED
    BY <2>3, <2>4, <2>5
<1> QED
  BY <1>3, <1>4, <1>6 DEF Order, Apart

\* A step of a connection on its way, other than admission and the end, changes nothing the
\* table or the others depend on.
LEMMA ThreadEffect ==
    ASSUME TypeOK, Order, NEW c \in Conns, FromOwnThread(c)
    PROVE  /\ Quiet /\ \A d \in Conns \ {c} : ctx'[d] = ctx[d]
           /\ ctx[c].closed => ctx'[c].closed
           /\ Working(c) /\ ctx'[c].thread = "ending" /\ ~ctx'[c].open
           /\ UNCHANGED <<main, past>>
<1>1. ctx[c] \in Contexts /\ LifeOK(c)
  BY DEF TypeOK, Order, Life
<1>2. /\ \A d \in Conns \ {c} : ctx'[d] = ctx[d]
      /\ ctx'[c].handle = ctx[c].handle /\ ctx'[c].id = ctx[c].id
      /\ ctx'[c].admitted = ctx[c].admitted
      /\ ctx[c].thread \in {"handshake", "running"} /\ ctx'[c].thread = "ending" /\ ~ctx'[c].open
      /\ ctx[c].closed => ctx'[c].closed
  <2>1. CASE CloseConnection(c)
    BY <1>1, <2>1 DEF CloseConnection, TypeOK, Contexts
  <2>2. CASE LinkLost(c)
    BY <1>1, <2>2 DEF LinkLost, TypeOK, Contexts
  <2> QED
    BY <2>1, <2>2 DEF FromOwnThread
<1>3. UNCHANGED <<table, heard, main, past>>
  BY DEF FromOwnThread, CloseConnection, LinkLost
<1>4. Alive(c) /\ Alive(c)' /\ \A d \in Conns \ {c} : Alive(d)' <=> Alive(d)
  BY <1>2 DEF Alive
<1> QED
  BY <1>2, <1>3, <1>4 DEF Quiet, Working

\* A step that asks for a drop, or only notes one in the history.
LEMMA MarkEffect ==
    ASSUME TypeOK, NEW c \in Conns,
           \/ ctx' = ctx
           \/ ctx' = [ctx EXCEPT ![c].drop = TRUE],
           \/ past' = past
           \/ past' = [past EXCEPT ![c].unanswered = TRUE],
           UNCHANGED <<table, heard>>
    PROVE  Quiet /\ \A d \in Conns : ctx'[d].thread = ctx[d].thread /\ ctx'[d].closed = ctx[d].closed
                                     /\ ctx'[d].open = ctx[d].open /\ past'[d].early = past[d].early
<1>1. \A d \in Conns : ctx[d] \in Contexts /\ past[d] \in Pasts
  BY DEF TypeOK
<1>2. \A d \in Conns : ctx'[d] = ctx[d] \/ ctx'[d] = [ctx[d] EXCEPT !.drop = TRUE]
  BY DEF TypeOK
<1>3. \A d \in Conns : past'[d] = past[d] \/ past'[d] = [past[d] EXCEPT !.unanswered = TRUE]
  BY DEF TypeOK
<1>4. \A d \in Conns : /\ ctx'[d].handle = ctx[d].handle /\ ctx'[d].id = ctx[d].id
                       /\ ctx'[d].admitted = ctx[d].admitted /\ ctx'[d].thread = ctx[d].thread
                       /\ ctx'[d].open = ctx[d].open /\ ctx'[d].closed = ctx[d].closed
  BY <1>1, <1>2, ZenonT(60) DEF Contexts
<1>5. \A d \in Conns : /\ past'[d].seated = past[d].seated /\ past'[d].shared = past[d].shared
                       /\ past'[d].announced = past[d].announced /\ past'[d].met = past[d].met
                       /\ past'[d].early = past[d].early /\ past'[d].refused = past[d].refused
  BY <1>1, <1>3, ZenonT(60) DEF Pasts
<1> QED
  BY <1>4, <1>5 DEF Quiet, Alive

\* A parsed message that is not a HELLO changes no more than the history of its connection.
LEMMA OtherEffect ==
    ASSUME TypeOK, NEW c \in Conns, OtherMessage(c)
    PROVE  /\ Quiet /\ UNCHANGED main
           /\ \A d \in Conns : /\ ctx'[d].thread = ctx[d].thread /\ ctx'[d].closed = ctx[d].closed
                               /\ ctx'[d].open = ctx[d].open
                               /\ d # c => past'[d].early = past[d].early
           /\ past'[c].early /\ ~past[c].early =>
                MessageAllowedNow(Slot(c)) /\ past[c].announced = None /\ ~past[c].refused
<1> DEFINE new == [past[c] EXCEPT !.early = @ \/ (past[c].announced = None /\ ~past[c].refused)]
<1>1. \A d \in Conns : past[d] \in Pasts
  BY DEF TypeOK
<1>2. CASE ctx' = [ctx EXCEPT ![c].drop = TRUE] /\ UNCHANGED past
  BY <1>2, MarkEffect DEF OtherMessage
<1>3. CASE MessageAllowedNow(Slot(c)) /\ past' = [past EXCEPT ![c] = new] /\ UNCHANGED ctx
  <2>1. /\ new.seated = past[c].seated /\ new.shared = past[c].shared
        /\ new.announced = past[c].announced /\ new.met = past[c].met
        /\ new.refused = past[c].refused
        /\ new.early /\ ~past[c].early => past[c].announced = None /\ ~past[c].refused
    BY <1>1 DEF Pasts
  <2>2. past'[c] = new /\ \A d \in Conns \ {c} : past'[d] = past[d]
    BY <1>3 DEF TypeOK
  <2> HIDE DEF new
  <2>3. \A d \in Conns : /\ past'[d].seated = past[d].seated /\ past'[d].shared = past[d].shared
                         /\ past'[d].announced = past[d].announced /\ past'[d].met = past[d].met
                         /\ past'[d].refused = past[d].refused
    BY <2>1, <2>2
  <2>4. UNCHANGED <<ctx, table, heard, main>>
    BY <1>3 DEF OtherMessage
  <2> QED
    BY <1>3, <2>1, <2>2, <2>3, <2>4 DEF Quiet, Alive
<1> QED
  BY <1>2, <1>3 DEF OtherMessage

\* The operator's Stop closes the sockets and no more.
LEMMA StopEffect ==
    ASSUME TypeOK, StopServer
    PROVE  /\ Quiet /\ main' = "stopping" /\ UNCHANGED past
           /\ \A d \in Conns : ctx'[d].thread = ctx[d].thread /\ ctx'[d].closed = ctx[d].closed
                               /\ ~ctx'[d].open
<1>1. \A d \in Conns : ctx[d] \in Contexts /\ ctx'[d] = [ctx[d] EXCEPT !.open = FALSE]
  BY DEF StopServer, TypeOK
<1>2. \A d \in Conns : /\ ctx'[d].handle = ctx[d].handle /\ ctx'[d].id = ctx[d].id
                       /\ ctx'[d].admitted = ctx[d].admitted /\ ctx'[d].thread = ctx[d].thread
                       /\ ~ctx'[d].open /\ ctx'[d].closed = ctx[d].closed
  BY <1>1 DEF Contexts
<1> QED
  BY <1>2 DEF StopServer, Quiet, Alive

\* What a HELLO changes: the history of its connection, its slot, and what was heard.
LEMMA HelloEffect ==
    ASSUME TypeOK, NEW c \in Conns, NEW k \in Contests, AcceptHello(c, k)
    PROVE  LET s == Slot(c) IN
           /\ s \in Slots /\ table[s].socket = ctx[c].handle
           /\ ctx[c].thread = "running" /\ main = "serving" /\ UNCHANGED <<ctx, main>>
           /\ \A d \in Conns \ {c} : past'[d] = past[d]
           /\ past'[c].seated = past[c].seated /\ past'[c].shared = past[c].shared
           /\ past'[c].early = past[c].early
           /\ \A i \in Slots : table'[i].socket = table[i].socket
           /\ \A i \in Slots \ {s} : table'[i] = table[i]
           /\ table'[s].helloSeen
           /\ \/ /\ ctx[c].id \notin TakenIds(s)
                 /\ past'[c].announced = k /\ past'[c].refused = past[c].refused
                 /\ past'[c].met <=> (past[c].met \/ ~table[s].helloSeen)
                 /\ table'[s].id = ctx[c].id /\ table'[s].hello = k
                 /\ heard' = HeardAfterHello(c, s, ~table[s].helloSeen, k)
              \/ /\ ctx[c].id \in TakenIds(s)
                 /\ past'[c].announced = past[c].announced /\ past'[c].refused
                 /\ past'[c].met = past[c].met
                 /\ table'[s].id = table[s].id /\ table'[s].hello = table[s].hello
                 /\ heard' = heard
<1> DEFINE s == Slot(c)
<1>1. s \in Slots /\ ctx[c].thread = "running" /\ main = "serving" /\ UNCHANGED <<ctx, main>>
  BY DEF AcceptHello, Parsing
<1>2. table[s].socket = ctx[c].handle
  <2>1. 0 \notin Slots
    BY SlotLookup
  <2> QED
    BY <1>1, <2>1, SlotLookup DEF Slot
<1>3. past[c] \in Pasts /\ \A i \in Slots : table[i] \in Entries
  BY DEF TypeOK
<1> HIDE DEF s
<1>4. CASE ctx[c].id \notin TakenIds(s) /\ HelloAccepted(c, s, k)
  <2>1. /\ table' = [table EXCEPT ![s].helloSeen = TRUE, ![s].id = ctx[c].id, ![s].hello = k]
        /\ past' = [past EXCEPT ![c].announced = k, ![c].met = @ \/ ~table[s].helloSeen]
        /\ heard' = HeardAfterHello(c, s, ~table[s].helloSeen, k)
    BY <1>4 DEF HelloAccepted
  <2>2. /\ \A i \in Slots : table'[i].socket = table[i].socket
        /\ \A i \in Slots \ {s} : table'[i] = table[i]
        /\ table'[s].helloSeen /\ table'[s].id = ctx[c].id /\ table'[s].hello = k
    BY <1>1, <1>3, <2>1 DEF TypeOK, Entries
  <2>3. /\ \A d \in Conns \ {c} : past'[d] = past[d]
        /\ past'[c].seated = past[c].seated /\ past'[c].shared = past[c].shared
        /\ past'[c].early = past[c].early
        /\ past'[c].announced = k /\ past'[c].refused = past[c].refused
        /\ past'[c].met <=> (past[c].met \/ ~table[s].helloSeen)
    <3> DEFINE first == ~table[s].helloSeen
    <3>1. past' = [past EXCEPT ![c].announced = k, ![c].met = @ \/ first]
      BY <2>1
    <3> HIDE DEF first
    <3>2. /\ \A d \in Conns \ {c} : past'[d] = past[d]
          /\ past'[c].seated = past[c].seated /\ past'[c].shared = past[c].shared
          /\ past'[c].early = past[c].early
          /\ past'[c].announced = k /\ past'[c].refused = past[c].refused
          /\ past'[c].met <=> (past[c].met \/ first)
      BY <1>3, <3>1 DEF TypeOK, Pasts
    <3> QED
      BY <3>2 DEF first
  <2> QED
    BY <1>1, <1>2, <1>4, <2>1, <2>2, <2>3 DEF s
<1>5. CASE ctx[c].id \in TakenIds(s) /\ HelloRefused(c, s)
  <2>1. /\ table' = [table EXCEPT ![s].helloSeen = TRUE]
        /\ past' = [past EXCEPT ![c].refused = TRUE]
        /\ heard' = heard
    BY <1>5 DEF HelloRefused
  <2>2. /\ \A i \in Slots : table'[i].socket = table[i].socket
        /\ \A i \in Slots \ {s} : table'[i] = table[i]
        /\ table'[s].helloSeen /\ table'[s].id = table[s].id /\ table'[s].hello = table[s].hello
    BY <1>1, <1>3, <2>1 DEF TypeOK, Entries
  <2>3. /\ \A d \in Conns \ {c} : past'[d] = past[d]
        /\ past'[c].seated = past[c].seated /\ past'[c].shared = past[c].shared
        /\ past'[c].early = past[c].early /\ past'[c].met = past[c].met
        /\ past'[c].announced = past[c].announced /\ past'[c].refused
    BY <1>3, <2>1 DEF TypeOK, Pasts
  <2> QED
    BY <1>1, <1>2, <1>5, <2>1, <2>2, <2>3 DEF s
<1> QED
  BY <1>4, <1>5 DEF AcceptHello, s

\* Steps that move no connection leave them in order.
LEMMA OrderSame ==
    ASSUME Order, TypeOK, main' = main \/ main' = "stopping",
           \A d \in Conns : /\ ctx'[d].thread = ctx[d].thread /\ ctx'[d].closed = ctx[d].closed
                            /\ ctx'[d].handle = ctx[d].handle /\ ctx'[d].id = ctx[d].id
                            /\ ctx'[d].admitted = ctx[d].admitted
                            /\ ctx'[d].open => ctx[d].open
                            /\ main' = "serving" => ctx'[d].open = ctx[d].open
                            /\ past'[d].shared = past[d].shared
                            /\ ctx[d].thread \in {"absent", "handshake"} => Untouched(d)'
    PROVE  Order'
<1>1. Life'
  BY DEF Order, Life, LifeOK, Working, Alive
<1>2. InOrder'
  BY DEF Order, InOrder
<1>3. Apart'
  BY DEF Order, Apart, ApartOK, Meet, Working, Greeting, Own, Admitted, Alive
<1> QED
  BY <1>1, <1>2, <1>3 DEF Order

\* A thread on its way out, and a connection's end.
LEMMA OrderLeaving ==
    ASSUME Order, TypeOK, NEW c \in Conns, main' = main, past' = past,
           \A d \in Conns \ {c} : ctx'[d] = ctx[d],
           ctx'[c].handle = ctx[c].handle, ctx'[c].id = ctx[c].id, ~ctx'[c].open,
           \/ /\ Working(c) /\ ctx'[c].thread = "ending" /\ ctx'[c].admitted = ctx[c].admitted
              /\ ctx[c].closed => ctx'[c].closed
           \/ /\ ctx[c].thread = "ending" /\ ctx'[c].thread = "done" /\ ~ctx'[c].admitted
    PROVE  Order'
<1>1. Life'
  <2>1. LifeOK(c) /\ Untouched(c)' = Untouched(c)
    BY DEF Order, Life, Untouched
  <2>2. LifeOK(c)'
    BY <2>1 DEF LifeOK, Working, Alive
  <2>3. ASSUME NEW d \in Conns \ {c} PROVE LifeOK(d)'
    BY <2>3 DEF Order, Life, LifeOK, Working, Untouched, Alive
  <2> QED
    BY <2>2, <2>3 DEF Life
<1>2. InOrder'
  BY DEF Order, InOrder, Working
<1>3. ASSUME NEW x \in Conns, NEW y \in Conns, Meet(x, y)' PROVE ApartOK(x, y)'
  <2>1. Meet(x, y)
    BY <1>3 DEF Meet, Alive, Working
  <2>2. ApartOK(x, y) /\ LifeOK(x)
    BY <2>1 DEF Order, Apart, Life
  <2>3. CASE x = c
    BY <1>3, <2>1, <2>2, <2>3 DEF ApartOK, Working, Greeting, Own, Admitted, Alive, Meet
  <2>4. CASE y = c
    BY <1>3, <2>1, <2>2, <2>4 DEF ApartOK, Working, Greeting, Own, Admitted, Alive, Meet
  <2>5. CASE x # c /\ y # c
    BY <2>1, <2>2, <2>5 DEF ApartOK, Working, Greeting, Own, Admitted, Alive, Meet
  <2> QED
    BY <2>3, <2>4, <2>5
<1> QED
  BY <1>1, <1>2, <1>3 DEF Order, Apart

\* Every step leaves the contexts in order.
LEMMA OrderStep == TypeOK /\ Order /\ [Next]_vars => Order'
<1> SUFFICES ASSUME TypeOK, Order, [Next]_vars PROVE Order'
  OBVIOUS
<1>1. ASSUME Quiet, main' = main \/ main' = "stopping",
             \A d \in Conns : /\ ctx'[d].thread = ctx[d].thread /\ ctx'[d].closed = ctx[d].closed
                              /\ main' = "serving" => ctx'[d].open = ctx[d].open
                              /\ ctx[d].thread # "running" => past'[d].early = past[d].early
      PROVE  Order'
  <2>1. \A d \in Conns : ctx[d].thread \in {"absent", "handshake"} => Untouched(d)'
    BY <1>1 DEF Quiet, Untouched, Order, Life, LifeOK
  <2> QED
    BY <1>1, <2>1, OrderSame DEF Quiet
<1>2. CASE UNCHANGED vars
  BY <1>1, <1>2 DEF vars, Quiet, Alive
<1>3. ASSUME NEW c \in Conns, FromOwnThread(c) PROVE Order'
  <2>1. Quiet => ctx'[c].handle = ctx[c].handle /\ ctx'[c].id = ctx[c].id /\ ctx'[c].admitted = ctx[c].admitted
    BY DEF Quiet
  <2> QED
    BY <1>3, <2>1, ThreadEffect, OrderLeaving
<1>4. ASSUME NEW c \in Conns, FromMainThread(c) PROVE Order'
  <2>1. CASE SyncHandshake(c) /\ Reached(ctx[c].handle) = {}
    BY <1>1, <2>1, MarkEffect DEF SyncHandshake
  <2>2. CASE SyncHandshake(c) /\ Reached(ctx[c].handle) # {}
    BY <2>2, OrderAdmit
  <2>3. CASE WrongPassword(c) \/ AcceptHelloOfAnotherProtocol(c)
    BY <1>1, <2>3, MarkEffect DEF WrongPassword, AcceptHelloOfAnotherProtocol
  <2>4. CASE SyncDrop(c)
    <3>1. LifeOK(c)
      BY DEF Order, Life
    <3>2. ~ctx'[c].open
      BY <2>4, <3>1, DropEffect DEF LifeOK, Working, TypeOK, Contexts
    <3> QED
      BY <2>4, <3>2, DropEffect, OrderLeaving
  <2>5. ASSUME NEW k \in Contests, AcceptHello(c, k) PROVE Order'
    <3>1. /\ ctx[c].thread = "running" /\ UNCHANGED <<ctx, main>>
          /\ \A d \in Conns \ {c} : past'[d] = past[d]
          /\ past'[c].shared = past[c].shared
      BY <2>5, HelloEffect
    <3>2. \A d \in Conns : ctx[d].thread \in {"absent", "handshake"} => Untouched(d)'
      BY <3>1 DEF Untouched, Order, Life, LifeOK
    <3> QED
      BY <3>1, <3>2, OrderSame
  <2>6. CASE OtherMessage(c)
    <3>1. ctx[c].thread = "running"
      BY <2>6 DEF OtherMessage, Parsing
    <3> QED
      BY <1>1, <2>6, <3>1, OtherEffect
  <2> QED
    BY <1>4, <2>1, <2>2, <2>3, <2>4, <2>5, <2>6 DEF FromMainThread
<1>5. CASE StopServer
  BY <1>1, <1>5, StopEffect
<1>6. CASE StopReturns
  <2>1. \A c \in Conns : LifeOK(c) /\ ~Alive(c) /\ UNCHANGED <<ctx[c], past[c]>>
    BY <1>6 DEF StopReturns, Order, Life
  <2>2. Life'
    BY <1>6, <2>1 DEF StopReturns, Life, LifeOK, Working, Untouched, Alive
  <2> QED
    BY <1>6, <2>2 DEF StopReturns, Order, InOrder, Apart, ApartOK, Meet, Working, Greeting, Own, Admitted, Alive
<1>7. CASE RunServer
  <2>1. \A c \in Conns : LifeOK(c) /\ ~Alive(c) /\ UNCHANGED <<ctx[c], past[c]>>
    BY <1>7 DEF RunServer, Order, Life, LifeOK
  <2>2. Life'
    BY <1>7, <2>1 DEF RunServer, Life, LifeOK, Working, Untouched, Alive
  <2> QED
    BY <1>7, <2>2 DEF RunServer, Order, InOrder, Apart, ApartOK, Meet, Working, Greeting, Own, Admitted, Alive
<1> QED
  BY <1>2, <1>3, <1>4, <1>5, <1>6, <1>7, OrderAccept DEF Next

(***************************************************************************)
(* The slots: no handle has more of them than seated connections, and a    *)
(* connection that shares its handle with nobody has exactly its own.      *)
(***************************************************************************)

Carrying(h) == {i \in Slots : table[i].socket = h}
SeatedOf(h) == {c \in Conns : Admitted(c) /\ past[c].seated /\ ctx[c].handle = h}
NotMoreThanSeated == \A h \in Handles : Cardinality(Carrying(h)) <= Cardinality(SeatedOf(h))
HasSlot == \A c \in Conns : Seated(c) => \E i \in Slots : table[i].socket = ctx[c].handle
Seats == NotMoreThanSeated /\ HasSlot

\* An admitted connection that shares its handle with nobody is the only admitted one of it.
LEMMA Alone ==
    ASSUME Order, NEW c \in Conns, NEW d \in Conns, Own(c), Admitted(d), c # d
    PROVE  ctx[c].handle # ctx[d].handle
<1> SUFFICES ASSUME ctx[c].handle = ctx[d].handle PROVE FALSE
  OBVIOUS
<1>1. ApartOK(c, d)
  BY DEF Order, Apart, Meet, Own, Admitted
<1> QED
  BY <1>1 DEF ApartOK, Own, Admitted

\* Nor has a connection that is still greeting a handle that an admitted one has, unless both
\* are marked.
LEMMA AloneAtTheDoor ==
    ASSUME Order, NEW c \in Conns, NEW d \in Conns, Greeting(c), ~past[c].shared \/ ~past[d].shared,
           Admitted(d)
    PROVE  ctx[c].handle # ctx[d].handle
<1>1. LifeOK(c) /\ Alive(c)
  BY DEF Order, Life, Greeting, Alive
<1>2. c # d
  BY <1>1 DEF LifeOK, Admitted, Greeting
<1> SUFFICES ASSUME ctx[c].handle = ctx[d].handle PROVE FALSE
  OBVIOUS
<1>3. ApartOK(d, c)
  BY <1>1, <1>2 DEF Order, Apart, Meet, Admitted
<1> QED
  BY <1>3 DEF ApartOK, Admitted

\* The sets that are counted are finite.
LEMMA Finite ==
    ASSUME NEW h
    PROVE  /\ IsFiniteSet(Carrying(h)) /\ Cardinality(Carrying(h)) \in Nat
           /\ IsFiniteSet(SeatedOf(h)) /\ Cardinality(SeatedOf(h)) \in Nat
<1>1. IsFiniteSet(Slots) /\ IsFiniteSet(Conns)
  BY ConstantsAssumption, FS_Interval
<1>2. Carrying(h) \in SUBSET Slots /\ SeatedOf(h) \in SUBSET Conns
  BY DEF Carrying, SeatedOf
<1>3. IsFiniteSet(Carrying(h)) /\ IsFiniteSet(SeatedOf(h))
  BY <1>1, <1>2, FS_Subset
<1> QED
  BY <1>3, FS_CardinalityType

\* A handle nobody seated has is in no slot.
LEMMA NoSeatNoSlot ==
    ASSUME NotMoreThanSeated, NEW h \in Handles, SeatedOf(h) = {}
    PROVE  Carrying(h) = {}
<1>1. Cardinality(Carrying(h)) <= 0
  BY FS_EmptySet DEF NotMoreThanSeated
<1>2. Cardinality(Carrying(h)) = 0
  BY <1>1, Finite
<1> QED
  BY <1>2, Finite, FS_EmptySet

\* A connection that is alone with its handle has one slot if it was seated, and none if not:
\* the lookup by handle finds it.
LEMMA OwnSlot ==
    ASSUME TypeOK, Order, Seats, NEW c \in Conns, Own(c)
    PROVE  /\ Seated(c) => /\ Slot(c) \in Slots /\ table[Slot(c)].socket = ctx[c].handle
                           /\ \A i \in Slots : table[i].socket = ctx[c].handle => i = Slot(c)
                           /\ Slot(c) \in Holders(table)
           /\ ~past[c].seated => /\ \A i \in Slots : table[i].socket # ctx[c].handle
                                 /\ Slot(c) = 0
<1> DEFINE h == ctx[c].handle
<1>1. h \in Handles /\ h # None
  BY ConstantsAssumption DEF Order, Life, LifeOK, Own, Admitted, Alive
<1>2. \A d \in SeatedOf(h) : d = c /\ past[c].seated
  BY Alone DEF SeatedOf
<1>3. CASE past[c].seated
  <2>1. Seated(c)
    BY <1>3 DEF Seated
  <2>2. PICK i \in Slots : table[i].socket = h
    BY <2>1 DEF Seats, HasSlot
  <2>3. Slot(c) \in Slots /\ table[Slot(c)].socket = h
    BY <2>2, SlotLookup DEF Slot
  <2>4. SeatedOf(h) = {c}
    BY <1>2, <1>3 DEF SeatedOf, Own
  <2>5. Cardinality(SeatedOf(h)) = 1
    BY <2>4, FS_Singleton
  <2>6. Cardinality(Carrying(h)) <= 1
    BY <1>1, <2>5 DEF Seats, NotMoreThanSeated
  <2>7. Cardinality(Carrying(h)) # 0
    <3>1. Carrying(h) # {}
      BY <2>2 DEF Carrying
    <3> QED
      BY <3>1, Finite, FS_EmptySet
  <2>8. Cardinality(Carrying(h)) = 1
    BY <2>6, <2>7, Finite
  <2>9. PICK j : Carrying(h) = {j}
    BY <2>8, Finite, FS_Singleton
  <2>10. \A n \in Slots : table[n].socket = h => n = j
    BY <2>9 DEF Carrying
  <2>11. \A n \in Slots : table[n].socket = h => n = Slot(c)
    BY <2>3, <2>10
  <2> QED
    BY <1>1, <1>3, <2>3, <2>11 DEF Holders
<1>4. CASE ~past[c].seated
  <2>1. SeatedOf(h) = {}
    BY <1>2, <1>4
  <2>2. Carrying(h) = {}
    BY <1>1, <2>1, NoSeatNoSlot DEF Seats
  <2>3. \A i \in Slots : table[i].socket # h
    BY <2>2 DEF Carrying
  <2>4. Slot(c) = 0
    BY <2>3, SlotLookup DEF Slot
  <2> QED
    BY <1>4, <2>3, <2>4 DEF Seated
<1> QED
  BY <1>3, <1>4

\* An open connection that is alone with its handle is the one a write to it reaches.
LEMMA OwnWrite ==
    ASSUME TypeOK, Order, NEW c \in Conns, Own(c), ctx[c].open
    PROVE  Reached(ctx[c].handle) = {c}
<1> DEFINE h == ctx[c].handle
<1>1. MayAnswer(c, h)
  BY DEF MayAnswer, Order, Life, LifeOK, Working, Own, Admitted
<1>2. ASSUME NEW d \in Conns, MayAnswer(d, h), d # c PROVE FALSE
  <2>1. ApartOK(c, d)
    BY <1>2 DEF Order, Apart, Meet, MayAnswer, Own, Admitted
  <2> QED
    BY <1>2, <2>1 DEF ApartOK, MayAnswer
<1> QED
  BY <1>1, <1>2, WriteLookup

\* The slots that a step leaves alone, and those it may not empty.
LEMMA SeatsSame ==
    ASSUME Seats, \A i \in Slots : table'[i].socket = table[i].socket,
           \A d \in Conns : /\ ctx'[d].handle = ctx[d].handle \/ ~Admitted(d)'
                            /\ Admitted(d)' <=> Admitted(d)
                            /\ past'[d].seated = past[d].seated
                            /\ past[d].shared => past'[d].shared
    PROVE  Seats'
<1>1. \A h \in Handles : Carrying(h)' = Carrying(h) /\ SeatedOf(h)' = SeatedOf(h)
  BY DEF Carrying, SeatedOf
<1> QED
  BY <1>1 DEF Seats, NotMoreThanSeated, HasSlot, Seated, Own

\* An admission takes a slot with the connection, or neither.
LEMMA SeatsAdmit ==
    ASSUME TypeOK, Order, Seats, NEW c \in Conns, SyncHandshake(c), Reached(ctx[c].handle) # {}
    PROVE  Seats'
<1>h. PICK h : h = ctx[c].handle
  OBVIOUS
<1>s. PICK s : s = First(FreeSlots)
  OBVIOUS
<1>1. /\ \A d \in Conns \ {c} : ctx'[d] = ctx[d] /\ past'[d] = past[d]
      /\ ctx[c].thread = "handshake" /\ ctx'[c].thread = "running" /\ ctx'[c].admitted
      /\ ctx'[c].handle = h /\ past'[c].seated = (FreeSlots # {})
      /\ past'[c].shared = past[c].shared
      /\ table' = AddSocketToArray(h)
  BY <1>h, AdmitEffect
<1>2. h \in Handles /\ ~ctx[c].admitted /\ h # None
  BY <1>1, <1>h, ConstantsAssumption DEF Order, Life, LifeOK
<1>3. FreeSlots \in SUBSET Nat /\ 0 \notin Slots
  BY ConstantsAssumption DEF FreeSlots
<1>4. (FreeSlots # {} => s \in FreeSlots) /\ (FreeSlots = {} => s = 0)
  BY <1>3, <1>s, FirstIsLeast
<1>5. \A i \in Slots : table'[i].socket = IF i = s THEN h ELSE table[i].socket
  BY <1>1, <1>s DEF AddSocketToArray, EmptySlot
<1>6. \A d \in Conns \ {c} : Admitted(d)' <=> Admitted(d)
  BY <1>1 DEF Admitted, Alive
<1>7. ~Admitted(c) /\ Admitted(c)'
  BY <1>1, <1>2 DEF Admitted, Alive
<1>8. ASSUME NEW g \in Handles, g # h \/ FreeSlots = {}
      PROVE  Carrying(g)' = Carrying(g) /\ SeatedOf(g)' = SeatedOf(g)
  <2>1. Carrying(g)' = Carrying(g)
    <3>1. CASE FreeSlots = {}
      BY <1>3, <1>4, <1>5, <3>1 DEF Carrying
    <3>2. CASE FreeSlots # {} /\ g # h
      <4>1. s \in Slots /\ table[s].socket # g
        BY <1>4, <3>2, ConstantsAssumption DEF FreeSlots
      <4> QED
        BY <1>5, <3>2, <4>1 DEF Carrying
    <3> QED
      BY <1>8, <3>1, <3>2
  <2>2. SeatedOf(g)' = SeatedOf(g)
    BY <1>1, <1>6, <1>7, <1>8 DEF SeatedOf
  <2> QED
    BY <2>1, <2>2
<1>9. CASE FreeSlots = {}
  <2>1. NotMoreThanSeated'
    BY <1>8, <1>9 DEF Seats, NotMoreThanSeated
  <2>2. \A i \in Slots : table'[i].socket = table[i].socket
    BY <1>3, <1>4, <1>5, <1>9
  <2>3. \A d \in Conns : Seated(d)' => Seated(d) /\ ctx'[d].handle = ctx[d].handle
    BY <1>1, <1>6, <1>9 DEF Seated, Own
  <2>4. HasSlot'
    BY <2>2, <2>3 DEF Seats, HasSlot
  <2> QED
    BY <2>1, <2>4 DEF Seats
<1>10. CASE FreeSlots # {}
  <2>1. s \in Slots /\ table[s].socket = None
    BY <1>4, <1>10 DEF FreeSlots
  <2>2. Carrying(h)' = Carrying(h) \cup {s} /\ s \notin Carrying(h)
    BY <1>2, <1>5, <2>1 DEF Carrying
  <2>3. SeatedOf(h)' = SeatedOf(h) \cup {c} /\ c \notin SeatedOf(h)
    BY <1>1, <1>6, <1>7, <1>10 DEF SeatedOf
  <2>4. Cardinality(Carrying(h)') = Cardinality(Carrying(h)) + 1
    BY <2>2, Finite, FS_AddElement
  <2>5. Cardinality(SeatedOf(h)') = Cardinality(SeatedOf(h)) + 1
    BY <2>3, Finite, FS_AddElement
  <2>6. Cardinality(Carrying(h)') <= Cardinality(SeatedOf(h)')
    BY <1>2, <2>4, <2>5, Finite DEF Seats, NotMoreThanSeated
  <2>7. NotMoreThanSeated'
    BY <1>8, <2>6 DEF Seats, NotMoreThanSeated
  <2>8. HasSlot'
    <3> SUFFICES ASSUME NEW d \in Conns, Seated(d)' PROVE \E i \in Slots : table'[i].socket = ctx'[d].handle
      BY DEF HasSlot
    <3>1. CASE d = c
      BY <1>1, <1>5, <2>1, <3>1
    <3>2. CASE d # c
      <4>1. Seated(d) /\ ctx'[d].handle = ctx[d].handle
        BY <1>1, <1>6, <3>2 DEF Seated, Own
      <4>2. PICK i \in Slots : table[i].socket = ctx[d].handle
        BY <4>1 DEF Seats, HasSlot
      <4>3. ctx[d].handle # None
        BY <4>1, ConstantsAssumption DEF Order, Life, LifeOK, Seated, Own, Admitted, Alive
      <4>4. i # s
        BY <2>1, <4>2, <4>3
      <4> QED
        BY <1>5, <4>1, <4>2, <4>4
    <3> QED
      BY <3>1, <3>2
  <2> QED
    BY <2>7, <2>8 DEF Seats
<1> QED
  BY <1>9, <1>10

\* The end of a connection changes its slot's socket, and in no slot anything else.
LEMMA DropTable ==
    ASSUME TypeOK, NEW c \in Conns, SyncDrop(c)
    PROVE  \/ /\ ctx[c].admitted /\ Slot(c) \in Slots
              /\ table[Slot(c)].socket = ctx[c].handle
              /\ table' = [table EXCEPT ![Slot(c)].socket = None]
              /\ \A i \in Slots : /\ table'[i].socket = IF i = Slot(c) THEN None ELSE table[i].socket
                                  /\ table'[i].id = table[i].id /\ table'[i].hello = table[i].hello
                                  /\ table'[i].helloSeen = table[i].helloSeen
              /\ heard' = [d \in Conns |-> [i \in Ids |->
                            IF d \in Everyone([table EXCEPT ![Slot(c)].socket = None])
                                 /\ i = table[Slot(c)].id
                            THEN None ELSE heard[d][i]]]
           \/ /\ UNCHANGED <<table, heard>>
              /\ ctx[c].admitted => \A i \in Slots : table[i].socket # ctx[c].handle
<1> DEFINE s == DeletedSlot(c)
<1>1. s = Slot(c)
  BY DEF DeletedSlot, Slot
<1>2. CASE ~ctx[c].admitted
  BY <1>2 DEF SyncDrop
<1>3. CASE ctx[c].admitted /\ s = 0
  <2>1. \A i \in Slots : table[i].socket # ctx[c].handle
    BY <1>3, SlotLookup DEF DeletedSlot
  <2> QED
    BY <1>3, <2>1 DEF SyncDrop, DeleteSocketFromArray
<1>4. CASE ctx[c].admitted /\ s # 0
  <2>1. s \in Slots /\ table[s].socket = ctx[c].handle
    BY <1>4, SlotLookup DEF DeletedSlot
  <2>2. /\ table' = [table EXCEPT ![s].socket = None]
        /\ heard' = [d \in Conns |-> [i \in Ids |->
                      IF d \in Everyone([table EXCEPT ![s].socket = None]) /\ i = table[s].id
                      THEN None ELSE heard[d][i]]]
    BY <1>4 DEF SyncDrop, DeleteSocketFromArray
  <2> HIDE DEF s
  <2>3. \A i \in Slots : /\ table'[i].socket = IF i = s THEN None ELSE table[i].socket
                         /\ table'[i].id = table[i].id /\ table'[i].hello = table[i].hello
                         /\ table'[i].helloSeen = table[i].helloSeen
    BY <2>1, <2>2 DEF TypeOK, Entries
  <2> QED
    BY <1>1, <1>4, <2>1, <2>2, <2>3
<1> QED
  BY <1>2, <1>3, <1>4

\* Its end gives the slot back.
LEMMA SeatsDrop ==
    ASSUME TypeOK, Order, Seats, NEW c \in Conns, SyncDrop(c)
    PROVE  Seats'
<1>h. PICK h : h = ctx[c].handle
  OBVIOUS
<1>s. PICK s : s = Slot(c)
  OBVIOUS
<1>1. /\ \A d \in Conns \ {c} : ctx'[d] = ctx[d]
      /\ ctx[c].thread = "ending" /\ ctx'[c].thread = "done"
      /\ UNCHANGED past
  BY DropEffect
<1>2. ~Admitted(c)' /\ \A d \in Conns \ {c} : Admitted(d)' <=> Admitted(d)
  BY <1>1 DEF Admitted, Alive
<1>3. \A g : g # h \/ ~ctx[c].admitted => SeatedOf(g)' = SeatedOf(g)
  BY <1>h, <1>1, <1>2 DEF SeatedOf, Admitted
<1>4. SeatedOf(h)' = SeatedOf(h) \ {c}
  BY <1>h, <1>1, <1>2 DEF SeatedOf
<1>5. CASE UNCHANGED table /\ (ctx[c].admitted => \A i \in Slots : table[i].socket # h)
  <2>1. \A g : Carrying(g)' = Carrying(g)
    BY <1>5 DEF Carrying
  <2>2. NotMoreThanSeated'
    <3> SUFFICES ASSUME NEW g \in Handles PROVE Cardinality(Carrying(g)') <= Cardinality(SeatedOf(g)')
      BY DEF NotMoreThanSeated
    <3>1. CASE g # h \/ ~ctx[c].admitted
      BY <1>3, <2>1, <3>1 DEF Seats, NotMoreThanSeated
    <3>2. CASE g = h /\ ctx[c].admitted
      <4>1. Carrying(g)' = {}
        BY <1>5, <2>1, <3>2 DEF Carrying
      <4>2. Cardinality(Carrying(g)') = 0
        BY <4>1, FS_EmptySet
      <4>3. Cardinality(SeatedOf(g) \ {c}) \in Nat
        BY Finite, FS_RemoveElement, FS_CardinalityType
      <4> QED
        BY <1>4, <3>2, <4>2, <4>3
    <3> QED
      BY <3>1, <3>2
  <2>3. HasSlot'
    BY <1>1, <1>2, <1>5 DEF Seats, HasSlot, Seated, Own
  <2> QED
    BY <2>2, <2>3 DEF Seats
<1>6. CASE /\ ctx[c].admitted /\ s \in Slots /\ table[s].socket = h
           /\ \A i \in Slots : table'[i].socket = IF i = s THEN None ELSE table[i].socket
  <2>1. \A g \in Handles : Carrying(g)' = IF g = h THEN Carrying(g) \ {s} ELSE Carrying(g)
    BY <1>6, ConstantsAssumption DEF Carrying
  <2>2. s \in Carrying(h)
    BY <1>6 DEF Carrying
  <2>3. NotMoreThanSeated'
    <3> SUFFICES ASSUME NEW g \in Handles PROVE Cardinality(Carrying(g)') <= Cardinality(SeatedOf(g)')
      BY DEF NotMoreThanSeated
    <3>1. CASE g # h
      BY <1>3, <2>1, <3>1 DEF Seats, NotMoreThanSeated
    <3>2. CASE g = h
      <4>1. Cardinality(Carrying(g) \ {s}) = Cardinality(Carrying(g)) - 1
        BY <2>2, <3>2, Finite, FS_RemoveElement
      <4>2. Cardinality(SeatedOf(g) \ {c}) >= Cardinality(SeatedOf(g)) - 1
        <5>1. IsFiniteSet(SeatedOf(g)) /\ Cardinality(SeatedOf(g)) \in Nat
          BY Finite
        <5>2. Cardinality(SeatedOf(g) \ {c}) =
                IF c \in SeatedOf(g) THEN Cardinality(SeatedOf(g)) - 1 ELSE Cardinality(SeatedOf(g))
          BY <5>1, FS_RemoveElement
        <5> QED
          BY <5>1, <5>2
      <4>3. Cardinality(SeatedOf(g) \ {c}) \in Nat
        BY Finite, FS_RemoveElement, FS_CardinalityType
      <4> QED
        BY <1>4, <2>1, <3>2, <4>1, <4>2, <4>3, Finite DEF Seats, NotMoreThanSeated
    <3> QED
      BY <3>1, <3>2
  <2>4. HasSlot'
    <3> SUFFICES ASSUME NEW d \in Conns, Seated(d)' PROVE \E i \in Slots : table'[i].socket = ctx'[d].handle
      BY DEF HasSlot
    <3>1. d # c /\ Seated(d) /\ ctx'[d] = ctx[d]
      BY <1>1, <1>2 DEF Seated, Own
    <3>2. PICK i \in Slots : table[i].socket = ctx[d].handle
      BY <3>1 DEF Seats, HasSlot
    <3>3. Admitted(c)
      BY <1>1, <1>6 DEF Admitted, Alive
    <3>4. ctx[d].handle # h
      BY <1>h, <3>1, <3>3, Alone DEF Seated
    <3>5. i # s
      BY <1>6, <3>2, <3>4
    <3> QED
      BY <1>6, <3>1, <3>2, <3>5
  <2> QED
    BY <2>3, <2>4 DEF Seats
<1> QED
  BY <1>h, <1>s, <1>5, <1>6, DropTable

\* The operator's Stop returns when no connection is left, and empties every slot.
LEMMA StopEmpties ==
    ASSUME TypeOK, StopReturns
    PROVE  /\ \A i \in Slots : table'[i].socket = None
           /\ \A c \in Conns : ~Alive(c)' /\ UNCHANGED <<ctx, past, heard>>
  BY DEF StopReturns, TypeOK, Entries, Alive

\* A quiet step changes nobody's standing.
LEMMA QuietStands ==
    ASSUME Quiet, NEW c \in Conns
    PROVE  /\ Admitted(c)' <=> Admitted(c)
           /\ Own(c)' <=> Own(c)
           /\ Seated(c)' <=> Seated(c)
           /\ Settled(c)' => Settled(c)
  BY DEF Quiet, Admitted, Own, Seated, Settled

\* The steps of the client table, by what they do to it.
LEMMA Kinds ==
    ASSUME TypeOK, Order, [Next]_vars
    PROVE  \/ Quiet
           \/ \E c \in Conns, h \in Handles, id \in Ids : Accept(c, h, id)
           \/ \E c \in Conns : SyncHandshake(c) /\ Reached(ctx[c].handle) # {}
           \/ \E c \in Conns, k \in Contests : AcceptHello(c, k)
           \/ \E c \in Conns : SyncDrop(c)
           \/ StopReturns
<1>1. CASE UNCHANGED vars
  BY <1>1 DEF vars, Quiet, Alive
<1>2. ASSUME NEW c \in Conns, FromOwnThread(c) PROVE Quiet
  BY <1>2, ThreadEffect
<1>3. ASSUME NEW c \in Conns, WrongPassword(c) \/ AcceptHelloOfAnotherProtocol(c) PROVE Quiet
  BY <1>3, MarkEffect DEF WrongPassword, AcceptHelloOfAnotherProtocol
<1>4. ASSUME NEW c \in Conns, OtherMessage(c) PROVE Quiet
  BY <1>4, OtherEffect
<1>5. ASSUME NEW c \in Conns, SyncHandshake(c), Reached(ctx[c].handle) = {} PROVE Quiet
  BY <1>5, MarkEffect DEF SyncHandshake
<1>6. CASE StopServer
  BY <1>6, StopEffect
<1>7. CASE RunServer
  BY <1>7 DEF RunServer, Quiet, Alive
<1> QED
  BY <1>1, <1>2, <1>3, <1>4, <1>5, <1>6, <1>7 DEF Next, FromMainThread

\* The slots stay counted.
LEMMA SeatsStep == TypeOK /\ Order /\ Seats /\ [Next]_vars => Seats'
<1> SUFFICES ASSUME TypeOK, Order, Seats, [Next]_vars PROVE Seats'
  OBVIOUS
<1>1. CASE Quiet
  <2>1. \A d \in Conns : Admitted(d)' <=> Admitted(d)
    BY <1>1, QuietStands
  <2> QED
    BY <1>1, <2>1, SeatsSame DEF Quiet
<1>2. ASSUME NEW c \in Conns, NEW h \in Handles, NEW id \in Ids, Accept(c, h, id) PROVE Seats'
  <2>1. /\ \A d \in Conns \ {c} : ctx'[d] = ctx[d]
        /\ ~ctx'[c].admitted /\ ctx[c].thread = "absent"
        /\ \A d \in Conns : past'[d].seated = past[d].seated /\ (past[d].shared => past'[d].shared)
        /\ UNCHANGED table
    <3>1. ctx[c].thread = "absent" /\ UNCHANGED table BY <1>2 DEF Accept
    <3> QED BY <1>2, <3>1, AcceptEffect
  <2>2. \A d \in Conns : Admitted(d)' <=> Admitted(d)
    BY <2>1 DEF Admitted, Alive
  <2>3. ~Admitted(c)'
    BY <2>1 DEF Admitted
  <2>4. \A d \in Conns : ctx'[d].handle = ctx[d].handle \/ ~Admitted(d)'
    BY <2>1, <2>3
  <2> QED
    BY <2>1, <2>2, <2>4, SeatsSame
<1>3. ASSUME NEW c \in Conns, NEW k \in Contests, AcceptHello(c, k) PROVE Seats'
  <2>1. /\ UNCHANGED ctx /\ \A i \in Slots : table'[i].socket = table[i].socket
        /\ \A d \in Conns \ {c} : past'[d] = past[d]
        /\ past'[c].seated = past[c].seated /\ past'[c].shared = past[c].shared
    BY <1>3, HelloEffect
  <2>2. \A d \in Conns : past'[d].seated = past[d].seated /\ past'[d].shared = past[d].shared
    BY <2>1
  <2>3. \A d \in Conns : Admitted(d)' <=> Admitted(d)
    BY <2>1 DEF Admitted, Alive
  <2> QED
    BY <2>1, <2>2, <2>3, SeatsSame
<1>4. CASE StopReturns
  <2>1. \A h \in Handles : Carrying(h)' = {}
    BY <1>4, StopEmpties, ConstantsAssumption DEF Carrying
  <2>2. \A h \in Handles : SeatedOf(h)' = {}
    BY <1>4, StopEmpties DEF SeatedOf, Admitted
  <2>3. NotMoreThanSeated'
    BY <2>1, <2>2, FS_EmptySet DEF NotMoreThanSeated
  <2>4. HasSlot'
    BY <1>4, StopEmpties DEF HasSlot, Seated, Own, Admitted
  <2> QED
    BY <2>3, <2>4 DEF Seats
<1> QED
  BY <1>1, <1>2, <1>3, <1>4, SeatsAdmit, SeatsDrop, Kinds

(***************************************************************************)
(* What a slot holds is what its station has said.                         *)
(***************************************************************************)

Fits(c, i) ==
    /\ table[i].helloSeen <=> (past[c].announced # None \/ past[c].refused)
    /\ past[c].announced # None => table[i].id = ctx[c].id /\ table[i].hello = past[c].announced
    /\ past[c].announced = None => table[i].id = None /\ table[i].hello = None
SlotFits == \A c \in Conns, i \in Slots : Seated(c) /\ table[i].socket = ctx[c].handle => Fits(c, i)

\* An id that no connection which shared its handle has: where handles were shared, a freed
\* slot may have been another's.
Clean(id) == \A d \in Conns : past[d].shared => ctx[d].id # id
IdIsHeld == \A i \in Holders(table) : table[i].id # None /\ Clean(table[i].id) =>
    \E d \in Conns : Seated(d) /\ ctx[d].handle = table[i].socket /\ ctx[d].id = table[i].id

Ground == TypeOK /\ Order /\ Seats /\ IdsAreUnique

\* After an arrival everybody else stands as before, and who is not marked now never was.
LEMMA AcceptStands ==
    ASSUME TypeOK, Order, NEW c \in Conns, NEW h \in Handles, NEW id \in Ids, Accept(c, h, id)
    PROVE  /\ ~Admitted(c)' /\ ~Admitted(c) /\ ~Settled(c)' /\ Greeting(c)'
           /\ \A d \in Conns : Seated(d)' => Seated(d) /\ d # c /\ ctx'[d] = ctx[d]
           /\ \A d \in Conns : Settled(d)' => Settled(d) /\ d # c /\ ctx'[d] = ctx[d]
           /\ \A x : Clean(x)' => Clean(x)
           /\ \A x : \A d \in Conns : Seated(d) /\ ctx[d].id = x /\ Clean(x)' => Seated(d)'
           /\ \A d \in Conns : /\ past'[d].announced = past[d].announced
                               /\ past'[d].refused = past[d].refused /\ past'[d].met = past[d].met
<1>1. /\ \A d \in Conns \ {c} : ctx'[d] = ctx[d]
      /\ ctx'[c].thread = "handshake" /\ ~ctx'[c].admitted
      /\ \A d \in Conns : /\ past'[d].seated = past[d].seated /\ past'[d].met = past[d].met
                          /\ past'[d].announced = past[d].announced /\ past'[d].refused = past[d].refused
                          /\ past[d].shared => past'[d].shared
  BY AcceptEffect
<1>2. ctx[c].thread = "absent" /\ ~past[c].shared /\ ~ctx[c].admitted
  BY DEF Accept, Order, Life, LifeOK
<1>3. \A d \in Conns \ {c} : Admitted(d)' <=> Admitted(d)
  BY <1>1 DEF Admitted, Alive
<1>4. ~Admitted(c)' /\ ~Admitted(c) /\ ~Settled(c)' /\ Greeting(c)'
  BY <1>1, <1>2 DEF Admitted, Settled, Greeting
<1>5. \A d \in Conns : Seated(d)' => Seated(d) /\ d # c /\ ctx'[d] = ctx[d]
  BY <1>1, <1>3, <1>4 DEF Seated, Own
<1>6. \A d \in Conns : Settled(d)' => Settled(d) /\ d # c /\ ctx'[d] = ctx[d]
  BY <1>1, <1>4 DEF Settled
<1>7. \A x : Clean(x)' => Clean(x)
  BY <1>1, <1>2 DEF Clean
<1>8. ASSUME NEW d \in Conns, NEW x, Seated(d), ctx[d].id = x, Clean(x)' PROVE Seated(d)'
  <2>1. d # c
    BY <1>4, <1>8 DEF Seated, Own
  <2>2. ctx'[d] = ctx[d]
    BY <1>1, <2>1
  <2>3. ~past'[d].shared
    BY <1>8, <2>2 DEF Clean
  <2> QED
    BY <1>1, <1>3, <1>8, <2>1, <2>3 DEF Seated, Own
<1> QED
  BY <1>1, <1>4, <1>5, <1>6, <1>7, <1>8

\* After an admission the newcomer stands where the door put it, the others as before.
LEMMA AdmitStands ==
    ASSUME TypeOK, Order, Seats, NEW c \in Conns, SyncHandshake(c), Reached(ctx[c].handle) # {}
    PROVE  /\ ~Seated(c) /\ ~Settled(c)
           /\ \A d \in Conns \ {c} : /\ Seated(d)' <=> Seated(d)
                                     /\ Settled(d)' <=> Settled(d)
                                     /\ Own(d) => ctx[d].handle # ctx[c].handle
           /\ Own(c)' => \A i \in Slots : table[i].socket # ctx[c].handle
           /\ \A i \in Slots : \/ table'[i] = table[i]
                               \/ /\ table[i].socket = None /\ table'[i].socket = ctx[c].handle
                                  /\ ~table'[i].helloSeen /\ table'[i].id = None /\ table'[i].hello = None
           /\ \A x : Clean(x)' <=> Clean(x)
<1>1. /\ \A d \in Conns \ {c} : ctx'[d] = ctx[d] /\ past'[d] = past[d]
      /\ ctx[c].thread = "handshake" /\ ctx'[c].thread = "running" /\ ctx'[c].admitted
      /\ ctx'[c].handle = ctx[c].handle /\ ctx'[c].id = ctx[c].id
      /\ past'[c].shared = past[c].shared
      /\ table' = AddSocketToArray(ctx[c].handle)
  BY AdmitEffect
<1>2. ~ctx[c].admitted /\ ctx[c].handle \in Handles
  BY <1>1 DEF Order, Life, LifeOK
<1>3. \A d \in Conns \ {c} : /\ Seated(d)' <=> Seated(d)
                             /\ Settled(d)' <=> Settled(d)
  BY <1>1 DEF Seated, Own, Admitted, Alive, Settled
<1>4. ~Seated(c) /\ ~Settled(c)
  BY <1>1, <1>2 DEF Seated, Own, Admitted, Settled
<1>5. \A d \in Conns \ {c} : Own(d) => ctx[d].handle # ctx[c].handle
  BY <1>1, AloneAtTheDoor DEF Own, Greeting
<1>6. ASSUME Own(c)' PROVE \A i \in Slots : table[i].socket # ctx[c].handle
  <2>1. ~past[c].shared
    BY <1>1, <1>6 DEF Own
  <2>2. SeatedOf(ctx[c].handle) = {}
    BY <1>1, <2>1, AloneAtTheDoor DEF SeatedOf, Greeting
  <2> QED
    BY <1>2, <2>2, NoSeatNoSlot DEF Seats, Carrying
<1>7. \A i \in Slots : \/ table'[i] = table[i]
                       \/ /\ table[i].socket = None /\ table'[i].socket = ctx[c].handle
                          /\ ~table'[i].helloSeen /\ table'[i].id = None /\ table'[i].hello = None
  <2>1. FreeSlots \in SUBSET Nat /\ 0 \notin Slots
    BY ConstantsAssumption DEF FreeSlots
  <2>2. First(FreeSlots) \in Slots => table[First(FreeSlots)].socket = None
    BY <2>1, FirstIsLeast DEF FreeSlots
  <2> QED
    BY <1>1, <2>2 DEF AddSocketToArray, EmptySlot
<1>8. \A x : Clean(x)' <=> Clean(x)
  BY <1>1 DEF Clean
<1> QED
  BY <1>3, <1>4, <1>5, <1>6, <1>7, <1>8

\* After a HELLO everybody stands as before; whose slot it was, if its handle was never
\* another's, was seated.
LEMMA HelloStands ==
    ASSUME Ground, NEW c \in Conns, NEW k \in Contests, AcceptHello(c, k)
    PROVE  /\ \A d \in Conns : /\ Own(d)' <=> Own(d)
                               /\ Seated(d)' <=> Seated(d)
                               /\ Settled(d)' <=> Settled(d)
                               /\ ctx'[d] = ctx[d]
           /\ Admitted(c)
           /\ ~past[c].shared => /\ Seated(c)
                                 /\ \A i \in Slots : table[i].socket = ctx[c].handle => i = Slot(c)
           /\ \A d \in Conns \ {c} : Own(d) => ctx[d].handle # ctx[c].handle
           /\ \A x : Clean(x)' <=> Clean(x)
<1>1. /\ Slot(c) \in Slots /\ ctx[c].thread = "running" /\ UNCHANGED ctx
      /\ \A d \in Conns \ {c} : past'[d] = past[d]
      /\ past'[c].seated = past[c].seated /\ past'[c].shared = past[c].shared
  BY HelloEffect DEF Ground
<1>2. Admitted(c)
  BY <1>1 DEF Ground, Order, Life, LifeOK, Admitted, Alive
<1>3. \A d \in Conns : past'[d].seated = past[d].seated /\ past'[d].shared = past[d].shared
  BY <1>1
<1>4. \A d \in Conns : /\ Own(d)' <=> Own(d)
                       /\ Seated(d)' <=> Seated(d)
                       /\ Settled(d)' <=> Settled(d)
                       /\ ctx'[d] = ctx[d]
  <2>1. \A d \in Conns : ctx'[d] = ctx[d]
    BY <1>1
  <2>2. \A d \in Conns : Admitted(d)' <=> Admitted(d)
    BY <2>1 DEF Admitted, Alive
  <2>3. \A d \in Conns : Own(d)' <=> Own(d)
    BY <1>3, <2>2 DEF Own
  <2>4. \A d \in Conns : Seated(d)' <=> Seated(d)
    BY <1>3, <2>3 DEF Seated
  <2>5. \A d \in Conns : Settled(d)' <=> Settled(d)
    BY <1>3, <2>1 DEF Settled
  <2> QED
    BY <2>1, <2>3, <2>4, <2>5
<1>5. ASSUME ~past[c].shared
      PROVE  Seated(c) /\ \A i \in Slots : table[i].socket = ctx[c].handle => i = Slot(c)
  <2>1. Own(c) /\ 0 \notin Slots
    BY <1>2, <1>5, SlotLookup DEF Own
  <2>2. past[c].seated
    BY <1>1, <2>1, OwnSlot DEF Ground
  <2>3. Seated(c)
    BY <2>1, <2>2 DEF Seated
  <2> QED
    BY <2>1, <2>3, OwnSlot DEF Ground
<1>6. \A d \in Conns \ {c} : Own(d) => ctx[d].handle # ctx[c].handle
  BY <1>2, Alone DEF Ground
<1>7. \A x : Clean(x)' <=> Clean(x)
  BY <1>1, <1>3 DEF Clean
<1> QED
  BY <1>2, <1>4, <1>5, <1>6, <1>7

\* After a connection's end the others stand as before.
LEMMA DropStands ==
    ASSUME Ground, NEW c \in Conns, SyncDrop(c)
    PROVE  /\ ~Admitted(c)'
           /\ \A d \in Conns : /\ Seated(d)' => Seated(d) /\ d # c
                               /\ Seated(d) /\ d # c => Seated(d)'
                               /\ Settled(d)' => Settled(d) /\ d # c
                               /\ ctx'[d].handle = ctx[d].handle /\ ctx'[d].id = ctx[d].id
                               /\ ctx'[d].open = ctx[d].open
           /\ \A x : Clean(x)' <=> Clean(x)
<1>1. /\ \A d \in Conns \ {c} : ctx'[d] = ctx[d]
      /\ ctx'[c].thread = "done"
      /\ ctx'[c].handle = ctx[c].handle /\ ctx'[c].id = ctx[c].id
      /\ ctx'[c].open = ctx[c].open
      /\ UNCHANGED past
  BY DropEffect DEF Ground
<1>2. ~Admitted(c)' /\ ~Settled(c)' /\ ~Seated(c)'
  BY <1>1 DEF Admitted, Alive, Settled, Seated, Own
<1>3. \A d \in Conns \ {c} : /\ Seated(d)' <=> Seated(d)
                             /\ Settled(d)' <=> Settled(d)
  BY <1>1 DEF Seated, Own, Admitted, Alive, Settled
<1>4. \A x : Clean(x)' <=> Clean(x)
  BY <1>1 DEF Clean
<1>5. \A d \in Conns : /\ ctx'[d].handle = ctx[d].handle /\ ctx'[d].id = ctx[d].id
                       /\ ctx'[d].open = ctx[d].open
  BY <1>1
<1> QED
  BY <1>2, <1>3, <1>4, <1>5

\* What a connection has said is in its slot.
LEMMA FitsStep == Ground /\ SlotFits /\ [Next]_vars => SlotFits'
<1> SUFFICES ASSUME Ground, SlotFits, [Next]_vars PROVE SlotFits'
  OBVIOUS
<1> TypeOK /\ Order /\ Seats
  BY DEF Ground
<1> SUFFICES ASSUME NEW c \in Conns, NEW i \in Slots, Seated(c)', table'[i].socket = ctx'[c].handle
             PROVE  Fits(c, i)'
  BY DEF SlotFits
<1>1. CASE Quiet
  <2>1. Seated(c) /\ table[i].socket = ctx[c].handle
    BY <1>1, QuietStands DEF Quiet
  <2> QED
    BY <1>1, <2>1 DEF SlotFits, Fits, Quiet
<1>2. ASSUME NEW x \in Conns, NEW h \in Handles, NEW id \in Ids, Accept(x, h, id) PROVE Fits(c, i)'
  <2>1. Seated(c) /\ c # x /\ ctx'[c] = ctx[c]
    BY <1>2, AcceptStands
  <2>2. /\ past'[c].announced = past[c].announced /\ past'[c].refused = past[c].refused
        /\ UNCHANGED table
    BY <1>2, AcceptEffect
  <2> QED
    BY <2>1, <2>2 DEF SlotFits, Fits
<1>3. ASSUME NEW x \in Conns, SyncHandshake(x), Reached(ctx[x].handle) # {} PROVE Fits(c, i)'
  <2>1. /\ \A d \in Conns \ {x} : ctx'[d] = ctx[d] /\ past'[d] = past[d]
        /\ ctx[x].thread = "handshake" /\ ctx'[x].handle = ctx[x].handle
        /\ past'[x].announced = past[x].announced /\ past'[x].refused = past[x].refused
    BY <1>3, AdmitEffect
  <2>2. \/ table'[i] = table[i]
        \/ /\ table[i].socket = None /\ table'[i].socket = ctx[x].handle
           /\ ~table'[i].helloSeen /\ table'[i].id = None /\ table'[i].hello = None
    BY <1>3, AdmitStands
  <2>3. CASE c = x
    <3>1. table[i].socket # ctx[x].handle
      BY <1>3, <2>3, AdmitStands DEF Seated
    <3>2. Untouched(x)
      BY <2>1 DEF Order, Life, LifeOK
    <3> QED
      BY <2>1, <2>2, <2>3, <3>1, <3>2 DEF Fits, Untouched
  <2>4. CASE c # x
    <3>1. Seated(c) /\ ctx[c].handle # ctx[x].handle
      BY <1>3, <2>4, AdmitStands DEF Seated
    <3>2. table'[i] = table[i]
      BY <2>1, <2>2, <2>4, <3>1
    <3> QED
      BY <2>1, <2>4, <3>1, <3>2 DEF SlotFits, Fits
  <2> QED
    BY <2>3, <2>4
<1>4. ASSUME NEW x \in Conns, NEW k \in Contests, AcceptHello(x, k) PROVE Fits(c, i)'
  <2>1. Seated(c) /\ ctx'[c] = ctx[c] /\ table[i].socket = ctx[c].handle
    BY <1>4, HelloStands, HelloEffect
  <2>2. Fits(c, i)
    BY <2>1 DEF SlotFits
  <2>3. CASE c = x
    <3>1. i = Slot(x)
      BY <1>4, <2>1, <2>3, HelloStands DEF Seated, Own
    <3>2. k # None
      BY ConstantsAssumption
    <3> QED
      BY <1>4, <2>1, <2>2, <2>3, <3>1, <3>2, HelloEffect DEF Fits
  <2>4. CASE c # x
    <3>1. i # Slot(x) /\ past'[c] = past[c]
      BY <1>4, <2>1, <2>4, HelloStands, HelloEffect DEF Seated
    <3>2. table'[i] = table[i]
      BY <1>4, <3>1, HelloEffect
    <3> QED
      BY <2>1, <2>2, <3>1, <3>2 DEF Fits
  <2> QED
    BY <2>3, <2>4
<1>5. ASSUME NEW x \in Conns, SyncDrop(x) PROVE Fits(c, i)'
  <2>1. Seated(c) /\ c # x /\ ctx'[c].handle = ctx[c].handle /\ ctx'[c].id = ctx[c].id
    BY <1>5, DropStands
  <2>2. ctx[c].handle # None /\ UNCHANGED past
    BY <1>5, <2>1, DropEffect, ConstantsAssumption DEF Order, Life, LifeOK, Seated, Own, Admitted, Alive
  <2>3. /\ table'[i].id = table[i].id /\ table'[i].hello = table[i].hello
        /\ table'[i].helloSeen = table[i].helloSeen
        /\ table'[i].socket = table[i].socket \/ table'[i].socket = None
    BY <1>5, DropTable
  <2> QED
    BY <2>1, <2>2, <2>3 DEF SlotFits, Fits
<1>6. CASE StopReturns
  BY <1>6, StopEmpties DEF Seated, Own, Admitted
<1> QED
  BY <1>1, <1>2, <1>3, <1>4, <1>5, <1>6, Kinds

\* Nothing of a station is handled before its HELLO: a slot it did not open is shut.
LEMMA HelloFirstStep == Ground /\ SlotFits /\ HelloComesFirst /\ [Next]_vars => HelloComesFirst'
<1> SUFFICES ASSUME Ground, SlotFits, HelloComesFirst, [Next]_vars,
                    NEW c \in Conns, past'[c].seated, ~past'[c].shared
             PROVE  ~past'[c].early
  BY DEF HelloComesFirst
<1> TypeOK /\ Order /\ Seats
  BY DEF Ground
<1>1. CASE past'[c].early = past[c].early /\ past'[c].seated = past[c].seated
           /\ (past[c].shared => past'[c].shared)
  BY <1>1 DEF HelloComesFirst
<1>2. ASSUME NEW x \in Conns, SyncHandshake(x), Reached(ctx[x].handle) # {} PROVE ~past'[c].early
  <2>1. CASE c = x
    BY <1>2, <2>1, AdmitEffect DEF Order, Life, LifeOK, Untouched
  <2>2. CASE c # x
    BY <1>1, <1>2, <2>2, AdmitEffect
  <2> QED
    BY <2>1, <2>2
<1>3. ASSUME NEW x \in Conns, OtherMessage(x) PROVE ~past'[c].early
  <2>1. past'[c].seated = past[c].seated /\ past'[c].shared = past[c].shared
    BY <1>3, OtherEffect DEF Quiet
  <2>2. CASE c # x
    BY <1>1, <1>3, <2>1, <2>2, OtherEffect
  <2>3. CASE c = x
    <3>1. SUFFICES ASSUME past'[c].early, ~past[c].early PROVE FALSE
      BY <2>1 DEF HelloComesFirst
    <3>2. MessageAllowedNow(Slot(c)) /\ past[c].announced = None /\ ~past[c].refused
      BY <1>3, <2>3, <3>1, OtherEffect
    <3>3. Seated(c)
      BY <1>3, <2>1, <2>3 DEF OtherMessage, Parsing, Order, Life, LifeOK, Seated, Own, Admitted, Alive
    <3>4. Slot(c) \in Slots /\ Slot(c) # 0 /\ table[Slot(c)].socket = ctx[c].handle
      BY <3>3, OwnSlot, SlotLookup DEF Seated
    <3>5. ~table[Slot(c)].helloSeen
      BY <3>2, <3>3, <3>4 DEF SlotFits, Fits
    <3> QED
      BY <3>2, <3>4, <3>5 DEF MessageAllowedNow
  <2> QED
    BY <2>2, <2>3
<1>4. ASSUME NEW x \in Conns, NEW h \in Handles, NEW id \in Ids, Accept(x, h, id) PROVE ~past'[c].early
  BY <1>1, <1>4, AcceptEffect
<1>5. ASSUME NEW x \in Conns, NEW k \in Contests, AcceptHello(x, k) PROVE ~past'[c].early
  <2>1. past'[c].early = past[c].early /\ past'[c].seated = past[c].seated /\ past'[c].shared = past[c].shared
    BY <1>5, HelloEffect
  <2> QED
    BY <1>1, <2>1
<1>6. ASSUME NEW x \in Conns, SyncDrop(x) PROVE ~past'[c].early
  BY <1>1, <1>6, DropEffect
<1>7. ASSUME NEW x \in Conns, FromOwnThread(x) PROVE ~past'[c].early
  BY <1>1, <1>7, ThreadEffect
<1>8. ASSUME NEW x \in Conns,
             \/ WrongPassword(x) \/ AcceptHelloOfAnotherProtocol(x)
             \/ SyncHandshake(x) /\ Reached(ctx[x].handle) = {}
      PROVE  ~past'[c].early
  <2>1. Quiet /\ past'[c].early = past[c].early
    BY <1>8, MarkEffect DEF WrongPassword, AcceptHelloOfAnotherProtocol, SyncHandshake
  <2> QED
    BY <1>1, <2>1 DEF Quiet
<1>9. CASE UNCHANGED past
  BY <1>1, <1>9
<1> QED
  BY <1>2, <1>3, <1>4, <1>5, <1>6, <1>7, <1>8, <1>9
     DEF Next, FromMainThread, StopServer, StopReturns, RunServer, vars

\* An id in a connected slot is that of a connection behind it.
LEMMA HeldStep == Ground /\ SlotFits /\ IdIsHeld /\ [Next]_vars => IdIsHeld'
<1> SUFFICES ASSUME Ground, SlotFits, IdIsHeld, [Next]_vars,
                    NEW i \in Slots, NEW v, table'[i].id = v,
                    table'[i].socket # None, v # None, Clean(v)'
             PROVE  \E d \in Conns : /\ Seated(d)' /\ ctx'[d].handle = table'[i].socket
                                     /\ ctx'[d].id = v
  BY DEF IdIsHeld, Holders, Clean
<1> DEFINE Held == \E d \in Conns : /\ Seated(d)' /\ ctx'[d].handle = table'[i].socket
                                    /\ ctx'[d].id = v
<1> TypeOK /\ Order /\ Seats
  BY DEF Ground
<1>0. ASSUME table'[i].socket = table[i].socket, table[i].id = v, Clean(v)
      PROVE  \E d \in Conns : Seated(d) /\ ctx[d].handle = table[i].socket /\ ctx[d].id = v
  BY <1>0 DEF IdIsHeld, Holders
<1>1. CASE Quiet
  <2>1. Clean(v)
    BY <1>1 DEF Quiet, Clean
  <2>2. PICK d \in Conns : Seated(d) /\ ctx[d].handle = table[i].socket /\ ctx[d].id = v
    BY <1>0, <1>1, <2>1 DEF Quiet
  <2>3. Seated(d)' /\ ctx'[d].handle = table'[i].socket /\ ctx'[d].id = v
    BY <1>1, <2>2, QuietStands DEF Quiet
  <2> QED
    BY <2>3
<1>2. ASSUME NEW x \in Conns, NEW h \in Handles, NEW id \in Ids, Accept(x, h, id) PROVE Held
  <2>1. Clean(v) /\ UNCHANGED table
    BY <1>2, AcceptStands, AcceptEffect
  <2>2. PICK d \in Conns : Seated(d) /\ ctx[d].handle = table[i].socket /\ ctx[d].id = v
    BY <1>0, <2>1
  <2>3. Seated(d)'
    BY <1>2, <2>2, AcceptStands
  <2>4. ctx'[d] = ctx[d]
    BY <1>2, <2>3, AcceptStands
  <2> QED
    BY <2>1, <2>2, <2>3, <2>4
<1>3. ASSUME NEW x \in Conns, SyncHandshake(x), Reached(ctx[x].handle) # {} PROVE Held
  <2>1. Clean(v) /\ table'[i] = table[i]
    BY <1>3, AdmitStands
  <2>2. PICK d \in Conns : Seated(d) /\ ctx[d].handle = table[i].socket /\ ctx[d].id = v
    BY <1>0, <2>1
  <2>3. d # x /\ ctx'[d] = ctx[d]
    BY <1>3, <2>2, AdmitStands, AdmitEffect
  <2>4. Seated(d)'
    BY <1>3, <2>2, <2>3, AdmitStands
  <2> QED
    BY <2>1, <2>2, <2>3, <2>4
<1>4. ASSUME NEW x \in Conns, NEW k \in Contests, AcceptHello(x, k) PROVE Held
  <2>1. Clean(v)
    BY <1>4, HelloStands
  <2>2. CASE i = Slot(x) /\ v = ctx[x].id
    <3>1. ~past[x].shared
      BY <2>1, <2>2 DEF Clean
    <3>2. Seated(x)' /\ ctx'[x] = ctx[x] /\ table'[i].socket = ctx[x].handle
      BY <1>4, <2>2, <3>1, HelloStands, HelloEffect
    <3> QED
      BY <2>2, <3>2
  <2>3. CASE table[i].id = v /\ table'[i].socket = table[i].socket
    <3>1. PICK d \in Conns : Seated(d) /\ ctx[d].handle = table[i].socket /\ ctx[d].id = v
      BY <1>0, <2>1, <2>3
    <3>2. Seated(d)' /\ ctx'[d] = ctx[d]
      BY <1>4, <3>1, HelloStands
    <3> QED
      BY <2>3, <3>1, <3>2
  <2> QED
    BY <1>4, <2>2, <2>3, HelloEffect
<1>5. ASSUME NEW x \in Conns, SyncDrop(x) PROVE Held
  <2>1. /\ Clean(v) /\ table[i].id = v
        /\ table'[i].socket = table[i].socket
    BY <1>5, DropStands, DropTable
  <2>2. PICK d \in Conns : Seated(d) /\ ctx[d].handle = table[i].socket /\ ctx[d].id = v
    BY <1>0, <2>1
  <2>3. d # x
    <3> SUFFICES ASSUME d = x PROVE FALSE
      OBVIOUS
    <3>1. i = Slot(x) /\ ctx[x].admitted
      BY <2>2, OwnSlot DEF Seated, Own, Admitted
    <3> QED
      BY <1>5, <2>1, <2>2, <3>1, DropTable
  <2>4. Seated(d)' /\ ctx'[d].handle = ctx[d].handle /\ ctx'[d].id = ctx[d].id
    BY <1>5, <2>2, <2>3, DropStands
  <2> QED
    BY <2>1, <2>2, <2>4
<1>6. CASE StopReturns
  BY <1>6, StopEmpties
<1> QED
  BY <1>1, <1>2, <1>3, <1>4, <1>5, <1>6, Kinds

(***************************************************************************)
(* What each station has been told of its peers.                           *)
(***************************************************************************)

Listens(c) == Settled(c) /\ ctx[c].open

\* Before its own HELLO a station has been told nothing.
HeardLate == \A c \in Conns :
    /\ ctx[c].thread \in {"absent", "handshake"} /\ ~past[c].shared => heard[c] = Nobody
    /\ Settled(c) /\ past[c].announced = None /\ ~past[c].refused => heard[c] = Nobody

\* What it has been told, a seated connection has announced.
HeardTrue == \A c \in Conns, i \in Ids : Listens(c) /\ heard[c][i] # None /\ Clean(i) =>
    \E d \in Conns \ {c} : Seated(d) /\ ctx[d].id = i /\ past[d].announced = heard[c][i]

\* Who has been accepted has announced a contest.
MetHasSaid == \A c \in Conns : past[c].met => past[c].announced # None

Stable == Ground /\ SlotFits /\ IdIsHeld /\ MetHasSaid

LEMMA SettledIsSeated ==
    ASSUME Order, NEW c \in Conns, Settled(c) PROVE Seated(c) /\ Own(c)
  BY DEF Order, Life, LifeOK, Settled, Seated, Own, Admitted, Alive

\* Whom an accepted HELLO is relayed to.
LEMMA RelayedTo ==
    ASSUME Stable, NEW c \in Conns, NEW s
    PROVE  /\ c \in Relays(s) => \E j \in Slots \ {s} : /\ table[j].socket = ctx[c].handle
                                                         /\ table[j].helloSeen /\ Alive(c)
           /\ Listens(c) /\ table[Slot(c)].helloSeen /\ Slot(c) # s => c \in Relays(s)
<1> TypeOK /\ Order /\ Seats
  BY DEF Stable, Ground
<1>1. ASSUME c \in Relays(s)
      PROVE  \E j \in Slots \ {s} : /\ table[j].socket = ctx[c].handle
                                    /\ table[j].helloSeen /\ Alive(c)
  <2>1. PICK j \in Holders(table) \ {s} : table[j].helloSeen /\ c \in Reached(table[j].socket)
    BY <1>1 DEF Relays
  <2>2. MayAnswer(c, table[j].socket)
    BY <2>1, WriteLookup
  <2> QED
    BY <2>1, <2>2 DEF Holders, MayAnswer
<1>2. ASSUME Listens(c), table[Slot(c)].helloSeen, Slot(c) # s PROVE c \in Relays(s)
  <2>1. Seated(c) /\ Own(c) /\ ctx[c].open
    BY <1>2, SettledIsSeated DEF Listens
  <2>2. Slot(c) \in Holders(table) /\ table[Slot(c)].socket = ctx[c].handle
    BY <2>1, OwnSlot
  <2>3. c \in Reached(ctx[c].handle)
    BY <2>1, OwnWrite
  <2> QED
    BY <1>2, <2>2, <2>3 DEF Relays
<1> QED
  BY <1>1, <1>2

\* What an accepted HELLO of c tells d of the id i.
LEMMA HeardInHello ==
    ASSUME Stable, NEW c \in Conns, NEW k \in Contests, AcceptHello(c, k),
           NEW d \in Conns, NEW i \in Ids
    PROVE  \/ heard' = heard /\ past'[c].announced = past[c].announced
              /\ past'[c].refused /\ past'[c].met = past[c].met
           \/ /\ past'[c].announced = k /\ ctx[c].id \notin TakenIds(Slot(c))
              /\ \/ d \in Relays(Slot(c)) /\ i = ctx[c].id /\ heard'[d][i] = k
                 \/ /\ ~(d \in Relays(Slot(c)) /\ i = ctx[c].id)
                    /\ ~table[Slot(c)].helloSeen /\ d \in Reached(ctx[c].handle)
                    /\ \E j \in Kept(Slot(c)) : table[j].id = i /\ heard'[d][i] = table[j].hello
                 \/ /\ ~(d \in Relays(Slot(c)) /\ i = ctx[c].id)
                    /\ heard'[d][i] = heard[d][i]
                    /\ ~( /\ ~table[Slot(c)].helloSeen /\ d \in Reached(ctx[c].handle)
                          /\ \E j \in Kept(Slot(c)) : table[j].id = i)
<1> DEFINE s == Slot(c)
           kept == \E j \in Kept(s) : table[j].id = i
<1>1. TypeOK
  BY DEF Stable, Ground
<1>2. CASE ctx[c].id \in TakenIds(s)
  BY <1>1, <1>2, HelloEffect
<1>3. CASE ctx[c].id \notin TakenIds(s)
  <2>1. past'[c].announced = k /\ heard' = HeardAfterHello(c, s, ~table[s].helloSeen, k)
    BY <1>1, <1>3, HelloEffect
  <2>2. heard'[d][i] =
            IF d \in Relays(s) /\ i = ctx[c].id THEN k
            ELSE IF ~table[s].helloSeen /\ d \in Reached(ctx[c].handle) /\ kept
            THEN table[CHOOSE j \in Kept(s) : table[j].id = i].hello
            ELSE heard[d][i]
    <3> HIDE DEF s
    <3> QED
      BY <2>1 DEF HeardAfterHello
  <2>3. kept => \E j \in Kept(s) : /\ table[j].id = i
                                   /\ j = CHOOSE n \in Kept(s) : table[n].id = i
    OBVIOUS
  <2> HIDE DEF s
  <2> QED
    BY <1>3, <2>1, <2>2, <2>3 DEF s
<1> QED
  BY <1>2, <1>3

\* Nothing is heard too soon.
LEMMA LateStep == Stable /\ HeardLate /\ [Next]_vars => HeardLate'
<1> SUFFICES ASSUME Stable, HeardLate, [Next]_vars, NEW c \in Conns
             PROVE  /\ ctx'[c].thread \in {"absent", "handshake"} /\ ~past'[c].shared => heard'[c] = Nobody
                    /\ Settled(c)' /\ past'[c].announced = None /\ ~past'[c].refused => heard'[c] = Nobody
  BY DEF HeardLate, Nobody
<1> Ground /\ TypeOK /\ Order /\ Seats
  BY DEF Stable, Ground
<1> DEFINE Young == ctx[c].thread \in {"absent", "handshake"} /\ ~past[c].shared
           Mute == Settled(c) /\ past[c].announced = None /\ ~past[c].refused
           Late == /\ ctx'[c].thread \in {"absent", "handshake"} /\ ~past'[c].shared => heard'[c] = Nobody
                   /\ Settled(c)' /\ past'[c].announced = None /\ ~past'[c].refused => heard'[c] = Nobody
<1>0. Young \/ Mute => heard[c] = Nobody
  BY DEF HeardLate
<1>1. CASE Quiet
  <2>1. Settled(c)' => Settled(c)
    BY <1>1, QuietStands
  <2> QED
    BY <1>0, <1>1, <2>1 DEF Quiet
<1>2. ASSUME NEW x \in Conns, NEW h \in Handles, NEW id \in Ids, Accept(x, h, id) PROVE Late
  <2>1. UNCHANGED heard /\ (past[c].shared => past'[c].shared)
        /\ past'[c].announced = past[c].announced /\ past'[c].refused = past[c].refused
        /\ (c # x => ctx'[c] = ctx[c])
    BY <1>2, AcceptEffect
  <2>2. Settled(c)' => Settled(c)
    BY <1>2, AcceptStands
  <2>3. ctx[x].thread = "absent"
    BY <1>2 DEF Accept
  <2> QED
    BY <1>0, <2>1, <2>2, <2>3
<1>3. ASSUME NEW x \in Conns, SyncHandshake(x), Reached(ctx[x].handle) # {} PROVE Late
  <2>1. /\ UNCHANGED heard /\ past'[c].shared = past[c].shared
        /\ past'[c].announced = past[c].announced /\ past'[c].refused = past[c].refused
        /\ ctx[x].thread = "handshake" /\ ctx'[x].thread = "running"
        /\ (c # x => ctx'[c] = ctx[c])
    BY <1>3, AdmitEffect
  <2>2. c # x => (Settled(c)' <=> Settled(c))
    BY <1>3, AdmitStands
  <2>3. c = x /\ Settled(c)' => Young
    BY <2>1 DEF Settled
  <2> QED
    BY <1>0, <2>1, <2>2, <2>3
<1>4. ASSUME NEW x \in Conns, NEW k \in Contests, AcceptHello(x, k) PROVE Late
  <2>1. /\ ctx'[c] = ctx[c] /\ (Settled(c)' <=> Settled(c)) /\ Admitted(x)
        /\ ctx[x].thread = "running"
    BY <1>4, HelloStands, HelloEffect
  <2>2. past'[c].shared = past[c].shared /\ (c # x => past'[c] = past[c])
    BY <1>4, HelloEffect
  <2>3. CASE heard' = heard /\ (c = x => past'[c].refused)
    BY <1>0, <2>1, <2>2, <2>3
  <2>4. CASE ~(heard' = heard /\ (c = x => past'[c].refused))
    <3>0. ctx[x].id \notin TakenIds(Slot(x)) /\ past'[x].announced = k
      BY <1>4, <2>4, HelloEffect
    <3>1. k # None
      BY ConstantsAssumption
    <3>2. ASSUME Young \/ Mute, c # x PROVE c \notin Relays(Slot(x)) /\ c \notin Reached(ctx[x].handle)
      <4>1. ASSUME Alive(c), ctx[c].handle = ctx[x].handle PROVE FALSE
        <5>1. CASE Young
          BY <2>1, <4>1, <5>1, AloneAtTheDoor DEF Greeting, Alive
        <5>2. CASE Mute
          BY <2>1, <3>2, <4>1, <5>2, SettledIsSeated, Alone
        <5> QED
          BY <3>2, <5>1, <5>2
      <4>2. c \notin Reached(ctx[x].handle)
        BY <4>1, WriteLookup DEF MayAnswer
      <4>3. ASSUME NEW j \in Slots, table[j].socket = ctx[c].handle, table[j].helloSeen, Alive(c) PROVE FALSE
        <5>1. CASE Young
          <6>1. Greeting(c)
            BY <4>3, <5>1 DEF Greeting, Alive
          <6>2. ctx[c].handle \in Handles
            BY <6>1 DEF Order, Life, LifeOK, Greeting
          <6>3. SeatedOf(ctx[c].handle) = {}
            BY <5>1, <6>1, AloneAtTheDoor DEF SeatedOf
          <6> QED
            BY <4>3, <6>2, <6>3, NoSeatNoSlot DEF Seats, Carrying
        <5>2. CASE Mute
          <6>1. Seated(c)
            BY <5>2, SettledIsSeated
          <6>2. Fits(c, j)
            BY <4>3, <6>1 DEF Stable, SlotFits
          <6> QED
            BY <4>3, <5>2, <6>2 DEF Fits
        <5> QED
          BY <3>2, <5>1, <5>2
      <4>4. c \notin Relays(Slot(x))
        BY <4>3, RelayedTo
      <4> QED
        BY <4>2, <4>4
    <3>3. ASSUME Young \/ Mute, c # x PROVE heard'[c] = heard[c]
      <4>1. heard' = HeardAfterHello(x, Slot(x), ~table[Slot(x)].helloSeen, k)
        BY <1>4, <3>0, HelloEffect
      <4>2. heard'[c] = [i \in Ids |-> heard[c][i]]
        BY <3>2, <3>3, <4>1 DEF HeardAfterHello
      <4> QED
        BY <4>2 DEF TypeOK
    <3>4. c = x => ~(Young \/ (Settled(c)' /\ past'[c].announced = None))
      BY <2>1, <3>0, <3>1
    <3> QED
      BY <1>0, <2>1, <2>2, <3>3, <3>4
  <2> QED
    BY <2>3, <2>4
<1>5. ASSUME NEW x \in Conns, SyncDrop(x) PROVE Late
  <2>1. /\ UNCHANGED past /\ (Settled(c)' => Settled(c))
        /\ ctx'[c].thread \in {"absent", "handshake"} => ctx'[c].thread = ctx[c].thread
    BY <1>5, DropEffect, DropStands
  <2>2. heard[c] = Nobody => heard'[c] = Nobody
    <3>1. CASE UNCHANGED heard
      BY <3>1
    <3> DEFINE S == Everyone([table EXCEPT ![Slot(x)].socket = None])
               v == table[Slot(x)].id
    <3>2. CASE heard' = [d \in Conns |-> [i \in Ids |->
                           IF d \in S /\ i = v THEN None ELSE heard[d][i]]]
      <4> HIDE DEF S, v
      <4>1. heard[c] = Nobody => \A i \in Ids : heard[c][i] = None
        BY DEF Nobody
      <4> QED
        BY <3>2, <4>1 DEF Nobody
    <3> QED
      BY <1>5, <3>1, <3>2, DropTable
  <2> QED
    BY <1>0, <2>1, <2>2
<1>6. CASE StopReturns
  BY <1>0, <1>6, StopEmpties DEF Settled, Alive
<1> QED
  BY <1>1, <1>2, <1>3, <1>4, <1>5, <1>6, Kinds

\* What is heard of an id is what the connection behind it announced last.
LEMMA TrueStep == Stable /\ HeardLate /\ HeardTrue /\ [Next]_vars => HeardTrue'
<1> SUFFICES ASSUME Stable, HeardLate, HeardTrue, [Next]_vars,
                    NEW c \in Conns, NEW i \in Ids, Listens(c)', heard'[c][i] # None, Clean(i)'
             PROVE  \E d \in Conns \ {c} : /\ Seated(d)' /\ ctx'[d].id = i
                                           /\ past'[d].announced = heard'[c][i]
  BY DEF HeardTrue
<1> DEFINE Told == \E d \in Conns \ {c} : /\ Seated(d)' /\ ctx'[d].id = i
                                          /\ past'[d].announced = heard'[c][i]
<1> Ground /\ TypeOK /\ Order /\ Seats
  BY DEF Stable, Ground
<1>0. ASSUME Listens(c), heard[c][i] # None, Clean(i)
      PROVE  \E d \in Conns \ {c} : Seated(d) /\ ctx[d].id = i /\ past[d].announced = heard[c][i]
  BY <1>0 DEF HeardTrue
<1>1. CASE Quiet
  <2>1. Listens(c) /\ Clean(i) /\ heard' = heard
    BY <1>1, QuietStands DEF Quiet, Listens, Clean
  <2>2. PICK d \in Conns \ {c} : Seated(d) /\ ctx[d].id = i /\ past[d].announced = heard[c][i]
    BY <1>0, <2>1
  <2>3. Seated(d)' /\ ctx'[d].id = i /\ past'[d].announced = heard'[c][i]
    BY <1>1, <2>1, <2>2, QuietStands DEF Quiet
  <2> QED
    BY <2>3
<1>2. ASSUME NEW x \in Conns, NEW h \in Handles, NEW id \in Ids, Accept(x, h, id) PROVE Told
  <2>1. Listens(c) /\ Clean(i) /\ heard' = heard
    BY <1>2, AcceptStands, AcceptEffect DEF Listens
  <2>2. PICK d \in Conns \ {c} : Seated(d) /\ ctx[d].id = i /\ past[d].announced = heard[c][i]
    BY <1>0, <2>1
  <2>3. Seated(d)'
    BY <1>2, <2>2, AcceptStands
  <2>4. ctx'[d] = ctx[d] /\ past'[d].announced = past[d].announced
    BY <1>2, <2>3, AcceptStands
  <2> QED
    BY <2>1, <2>2, <2>3, <2>4
<1>3. ASSUME NEW x \in Conns, SyncHandshake(x), Reached(ctx[x].handle) # {} PROVE Told
  <2>1. /\ heard' = heard /\ ctx[x].thread = "handshake" /\ past'[x].shared = past[x].shared
        /\ \A d \in Conns \ {x} : ctx'[d] = ctx[d] /\ past'[d] = past[d]
    BY <1>3, AdmitEffect
  <2>2. c # x
    BY <2>1 DEF HeardLate, Nobody, Listens, Settled
  <2>3. Listens(c) /\ Clean(i)
    BY <1>3, <2>1, <2>2, AdmitStands DEF Listens
  <2>4. PICK d \in Conns \ {c} : Seated(d) /\ ctx[d].id = i /\ past[d].announced = heard[c][i]
    BY <1>0, <2>1, <2>3
  <2>5. d # x
    BY <1>3, <2>4, AdmitStands
  <2>6. Seated(d)' /\ ctx'[d] = ctx[d] /\ past'[d] = past[d]
    BY <1>3, <2>1, <2>4, <2>5, AdmitStands
  <2> QED
    BY <2>1, <2>4, <2>6
<1>4. ASSUME NEW x \in Conns, NEW k \in Contests, AcceptHello(x, k) PROVE Told
  <2>1. /\ Listens(c) /\ Clean(i) /\ ctx' = ctx /\ Admitted(x)
        /\ \A d \in Conns : Seated(d)' <=> Seated(d)
        /\ \A d \in Conns \ {x} : past'[d] = past[d]
    BY <1>4, HelloStands, HelloEffect DEF Listens
  <2>2. Seated(c) /\ Own(c)
    BY <2>1, SettledIsSeated DEF Listens
  <2>3. c # x => ctx[c].handle # ctx[x].handle
    BY <1>4, <2>2, HelloStands
  <2>4. \A j \in Slots : table[j].socket = ctx[c].handle => j = Slot(c)
    BY <2>2, OwnSlot
  <2>5. Slot(x) \in Slots /\ table[Slot(x)].socket = ctx[x].handle
    BY <1>4, HelloEffect
  <2>6. CASE heard'[c][i] = heard[c][i] /\ past'[x].announced = past[x].announced
    <3>1. PICK d \in Conns \ {c} : Seated(d) /\ ctx[d].id = i /\ past[d].announced = heard[c][i]
      BY <1>0, <2>1, <2>6
    <3> QED
      BY <2>1, <2>6, <3>1
  <2>7. CASE past'[x].announced = k /\ c \in Relays(Slot(x)) /\ i = ctx[x].id /\ heard'[c][i] = k
    <3>1. c # x
      BY <2>4, <2>7, RelayedTo DEF Stable
    <3>2. ~past[x].shared
      BY <2>1, <2>7 DEF Clean
    <3>3. Seated(x)
      BY <1>4, <3>2, HelloStands
    <3> QED
      BY <2>1, <2>7, <3>1, <3>3
  <2>8. CASE /\ past'[x].announced = k /\ c \in Reached(ctx[x].handle)
             /\ \E j \in Kept(Slot(x)) : table[j].id = i /\ heard'[c][i] = table[j].hello
    <3>1. c = x
      BY <2>3, <2>8, WriteLookup DEF MayAnswer
    <3>2. PICK j \in Kept(Slot(x)) : table[j].id = i /\ heard'[c][i] = table[j].hello
      BY <2>8
    <3>3. j \in Holders(table) /\ j \in Slots /\ j # Slot(x) /\ i # None
      BY <3>2, ConstantsAssumption DEF Kept, Holders
    <3>4. PICK d \in Conns : Seated(d) /\ ctx[d].handle = table[j].socket /\ ctx[d].id = i
      BY <2>1, <3>2, <3>3 DEF Stable, IdIsHeld
    <3>5. d # x
      BY <2>4, <3>1, <3>3, <3>4
    <3>6. Fits(d, j)
      BY <3>3, <3>4 DEF Stable, SlotFits
    <3>7. past[d].announced = table[j].hello
      BY <3>2, <3>3, <3>6 DEF Fits
    <3> QED
      BY <2>1, <3>1, <3>2, <3>4, <3>5, <3>7
  <2>9. CASE /\ past'[x].announced = k /\ heard'[c][i] = heard[c][i]
             /\ ~(c \in Relays(Slot(x)) /\ i = ctx[x].id)
    <3>1. PICK d \in Conns \ {c} : Seated(d) /\ ctx[d].id = i /\ past[d].announced = heard[c][i]
      BY <1>0, <2>1, <2>9
    <3>2. d # x
      <4> SUFFICES ASSUME d = x PROVE FALSE
        OBVIOUS
      <4>1. past[c].announced # None \/ past[c].refused
        BY <2>1, <2>9 DEF HeardLate, Listens, Nobody
      <4>2. Slot(c) \in Slots /\ table[Slot(c)].socket = ctx[c].handle
        BY <2>2, OwnSlot
      <4>3. table[Slot(c)].helloSeen
        BY <2>2, <4>1, <4>2 DEF Stable, SlotFits, Fits
      <4>4. Slot(c) # Slot(x)
        BY <2>3, <2>5, <3>1, <4>2
      <4>5. c \in Relays(Slot(x))
        BY <2>1, <4>3, <4>4, RelayedTo
      <4> QED
        BY <2>9, <3>1, <4>5
    <3> QED
      BY <2>1, <2>9, <3>1, <3>2
  <2> QED
    BY <1>4, <2>6, <2>7, <2>8, <2>9, HeardInHello
<1>5. ASSUME NEW x \in Conns, SyncDrop(x) PROVE Told
  <2>1. Listens(c) /\ c # x /\ Clean(i) /\ UNCHANGED past
    BY <1>5, DropStands, DropEffect DEF Listens
  <2>2. Seated(c) /\ Own(c) /\ ctx[c].open
    BY <2>1, SettledIsSeated DEF Listens
  <2> DEFINE after == [table EXCEPT ![Slot(x)].socket = None]
  <2>3. heard'[c][i] = heard[c][i] /\ (ctx[x].admitted /\ Slot(x) \in Slots =>
                                         ~(c \in Everyone(after) /\ i = table[Slot(x)].id))
    <3>1. CASE UNCHANGED <<table, heard>> /\ (ctx[x].admitted => \A j \in Slots : table[j].socket # ctx[x].handle)
      <4>1. ~(ctx[x].admitted /\ Slot(x) \in Slots)
        BY <3>1, SlotLookup DEF Slot
      <4> QED
        BY <3>1, <4>1
    <3>2. CASE heard' = [d \in Conns |-> [n \in Ids |->
                           IF d \in Everyone(after) /\ n = table[Slot(x)].id THEN None ELSE heard[d][n]]]
      <4> HIDE DEF after
      <4>1. heard'[c][i] = IF c \in Everyone(after) /\ i = table[Slot(x)].id THEN None ELSE heard[c][i]
        BY <3>2
      <4> QED
        BY <4>1
    <3> QED
      BY <1>5, <3>1, <3>2, DropTable
  <2>4. PICK d \in Conns \ {c} : Seated(d) /\ ctx[d].id = i /\ past[d].announced = heard[c][i]
    BY <1>0, <2>1, <2>3
  <2>5. d # x
    <3> SUFFICES ASSUME d = x PROVE FALSE
      OBVIOUS
    <3>1. /\ Slot(x) \in Slots /\ table[Slot(x)].socket = ctx[x].handle /\ ctx[x].admitted
      BY <2>4, OwnSlot DEF Seated, Own, Admitted
    <3>2. table[Slot(x)].id = i
      BY <2>3, <2>4, <3>1 DEF Stable, SlotFits, Fits
    <3>3. Slot(c) \in Holders(table) /\ table[Slot(c)].socket = ctx[c].handle
      BY <2>2, OwnSlot
    <3>4. ctx[c].handle # ctx[x].handle
      BY <2>1, <2>2, <2>4, Alone DEF Seated, Own
    <3>5. Slot(c) # Slot(x) /\ Slot(c) \in Slots
      BY <3>1, <3>3, <3>4 DEF Holders
    <3>6. after[Slot(c)].socket = ctx[c].handle
      BY <3>3, <3>5 DEF TypeOK
    <3>7. ctx[c].handle # None
      BY <3>3 DEF Holders
    <3>8. c \in Reached(ctx[c].handle)
      BY <2>2, OwnWrite
    <3>9. c \in Everyone(after)
      <4> HIDE DEF after
      <4> QED
        BY <3>5, <3>6, <3>7, <3>8 DEF Everyone, Holders
    <3> QED
      BY <2>3, <3>1, <3>2, <3>9
  <2>6. Seated(d)' /\ ctx'[d].id = i
    BY <1>5, <2>4, <2>5, DropStands
  <2> QED
    BY <2>1, <2>3, <2>4, <2>6
<1>6. CASE StopReturns
  BY <1>6, StopEmpties DEF Listens, Settled, Alive
<1> QED
  BY <1>1, <1>2, <1>3, <1>4, <1>5, <1>6, Kinds

\* Of two stations the server has accepted, each has been told what the other announced last.
LEMMA PeersStep == Stable /\ PeersAreCurrent /\ [Next]_vars => PeersAreCurrent'
<1> SUFFICES ASSUME Stable, PeersAreCurrent, [Next]_vars,
                    NEW c \in Conns, NEW d \in Conns, c # d, Settled(c)', Settled(d)',
                    ctx'[c].open, past'[c].met, past'[c].announced # None, past'[d].announced # None
             PROVE  heard'[c][ctx'[d].id] = past'[d].announced
  BY DEF PeersAreCurrent
<1> Ground /\ TypeOK /\ Order /\ Seats
  BY DEF Stable, Ground
<1>0. ASSUME Settled(c), Settled(d), ctx[c].open, past[c].met,
             past[c].announced # None, past[d].announced # None
      PROVE  heard[c][ctx[d].id] = past[d].announced
  BY <1>0 DEF PeersAreCurrent
<1>1. CASE Quiet
  BY <1>0, <1>1, QuietStands DEF Quiet
<1>2. ASSUME NEW x \in Conns, NEW h \in Handles, NEW id \in Ids, Accept(x, h, id)
      PROVE  heard'[c][ctx'[d].id] = past'[d].announced
  <2>1. /\ Settled(c) /\ Settled(d) /\ ctx'[c] = ctx[c] /\ ctx'[d] = ctx[d]
    BY <1>2, AcceptStands
  <2>2. /\ heard' = heard /\ past'[c].announced = past[c].announced
        /\ past'[c].met = past[c].met /\ past'[d].announced = past[d].announced
    BY <1>2, AcceptEffect
  <2> QED
    BY <1>0, <2>1, <2>2
<1>3. ASSUME NEW x \in Conns, SyncHandshake(x), Reached(ctx[x].handle) # {}
      PROVE  heard'[c][ctx'[d].id] = past'[d].announced
  <2>1. /\ heard' = heard /\ ctx[x].thread = "handshake"
        /\ past'[x].announced = past[x].announced
        /\ \A e \in Conns \ {x} : ctx'[e] = ctx[e] /\ past'[e] = past[e]
    BY <1>3, AdmitEffect
  <2>2. past[x].announced = None
    BY <2>1 DEF Order, Life, LifeOK, Untouched
  <2>3. c # x /\ d # x
    BY <2>1, <2>2
  <2>4. Settled(c) /\ Settled(d)
    BY <1>3, <2>3, AdmitStands
  <2> QED
    BY <1>0, <2>1, <2>3, <2>4
<1>4. ASSUME NEW x \in Conns, NEW k \in Contests, AcceptHello(x, k)
      PROVE  heard'[c][ctx'[d].id] = past'[d].announced
  <2> DEFINE i == ctx[d].id
  <2>1. /\ Settled(c) /\ Settled(d) /\ ctx[c].open /\ ctx' = ctx
        /\ \A e \in Conns \ {x} : past'[e] = past[e]
    BY <1>4, HelloStands, HelloEffect
  <2>2. Seated(c) /\ Own(c) /\ Seated(d) /\ Own(d) /\ i \in Ids
    BY <2>1, SettledIsSeated DEF Order, Life, LifeOK, Settled
  <2>3. /\ Slot(c) \in Slots /\ table[Slot(c)].socket = ctx[c].handle /\ Slot(c) \in Holders(table)
        /\ Slot(d) \in Slots /\ table[Slot(d)].socket = ctx[d].handle /\ Slot(d) \in Holders(table)
    BY <2>2, OwnSlot
  <2>4. ctx[c].handle # ctx[d].handle
    BY <2>2, Alone DEF Own
  <2>5. Fits(c, Slot(c)) /\ Fits(d, Slot(d))
    BY <2>2, <2>3 DEF Stable, SlotFits
  <2>6. Slot(x) \in Slots /\ table[Slot(x)].socket = ctx[x].handle
    BY <1>4, HelloEffect
  <2>7. (c # x => ctx[c].handle # ctx[x].handle) /\ (d # x => ctx[d].handle # ctx[x].handle)
    BY <1>4, <2>2, HelloStands
  <2>8. CASE d = x
    <3>1. Slot(c) # Slot(x) /\ c # x
      BY <2>3, <2>4, <2>6, <2>8
    <3>2. past[c].met /\ past[c].announced # None
      BY <2>1, <3>1
    <3>3. c \in Relays(Slot(x))
      <4>1. table[Slot(c)].helloSeen
        BY <2>5, <3>2 DEF Fits
      <4> QED
        BY <2>1, <3>1, <4>1, RelayedTo DEF Listens
    <3>4. CASE heard' = heard /\ past'[x].announced = past[x].announced
      BY <1>0, <2>1, <2>8, <3>2, <3>4
    <3>5. CASE past'[x].announced = k /\ heard'[c][i] = k
      BY <2>1, <2>8, <3>5
    <3> QED
      BY <1>4, <2>2, <2>8, <3>3, <3>4, <3>5, HeardInHello
  <2>9. CASE d # x
    <3>1. past'[d] = past[d] /\ past[d].announced # None
      BY <2>1, <2>9
    <3>2. table[Slot(d)].id = i /\ table[Slot(d)].hello = past[d].announced
      BY <2>5, <3>1 DEF Fits
    <3>3. Slot(d) # Slot(x)
      BY <2>3, <2>6, <2>7, <2>9
    <3>4. i # None
      BY <2>2, ConstantsAssumption
    <3>5. i \in TakenIds(Slot(x))
      BY <2>3, <3>2, <3>3, <3>4 DEF TakenIds
    <3>6. CASE heard'[c][i] = heard[c][i] /\ past'[x].announced = past[x].announced /\ past'[x].met = past[x].met
      BY <1>0, <2>1, <3>1, <3>6
    <3>7. CASE /\ past'[x].announced = k /\ ctx[x].id \notin TakenIds(Slot(x))
               /\ ~(c \in Relays(Slot(x)) /\ i = ctx[x].id)
               /\ c \in Reached(ctx[x].handle)
               /\ \E j \in Kept(Slot(x)) : table[j].id = i /\ heard'[c][i] = table[j].hello
      <4>1. PICK j \in Kept(Slot(x)) : table[j].id = i /\ heard'[c][i] = table[j].hello
        BY <3>7
      <4>2. j \in Holders(table)
        BY <4>1 DEF Kept
      <4>3. j = Slot(d)
        BY <2>3, <3>2, <3>4, <4>1, <4>2 DEF Ground, IdsAreUnique
      <4> QED
        BY <2>1, <3>1, <3>2, <4>1, <4>3
    <3>8. CASE /\ past'[x].announced = k /\ ctx[x].id \notin TakenIds(Slot(x))
               /\ heard'[c][i] = heard[c][i]
               /\ ~( /\ ~table[Slot(x)].helloSeen /\ c \in Reached(ctx[x].handle)
                     /\ \E j \in Kept(Slot(x)) : table[j].id = i)
      <4>1. CASE c # x
        BY <1>0, <2>1, <3>1, <3>8, <4>1
      <4>2. CASE c = x
        <5>1. c \in Reached(ctx[x].handle)
          BY <2>1, <2>2, <4>2, OwnWrite
        <5>2. Slot(d) \in Kept(Slot(x))
          BY <2>3, <3>1, <3>2, <3>3 DEF Kept
        <5>3. table[Slot(x)].helloSeen
          BY <3>2, <3>8, <5>1, <5>2
        <5>4. past[c].met
          BY <1>4, <3>8, <4>2, <5>3, HelloEffect
        <5>5. past[c].announced # None
          BY <5>4 DEF Stable, MetHasSaid
        <5> QED
          BY <1>0, <2>1, <3>1, <3>8, <5>4, <5>5
      <4> QED
        BY <4>1, <4>2
    <3>9. i # ctx[x].id \/ ctx[x].id \in TakenIds(Slot(x))
      BY <3>5
    <3> QED
      <4> HIDE DEF i
      <4>1. \/ heard' = heard /\ past'[x].announced = past[x].announced /\ past'[x].met = past[x].met
            \/ /\ past'[x].announced = k /\ ctx[x].id \notin TakenIds(Slot(x))
               /\ \/ c \in Relays(Slot(x)) /\ i = ctx[x].id /\ heard'[c][i] = k
                  \/ /\ ~(c \in Relays(Slot(x)) /\ i = ctx[x].id)
                     /\ c \in Reached(ctx[x].handle)
                     /\ \E j \in Kept(Slot(x)) : table[j].id = i /\ heard'[c][i] = table[j].hello
                  \/ /\ heard'[c][i] = heard[c][i]
                     /\ ~( /\ ~table[Slot(x)].helloSeen /\ c \in Reached(ctx[x].handle)
                           /\ \E j \in Kept(Slot(x)) : table[j].id = i)
        BY <1>4, <2>2, HeardInHello
      <4> QED
        BY <2>1, <3>6, <3>7, <3>8, <3>9, <4>1 DEF i
  <2> QED
    BY <2>8, <2>9
<1>5. ASSUME NEW x \in Conns, SyncDrop(x) PROVE heard'[c][ctx'[d].id] = past'[d].announced
  <2> DEFINE i == ctx[d].id
  <2>1. /\ Settled(c) /\ Settled(d) /\ c # x /\ d # x /\ ctx[c].open /\ ctx'[d].id = i
        /\ UNCHANGED past
    BY <1>5, DropStands, DropEffect
  <2>2. Seated(d) /\ Own(d) /\ i \in Ids
    BY <2>1, SettledIsSeated DEF Order, Life, LifeOK, Settled
  <2>3. heard[c][i] = past[d].announced
    BY <1>0, <2>1
  <2>4. CASE heard' = heard
    BY <2>1, <2>3, <2>4
  <2>5. CASE /\ ctx[x].admitted /\ Slot(x) \in Slots /\ table[Slot(x)].socket = ctx[x].handle
             /\ heard' = [y \in Conns |-> [n \in Ids |->
                            IF y \in Everyone([table EXCEPT ![Slot(x)].socket = None])
                                 /\ n = table[Slot(x)].id
                            THEN None ELSE heard[y][n]]]
    <3>1. Slot(d) \in Slots /\ table[Slot(d)].socket = ctx[d].handle /\ Slot(d) \in Holders(table)
      BY <2>2, OwnSlot
    <3>2. table[Slot(d)].id = i
      BY <2>1, <2>2, <3>1 DEF Stable, SlotFits, Fits
    <3>3. Admitted(x)
      BY <1>5, <2>5, DropEffect DEF Admitted, Alive
    <3>4. ctx[d].handle # ctx[x].handle
      BY <2>1, <2>2, <3>3, Alone
    <3>5. Slot(x) # Slot(d)
      BY <2>5, <3>1, <3>4
    <3>6. Slot(x) \in Holders(table)
      BY <2>5, <3>3, ConstantsAssumption DEF Holders, Order, Life, LifeOK, Admitted, Alive
    <3>7. table[Slot(x)].id # i
      BY <2>2, <3>1, <3>2, <3>5, <3>6, ConstantsAssumption DEF Ground, IdsAreUnique
    <3>8. heard'[c][i] = heard[c][i]
      <4> DEFINE E == Everyone([table EXCEPT ![Slot(x)].socket = None])
                 v == table[Slot(x)].id
      <4>1. heard' = [y \in Conns |-> [n \in Ids |-> IF y \in E /\ n = v THEN None ELSE heard[y][n]]]
        BY <2>5
      <4>2. i # v /\ i \in Ids
        BY <2>2, <3>7
      <4> HIDE DEF E, v, i
      <4> QED
        BY <4>1, <4>2
    <3> QED
      BY <2>1, <2>3, <3>8
  <2> QED
    BY <1>5, <2>4, <2>5, DropTable
<1>6. CASE StopReturns
  BY <1>6, StopEmpties DEF Settled, Alive
<1> QED
  BY <1>1, <1>2, <1>3, <1>4, <1>5, <1>6, Kinds

\* Only a HELLO is met, and it announces.
LEMMA MetStep == Ground /\ MetHasSaid /\ [Next]_vars => MetHasSaid'
<1> SUFFICES ASSUME Ground, MetHasSaid, [Next]_vars, NEW c \in Conns
             PROVE  past'[c].met => past'[c].announced # None
  BY DEF MetHasSaid
<1> TypeOK /\ Order
  BY DEF Ground
<1>1. CASE past'[c].met = past[c].met /\ past'[c].announced = past[c].announced
  BY <1>1 DEF MetHasSaid
<1>2. ASSUME NEW x \in Conns, NEW k \in Contests, AcceptHello(x, k)
      PROVE  past'[c].met => past'[c].announced # None
  <2>1. k # None
    BY ConstantsAssumption
  <2> QED
    BY <1>1, <1>2, <2>1, HelloEffect, ZenonT(60)
<1>3. ASSUME NEW x \in Conns, SyncHandshake(x), Reached(ctx[x].handle) # {}
      PROVE  past'[c].met => past'[c].announced # None
  BY <1>1, <1>3, AdmitEffect
<1>4. CASE Quiet
  BY <1>1, <1>4 DEF Quiet
<1>5. CASE StopReturns
  BY <1>1, <1>5, StopEmpties
<1>6. ASSUME NEW x \in Conns, SyncDrop(x) PROVE past'[c].met => past'[c].announced # None
  BY <1>1, <1>6, DropEffect
<1>7. ASSUME NEW x \in Conns, NEW h \in Handles, NEW id \in Ids, Accept(x, h, id)
      PROVE  past'[c].met => past'[c].announced # None
  BY <1>1, <1>7, AcceptEffect
<1> QED
  BY <1>2, <1>3, <1>4, <1>5, <1>6, <1>7, Kinds

(***************************************************************************)
(* The inductive invariant, and what follows from it.                      *)
(***************************************************************************)

IInv == Stable /\ HelloComesFirst /\ HeardLate /\ HeardTrue /\ PeersAreCurrent

\* It holds before the first connection.
LEMMA IInvInit == Init => IInv
<1> SUFFICES ASSUME Init PROVE IInv
  OBVIOUS
<1>1. \A c \in Conns : ctx[c] = Absent /\ past[c] = NoPast /\ heard[c] = Nobody
  BY DEF Init
<1>2. \A i \in Slots : table[i] = EmptySlot
  BY DEF Init
<1>3. \A c \in Conns : /\ ctx[c].thread = "absent" /\ ~ctx[c].open /\ ~ctx[c].admitted
                       /\ ~Alive(c) /\ Untouched(c) /\ ~past[c].shared /\ ~past[c].early
  BY <1>1 DEF Absent, NoPast, Alive, Untouched
<1>4. \A c \in Conns : ~Admitted(c) /\ ~Seated(c) /\ ~Settled(c) /\ ~Listens(c)
  BY <1>3 DEF Admitted, Seated, Own, Settled, Listens
<1>5. Order
  <2>1. main = "serving"
    BY DEF Init
  <2>2. Life
    BY <1>3, <2>1 DEF Life, LifeOK, Working
  <2> QED
    BY <1>3, <2>2 DEF Order, InOrder, Apart, Meet
<1>6. Seats
  <2>1. \A h \in Handles : Carrying(h) = {}
    BY <1>2, ConstantsAssumption DEF Carrying, EmptySlot
  <2>2. NotMoreThanSeated
    BY <1>4, <2>1, FS_EmptySet DEF NotMoreThanSeated, SeatedOf
  <2> QED
    BY <1>4, <2>2 DEF Seats, HasSlot
<1>7. Holders(table) = {}
  BY <1>2 DEF Holders, EmptySlot
<1>8. Stable
  BY <1>3, <1>4, <1>5, <1>6, <1>7, TypeInit
     DEF Stable, Ground, IdsAreUnique, SlotFits, IdIsHeld, MetHasSaid, Untouched
<1> QED
  BY <1>1, <1>3, <1>4, <1>8 DEF IInv, HelloComesFirst, HeardLate, HeardTrue, PeersAreCurrent

\* And every step keeps it.
LEMMA IInvStep == IInv /\ [Next]_vars => IInv'
<1> SUFFICES ASSUME IInv, [Next]_vars PROVE IInv'
  OBVIOUS
<1>1. Stable /\ Ground /\ TypeOK /\ Order /\ Seats /\ IdsAreUnique /\ SlotFits /\ IdIsHeld /\ MetHasSaid
  BY DEF IInv, Stable, Ground
<1>2. Ground'
  BY <1>1, TypeStep, OrderStep, SeatsStep, UniqueStep DEF Ground
<1>3. Stable'
  BY <1>1, <1>2, FitsStep, HeldStep, MetStep DEF Stable
<1> QED
  BY <1>1, <1>3, HelloFirstStep, LateStep, TrueStep, PeersStep DEF IInv

LEMMA Invariant == Spec => []IInv
  BY IInvInit, IInvStep, PTL DEF Spec

\* A slot is taken and freed with its connection, and what its last station left in it opens
\* the gate for no other: no slot leaks and none is freed early, whichever handles the
\* operating system gives out again.
THEOREM SlotsAreTheirOwners == Spec => []SlotsAreOwned
<1>1. IInv => SlotsAreCounted
  <2> SUFFICES ASSUME IInv, NEW h \in Handles,
                      \A c \in Conns : Alive(c) /\ ctx[c].handle = h => ~past[c].shared
               PROVE  Cardinality(Carrying(h)) = Cardinality(SeatedOf(h))
    BY DEF SlotsAreCounted, Carrying, SeatedOf, Admitted
  <2>1. TypeOK /\ Order /\ Seats
    BY DEF IInv, Stable, Ground
  <2>2. CASE SeatedOf(h) = {}
    BY <2>1, <2>2, NoSeatNoSlot DEF Seats
  <2>3. ASSUME NEW c \in SeatedOf(h) PROVE Cardinality(Carrying(h)) = Cardinality(SeatedOf(h))
    <3>1. c \in Conns /\ Seated(c) /\ Own(c) /\ ctx[c].handle = h
      BY DEF SeatedOf, Seated, Own, Admitted
    <3>2. SeatedOf(h) = {c}
      BY <2>1, <3>1, Alone DEF SeatedOf
    <3>3. Carrying(h) = {Slot(c)}
      BY <2>1, <3>1, OwnSlot DEF Carrying
    <3> QED
      BY <3>2, <3>3, FS_Singleton
  <2> QED
    BY <2>2, <2>3
<1>2. IInv => SlotsAreOwned
  BY <1>1 DEF SlotsAreOwned, IInv
<1> QED
  BY <1>2, Invariant, PTL

\* Of any two stations the server has accepted, each was told the contest the other announced
\* last.
THEOREM PeersHeardCurrent == Spec => []PeersAreCurrent
<1>1. IInv => PeersAreCurrent
  BY DEF IInv
<1> QED
  BY <1>1, Invariant, PTL

\* And nobody is believed to be on a contest after he has gone.
THEOREM PeersGoWithTheirLinks == Spec => []NoPeerOutlivesItsLink
<1>1. IInv => NoPeerOutlivesItsLink
  BY DEF IInv, HeardTrue, Listens, Clean, NoPeerOutlivesItsLink, Seated, Own, Admitted
<1> QED
  BY <1>1, Invariant, PTL

\* A station's id is refused only while a connection that the server has not yet dropped
\* holds it.
THEOREM RefusalsHaveAHolder == Spec => RefusalsAreJust
<1> DEFINE Just == \A c \in Conns :
        (past'[c].refused /\ ~past[c].refused /\ Settled(c)
            /\ \A d \in Conns : past[d].shared => ctx[d].id # ctx[c].id) =>
        \E d \in Conns \ {c} : Alive(d) /\ ctx[d].admitted /\ ctx[d].id = ctx[c].id
<1>1. IInv /\ [Next]_vars => [Just]_vars
  <2> SUFFICES ASSUME IInv, [Next]_vars, NEW c \in Conns, past'[c].refused, ~past[c].refused,
                      Settled(c), Clean(ctx[c].id)
               PROVE  \E d \in Conns \ {c} : Alive(d) /\ ctx[d].admitted /\ ctx[d].id = ctx[c].id
    BY DEF Clean
  <2>1. TypeOK /\ Order /\ Seats /\ Stable /\ Ground
    BY DEF IInv, Stable, Ground
  <2>2. PICK x \in Conns, k \in Contests : AcceptHello(x, k)
    <3>1. \A x \in Conns, h \in Handles, id \in Ids : ~Accept(x, h, id)
      BY <2>1, AcceptEffect
    <3>2. \A x \in Conns : ~(SyncHandshake(x) /\ Reached(ctx[x].handle) # {})
      BY <2>1, AdmitEffect
    <3>3. \A x \in Conns : ~SyncDrop(x)
      BY <2>1, DropEffect
    <3>4. ~StopReturns
      BY DEF StopReturns
    <3>5. ~Quiet
      BY DEF Quiet
    <3> QED
      BY <2>1, <3>1, <3>2, <3>3, <3>4, <3>5, Kinds
  <2>3. x = c /\ ctx[c].id \in TakenIds(Slot(c))
    BY <2>1, <2>2, HelloEffect
  <2>4. PICK j \in Holders(table) \ {Slot(c)} : table[j].id = ctx[c].id /\ table[j].id # None
    BY <2>3 DEF TakenIds
  <2>5. PICK d \in Conns : Seated(d) /\ ctx[d].handle = table[j].socket /\ ctx[d].id = ctx[c].id
    BY <2>1, <2>4 DEF Stable, IdIsHeld
  <2>6. d # c
    BY <2>1, <2>4, <2>5, OwnSlot DEF Seated, Own, Holders
  <2> QED
    BY <2>5, <2>6 DEF Seated, Own, Admitted
<1> QED
  BY <1>1, Invariant, PTL DEF Spec, RefusalsAreJust

=============================================================================
