---------------------------- MODULE PacketOutbox ----------------------------
(***************************************************************************)
(* What the send queue of a station promises to the program that posts     *)
(* packets to the multi-op server (the contract in the header and in the   *)
(* interface comments of uNetSendQueue.pas): packets are written in the    *)
(* order they were posted, each at most once; the outcome of each write is *)
(* reported once, in the same order; nothing is written or reported after  *)
(* a Shutdown that returned True.  Threads, locks and events are absent.   *)
(***************************************************************************)
EXTENDS Naturals, Sequences

CONSTANT Packets

VARIABLES
    posted,     \* the packets accepted by Post, in order
    settled,    \* the outcomes of their writes, in order
    told,       \* how many outcomes the owner has been told of
    closed      \* Shutdown has returned True

vars == <<posted, settled, told, closed>>

Outcomes == [packet : Packets, written : BOOLEAN]

Init ==
    /\ posted = <<>>
    /\ settled = <<>>
    /\ told = 0
    /\ closed = FALSE

\* A packet is accepted; it is posted once in its life.
Accept(p) ==
    /\ ~closed
    /\ \A i \in DOMAIN posted : posted[i] # p
    /\ posted' = Append(posted, p)
    /\ UNCHANGED <<settled, told, closed>>

\* The oldest packet with no outcome is written, or its write fails.
Settle(ok) ==
    /\ ~closed
    /\ Len(settled) < Len(posted)
    /\ settled' = Append(settled, [packet |-> posted[Len(settled) + 1], written |-> ok])
    /\ UNCHANGED <<posted, told, closed>>

\* The owner hears of the oldest outcome it has not heard of.
Tell ==
    /\ ~closed
    /\ told < Len(settled)
    /\ told' = told + 1
    /\ UNCHANGED <<posted, settled, closed>>

\* Shutdown returns True: every outcome has been told, what is still queued is
\* given up.
Close ==
    /\ ~closed
    /\ told = Len(settled)
    /\ closed' = TRUE
    /\ UNCHANGED <<posted, settled, told>>

Next ==
    \/ \E p \in Packets : Accept(p)
    \/ \E ok \in BOOLEAN : Settle(ok)
    \/ Tell
    \/ Close

Spec == Init /\ [][Next]_vars
=============================================================================
