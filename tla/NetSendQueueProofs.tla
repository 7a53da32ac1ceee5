------------------------- MODULE NetSendQueueProofs -------------------------
(***************************************************************************)
(* Proofs about NetSendQueue: its invariants, for any sets of packets and  *)
(* callers, and that it implements PacketOutbox.                           *)
(*                                                                         *)
(* None of the checked invariants is inductive alone: InOrder needs to     *)
(* know that nothing was discarded before the queue is freed, IdleIsTrue   *)
(* that the writer is gone when Shutdown frees the queue and that nothing  *)
(* is queued any more when it signals FIdle afterwards, and the            *)
(* refinement that every finished write but the one being reported has     *)
(* been reported.  Lifecycle says these things.                            *)
(***************************************************************************)
EXTENDS NetSendQueue, SequenceTheorems, TLAPS

Gone == worker \in {"none", "exited"}

Lifecycle ==
    /\ worker = "writing" => item \in Packets
    /\ worker = "none" => posted = <<>>
    /\ worker = "exited" => done
    /\ done => worker = "exited"
    /\ owner # "running" => stopping
    /\ owner \in {"clearing", "freed", "closed"} => Gone
    /\ owner \notin {"freed", "closed"} => discarded = <<>>
    /\ owner \in {"freed", "closed"} => queue = <<>>
    /\ Len(finished) = reported + (IF worker = "reporting" THEN 1 ELSE 0)

IInv == TypeOK /\ InOrder /\ IdleIsTrue /\ NoLostWake /\ Lifecycle

\* The initial state satisfies the invariant.
LEMMA InitInv == Init => IInv
<1> SUFFICES ASSUME Init PROVE IInv
    OBVIOUS
<1>1. TypeOK
  <2>1. /\ queue \in Seq(Packets) /\ posted \in Seq(Packets) /\ discarded \in Seq(Packets)
        /\ finished \in Seq(Outcomes)
      BY EmptySeq DEF Init
  <2>2. caller \in [Callers -> {"ready", "waking"}]
      BY DEF Init
  <2> QED
      BY <2>1, <2>2 DEF Init, TypeOK, WorkerStates, OwnerStates
<1>2. InOrder
    BY DEF Init, InOrder, InFlight
<1>3. IdleIsTrue /\ NoLostWake /\ Lifecycle
    BY DEF Init, IdleIsTrue, NoLostWake, Lifecycle, Gone
<1> QED
    BY <1>1, <1>2, <1>3 DEF IInv

\* Every step keeps the types.
LEMMA TypeStep == TypeOK /\ Lifecycle /\ [Next]_vars => TypeOK'
<1> SUFFICES ASSUME TypeOK, Lifecycle, [Next]_vars PROVE TypeOK'
    OBVIOUS
<1> USE DEF WorkerStates, OwnerStates, workerVars, history
<1>1. ASSUME NEW c \in Callers, NEW p \in Packets, Post(c, p) PROVE TypeOK'
  <2>1. queue' \in Seq(Packets) /\ posted' \in Seq(Packets)
      BY <1>1, AppendProperties DEF TypeOK, Post, Enqueued
  <2>2. caller' \in [Callers -> {"ready", "waking"}]
      BY <1>1 DEF TypeOK, Post
  <2> QED
      BY <1>1, <2>1, <2>2 DEF TypeOK, Post
<1>2. ASSUME NEW c \in Callers, WakeWorker(c) PROVE TypeOK'
    BY <1>2 DEF TypeOK, WakeWorker
<1>3. CASE Take
  <2>1. item' \in Packets /\ queue' \in Seq(Packets)
      BY <1>3, HeadTailProperties DEF TypeOK, Take
  <2> QED
      BY <1>3, <2>1 DEF TypeOK, Take
<1>4. CASE Park \/ Stop \/ SignalDone \/ Unpark
    BY <1>4 DEF TypeOK, Park, Stop, SignalDone, Unpark
<1>5. ASSUME NEW ok \in BOOLEAN, FinishWrite(ok) PROVE TypeOK'
  <2>1. Outcome(ok) \in Outcomes
      BY <1>5 DEF FinishWrite, Lifecycle, Outcome, Outcomes
  <2>2. finished' \in Seq(Outcomes)
      BY <1>5, <2>1, AppendProperties DEF TypeOK, FinishWrite
  <2>3. idle' \in BOOLEAN
      BY <1>5 DEF TypeOK, FinishWrite, IdleAfterWrite
  <2> QED
      BY <1>5, <2>2, <2>3 DEF TypeOK, FinishWrite, AfterWrite
<1>6. CASE Report
    BY <1>6 DEF TypeOK, Report
<1>7. CASE CutStalledLink \/ BeginShutdown \/ WakeToStop \/ GraceExpires \/ Join \/ SignalIdle
    BY <1>7, ZenonT(60) DEF TypeOK, CutStalledLink, BeginShutdown, WakeToStop, GraceExpires, Join, SignalIdle
<1>8. CASE FreeQueued
    BY <1>8, EmptySeq DEF TypeOK, FreeQueued
<1>9. CASE UNCHANGED vars
    BY <1>9 DEF TypeOK, vars
<1> QED
    BY <1>1, <1>2, <1>3, <1>4, <1>5, <1>6, <1>7, <1>8, <1>9
    DEF Next, CallerStep, WorkerStep, OwnerStep

\* Every step keeps the lifecycle of worker, owner and ledger.
LEMMA LifecycleStep == TypeOK /\ Lifecycle /\ [Next]_vars => Lifecycle'
<1> SUFFICES ASSUME TypeOK, Lifecycle, [Next]_vars PROVE Lifecycle'
    OBVIOUS
<1> USE DEF Gone, workerVars, history
<1>1. ASSUME NEW c \in Callers, NEW p \in Packets, Post(c, p) PROVE Lifecycle'
    BY <1>1 DEF Lifecycle, Post
<1>2. ASSUME NEW c \in Callers, WakeWorker(c) PROVE Lifecycle'
    BY <1>2 DEF Lifecycle, WakeWorker
<1>3. CASE Take
  <2>1. item' \in Packets
      BY <1>3, HeadTailProperties DEF TypeOK, Take
  <2> QED
      BY <1>3, <2>1 DEF Lifecycle, Take
<1>4. CASE Park \/ Stop \/ SignalDone \/ Unpark
    BY <1>4 DEF Lifecycle, Park, Stop, SignalDone, Unpark
<1>5. ASSUME NEW ok \in BOOLEAN, FinishWrite(ok) PROVE Lifecycle'
  <2>1. Outcome(ok) \in Outcomes
      BY <1>5 DEF FinishWrite, Lifecycle, Outcome, Outcomes
  <2>2. Len(finished') = Len(finished) + 1
      BY <1>5, <2>1, AppendProperties DEF TypeOK, FinishWrite
  <2>3. Len(finished) = reported
      BY <1>5 DEF Lifecycle, FinishWrite, TypeOK
  <2> QED
      BY <1>5, <2>2, <2>3 DEF Lifecycle, FinishWrite, AfterWrite
<1>6. CASE Report
    BY <1>6 DEF TypeOK, Lifecycle, Report
<1>7. CASE CutStalledLink \/ BeginShutdown \/ WakeToStop \/ GraceExpires \/ Join \/ SignalIdle
    BY <1>7 DEF Lifecycle, CutStalledLink, BeginShutdown, WakeToStop, GraceExpires, Join, SignalIdle
<1>8. CASE FreeQueued
    BY <1>8 DEF Lifecycle, FreeQueued
<1>9. CASE UNCHANGED vars
    BY <1>9 DEF Lifecycle, vars
<1> QED
    BY <1>1, <1>2, <1>3, <1>4, <1>5, <1>6, <1>7, <1>8, <1>9
    DEF Next, CallerStep, WorkerStep, OwnerStep

\* Every step keeps the order of the packets.
LEMMA OrderStep == TypeOK /\ InOrder /\ Lifecycle /\ [Next]_vars => InOrder'
<1> SUFFICES ASSUME TypeOK, InOrder, Lifecycle, [Next]_vars PROVE InOrder'
    OBVIOUS
<1> USE DEF workerVars, history
<1>a. /\ Len(queue) \in Nat /\ Len(posted) \in Nat
      /\ Len(finished) \in Nat /\ Len(discarded) \in Nat
    BY LenProperties DEF TypeOK
<1>b. InFlight \in {0, 1}
    BY DEF InFlight
<1>c. Len(posted) = Len(finished) + InFlight + Len(queue) + Len(discarded)
    BY DEF InOrder
<1>1. ASSUME NEW c \in Callers, NEW p \in Packets, Post(c, p) PROVE InOrder'
  <2>1. /\ Len(queue') = Len(queue) + 1
        /\ \A i \in 1 .. Len(queue) : queue'[i] = queue[i]
        /\ queue'[Len(queue) + 1] = p
      BY <1>1, AppendProperties DEF TypeOK, Post, Enqueued
  <2>2. /\ Len(posted') = Len(posted) + 1
        /\ \A i \in 1 .. Len(posted) : posted'[i] = posted[i]
        /\ posted'[Len(posted) + 1] = p
      BY <1>1, AppendProperties DEF TypeOK, Post
  <2>3. discarded = <<>> /\ Len(discarded) = 0
      BY <1>1, EmptySeq DEF Lifecycle, Post
  <2>5. Len(posted) = Len(finished) + InFlight + Len(queue)
      BY <2>3, <1>a, <1>b, <1>c
  <2>6. InFlight' = InFlight /\ finished' = finished /\ discarded' = discarded
      BY <1>1 DEF Post, InFlight
  <2>7. \A i \in 1 .. Len(finished) : finished[i].packet = posted'[i]
    <3>1. 1 .. Len(finished) \subseteq 1 .. Len(posted)
        BY <1>a, <1>b, <2>5
    <3> QED
        BY <3>1, <2>2 DEF InOrder
  <2>8. worker' = "writing" => item' = posted'[Len(finished) + 1]
    <3> SUFFICES ASSUME worker' = "writing" PROVE item' = posted'[Len(finished) + 1]
        OBVIOUS
    <3>1. worker = "writing" /\ item' = item
        BY <1>1 DEF Post
    <3>2. Len(finished) + 1 \in 1 .. Len(posted)
        BY <3>1, <1>a, <2>5 DEF InFlight
    <3> QED
        BY <3>1, <3>2, <2>2 DEF InOrder
  <2>9. ASSUME NEW i \in 1 .. Len(queue') PROVE queue'[i] = posted'[Len(finished) + InFlight + i]
    <3>1. CASE i = Len(queue) + 1
      <4>1. Len(finished) + InFlight + i = Len(posted) + 1
          BY <3>1, <2>5, <1>a, <1>b
      <4> QED
          BY <4>1, <3>1, <2>1, <2>2
    <3>2. CASE i \in 1 .. Len(queue)
      <4>1. Len(finished) + InFlight + i \in 1 .. Len(posted)
          BY <3>2, <2>5, <1>a, <1>b
      <4>2. queue[i] = posted[Len(finished) + InFlight + i]
          BY <3>2 DEF InOrder
      <4> QED
          BY <4>1, <4>2, <3>2, <2>1, <2>2
    <3> QED
        BY <3>1, <3>2, <2>1, <1>a
  <2>10. Len(posted') = Len(finished') + InFlight' + Len(queue') + Len(discarded')
      BY <2>1, <2>2, <2>3, <2>5, <2>6, <1>a, <1>b
  <2> QED
      BY <2>6, <2>7, <2>8, <2>9, <2>10 DEF InOrder
<1>2. ASSUME NEW c \in Callers, WakeWorker(c) PROVE InOrder'
    BY <1>2 DEF InOrder, InFlight, WakeWorker
<1>3. CASE Take
  <2>1. /\ item' = queue[1]
        /\ Len(queue') = Len(queue) - 1
        /\ \A i \in 1 .. Len(queue') : queue'[i] = queue[i + 1]
      BY <1>3, HeadTailProperties DEF TypeOK, Take
  <2>2. Len(queue) \in Nat \ {0}
      BY <1>3, EmptySeq DEF TypeOK, Take
  <2>3. /\ InFlight = 0 /\ InFlight' = 1
        /\ finished' = finished /\ posted' = posted /\ discarded' = discarded
      BY <1>3 DEF Take, InFlight
  <2>4. ASSUME NEW i \in 1 .. Len(queue) PROVE queue[i] = posted[Len(finished) + i]
    <3>1. queue[i] = posted[Len(finished) + InFlight + i]
        BY DEF InOrder
    <3>2. Len(finished) + InFlight + i = Len(finished) + i
        BY <2>3, <1>a
    <3> QED
        BY <3>1, <3>2
  <2>5. item' = posted[Len(finished) + 1]
      BY <2>1, <2>2, <2>4
  <2>6. ASSUME NEW i \in 1 .. Len(queue') PROVE queue'[i] = posted[Len(finished) + 1 + i]
    <3>1. i + 1 \in 1 .. Len(queue) /\ Len(finished) + (i + 1) = Len(finished) + 1 + i
        BY <2>1, <2>2, <1>a
    <3> QED
        BY <3>1, <2>1, <2>4
  <2>7. Len(posted') = Len(finished') + InFlight' + Len(queue') + Len(discarded')
      BY <2>1, <2>2, <2>3, <1>a, <1>c
  <2> QED
      BY <2>3, <2>5, <2>6, <2>7 DEF InOrder
<1>4. CASE Park \/ Stop \/ SignalDone \/ Unpark
    BY <1>4 DEF InOrder, InFlight, Park, Stop, SignalDone, Unpark
<1>5. ASSUME NEW ok \in BOOLEAN, FinishWrite(ok) PROVE InOrder'
  <2>1. Outcome(ok) \in Outcomes /\ Outcome(ok).packet = item
      BY <1>5 DEF FinishWrite, Lifecycle, Outcome, Outcomes
  <2>2. /\ Len(finished') = Len(finished) + 1
        /\ \A i \in 1 .. Len(finished) : finished'[i] = finished[i]
        /\ finished'[Len(finished) + 1].packet = item
      BY <1>5, <2>1, AppendProperties DEF TypeOK, FinishWrite
  <2>3. /\ InFlight = 1 /\ InFlight' = 0 /\ worker = "writing" /\ worker' # "writing"
        /\ queue' = queue /\ posted' = posted /\ discarded' = discarded
      BY <1>5 DEF FinishWrite, AfterWrite, InFlight
  <2>4. ASSUME NEW i \in 1 .. Len(finished') PROVE finished'[i].packet = posted[i]
    <3>1. CASE i \in 1 .. Len(finished)
        BY <3>1, <2>2 DEF InOrder
    <3>2. CASE i = Len(finished) + 1
        BY <3>2, <2>2, <2>3 DEF InOrder
    <3> QED
        BY <3>1, <3>2, <2>2, <1>a
  <2>5. Len(posted') = Len(finished') + InFlight' + Len(queue') + Len(discarded')
      BY <2>2, <2>3, <1>a, <1>c
  <2>6. ASSUME NEW i \in 1 .. Len(queue) PROVE queue[i] = posted[Len(finished') + InFlight' + i]
    <3>1. queue[i] = posted[Len(finished) + InFlight + i]
        BY DEF InOrder
    <3>2. Len(finished') + InFlight' + i = Len(finished) + InFlight + i
        BY <2>2, <2>3, <1>a
    <3> QED
        BY <3>1, <3>2
  <2> QED
      BY <2>3, <2>4, <2>5, <2>6 DEF InOrder
<1>6. CASE Report
    BY <1>6 DEF InOrder, InFlight, Report
<1>7. CASE CutStalledLink \/ BeginShutdown \/ WakeToStop \/ GraceExpires \/ Join \/ SignalIdle
    BY <1>7 DEF InOrder, InFlight, CutStalledLink, BeginShutdown, WakeToStop, GraceExpires, Join, SignalIdle
<1>8. CASE FreeQueued
  <2>1. discarded = <<>> /\ Len(discarded) = 0 /\ Len(queue') = 0
      BY <1>8, EmptySeq DEF Lifecycle, FreeQueued
  <2>2. InFlight' = InFlight
      BY <1>8 DEF FreeQueued, InFlight
  <2> QED
      BY <1>8, <1>a, <1>b, <1>c, <2>1, <2>2 DEF InOrder, FreeQueued
<1>9. CASE UNCHANGED vars
    BY <1>9 DEF InOrder, InFlight, vars
<1> QED
    BY <1>1, <1>2, <1>3, <1>4, <1>5, <1>6, <1>7, <1>8, <1>9
    DEF Next, CallerStep, WorkerStep, OwnerStep

\* Every step keeps FIdle true to its meaning.
LEMMA IdleStep == TypeOK /\ IdleIsTrue /\ Lifecycle /\ [Next]_vars => IdleIsTrue'
<1> SUFFICES ASSUME TypeOK, IdleIsTrue, Lifecycle, [Next]_vars PROVE IdleIsTrue'
    OBVIOUS
<1> USE DEF workerVars, history
<1>1. ASSUME NEW c \in Callers, NEW p \in Packets, Post(c, p) PROVE IdleIsTrue'
  <2>1. queue' # <<>>
    <3>1. queue \in Seq(Packets) /\ queue' = Append(queue, p)
        BY <1>1 DEF TypeOK, Post, Enqueued
    <3>2. Append(queue, p) # <<>>
        BY <3>1, AppendProperties
    <3> QED
        BY <3>1, <3>2
  <2> QED
      BY <1>1, <2>1 DEF IdleIsTrue, Post
<1>2. ASSUME NEW c \in Callers, WakeWorker(c) PROVE IdleIsTrue'
    BY <1>2 DEF IdleIsTrue, WakeWorker
<1>3. CASE Take \/ Park \/ Stop \/ SignalDone \/ Unpark
    BY <1>3 DEF IdleIsTrue, Take, Park, Stop, SignalDone, Unpark
<1>4. ASSUME NEW ok \in BOOLEAN, FinishWrite(ok) PROVE IdleIsTrue'
    BY <1>4 DEF TypeOK, IdleIsTrue, FinishWrite, IdleAfterWrite, AfterWrite
<1>5. CASE Report
    BY <1>5 DEF IdleIsTrue, Report
<1>6. CASE CutStalledLink \/ BeginShutdown \/ WakeToStop \/ GraceExpires \/ Join
    BY <1>6 DEF IdleIsTrue, CutStalledLink, BeginShutdown, WakeToStop, GraceExpires, Join
<1>7. CASE FreeQueued
    BY <1>7 DEF IdleIsTrue, Lifecycle, Gone, FreeQueued
<1>8. CASE SignalIdle
    BY <1>8 DEF IdleIsTrue, Lifecycle, Gone, SignalIdle
<1>9. CASE UNCHANGED vars
    BY <1>9 DEF IdleIsTrue, vars
<1> QED
    BY <1>1, <1>2, <1>3, <1>4, <1>5, <1>6, <1>7, <1>8, <1>9
    DEF Next, CallerStep, WorkerStep, OwnerStep

\* Every step leaves someone to wake a writer that sleeps on work.
LEMMA WakeStep == TypeOK /\ NoLostWake /\ Lifecycle /\ [Next]_vars => NoLostWake'
<1> SUFFICES ASSUME TypeOK, NoLostWake, Lifecycle, [Next]_vars PROVE NoLostWake'
    OBVIOUS
<1> USE DEF workerVars, history
<1>1. ASSUME NEW c \in Callers, NEW p \in Packets, Post(c, p) PROVE NoLostWake'
  <2>1. caller'[c] = "waking"
      BY <1>1 DEF TypeOK, Post
  <2>2. wake' = wake /\ stopping' = stopping /\ owner' = owner
      BY <1>1 DEF Post
  <2>3. worker' = "parked" => worker = "parked"
      BY <1>1 DEF Post
  <2> QED
      BY <2>1, <2>2, <2>3 DEF NoLostWake
<1>2. ASSUME NEW c \in Callers, WakeWorker(c) PROVE NoLostWake'
    BY <1>2 DEF NoLostWake, WakeWorker
<1>3. CASE Take \/ Park \/ Stop \/ SignalDone \/ Unpark \/ Report
    BY <1>3 DEF NoLostWake, Take, Park, Stop, SignalDone, Unpark, Report
<1>4. ASSUME NEW ok \in BOOLEAN, FinishWrite(ok) PROVE NoLostWake'
    BY <1>4 DEF NoLostWake, FinishWrite, AfterWrite
<1>5. CASE CutStalledLink \/ BeginShutdown \/ WakeToStop \/ GraceExpires \/ Join \/ SignalIdle
    BY <1>5 DEF NoLostWake, CutStalledLink, BeginShutdown, WakeToStop, GraceExpires, Join, SignalIdle
<1>6. CASE FreeQueued
    BY <1>6 DEF NoLostWake, Lifecycle, Gone, FreeQueued
<1>7. CASE UNCHANGED vars
    BY <1>7 DEF NoLostWake, vars
<1> QED
    BY <1>1, <1>2, <1>3, <1>4, <1>5, <1>6, <1>7
    DEF Next, CallerStep, WorkerStep, OwnerStep

\* The invariant is inductive.
LEMMA StepInv == IInv /\ [Next]_vars => IInv'
    BY TypeStep, LifecycleStep, OrderStep, IdleStep, WakeStep DEF IInv

LEMMA Inv == Spec => []IInv
    BY InitInv, StepInv, PTL DEF Spec

\* The state of the queue is always of its type.
THEOREM TypeCorrect == Spec => []TypeOK
<1>1. IInv => TypeOK
    BY DEF IInv
<1> QED
    BY <1>1, Inv, PTL

\* No packet is lost, duplicated or overtaken between Post and the socket, for any number
\* of packets and callers and whatever writes fail, block or are cut.
THEOREM PacketsInOrder == Spec => []InOrder
<1>1. IInv => InOrder
    BY DEF IInv
<1> QED
    BY <1>1, Inv, PTL

\* FIdle is never signalled with a packet queued or being written, and is unsignalled with
\* neither only between Shutdown's leave of the lock and its SetEvent.
THEOREM IdleMeansIdle == Spec => []IdleIsTrue
<1>1. IInv => IdleIsTrue
    BY DEF IInv
<1> QED
    BY <1>1, Inv, PTL

\* The writer thread never sleeps on work or on a stop request with nobody to wake it.
THEOREM WakeNotLost == Spec => []NoLostWake
<1>1. IInv => NoLostWake
    BY DEF IInv
<1> QED
    BY <1>1, Inv, PTL

---------------------------------------------------------------------------
\* The refinement: which step of the outbox a step of the queue is.

LEMMA RefinesInit == Init => Outbox!Init
    BY DEF Init, Outbox!Init

LEMMA RefinesStep == IInv /\ [Next]_vars => [Outbox!Next]_Outbox!vars
<1> SUFFICES ASSUME IInv, [Next]_vars PROVE [Outbox!Next]_Outbox!vars
    OBVIOUS
<1> USE DEF workerVars, history
<1>1. ASSUME NEW c \in Callers, NEW p \in Packets, Post(c, p) PROVE Outbox!Accept(p)
    BY <1>1 DEF IInv, Lifecycle, Post, Outbox!Accept
<1>2. ASSUME NEW ok \in BOOLEAN, FinishWrite(ok) PROVE Outbox!Settle(ok)
  <2>1. owner # "closed" /\ worker = "writing"
      BY <1>2 DEF IInv, Lifecycle, Gone, FinishWrite
  <2>2. Len(finished) < Len(posted)
    <3>1. /\ Len(queue) \in Nat /\ Len(posted) \in Nat
          /\ Len(finished) \in Nat /\ Len(discarded) \in Nat
        BY LenProperties DEF IInv, TypeOK
    <3>2. Len(posted) = Len(finished) + 1 + Len(queue) + Len(discarded)
        BY <2>1 DEF IInv, InOrder, InFlight
    <3> QED
        BY <3>1, <3>2
  <2>3. item = posted[Len(finished) + 1]
      BY <2>1 DEF IInv, InOrder
  <2> QED
      BY <1>2, <2>1, <2>2, <2>3 DEF FinishWrite, Outcome, Outbox!Settle
<1>3. CASE Report
  <2>1. owner # "closed" /\ Len(finished) = reported + 1 /\ reported \in Nat
      BY <1>3 DEF IInv, TypeOK, Lifecycle, Gone, Report
  <2> QED
      BY <1>3, <2>1 DEF Report, Outbox!Tell, Outbox!Next
<1>4. CASE SignalIdle
  <2>1. Len(finished) = reported /\ reported \in Nat
      BY <1>4 DEF IInv, TypeOK, Lifecycle, Gone, SignalIdle
  <2> QED
      BY <1>4, <2>1 DEF SignalIdle, Outbox!Close, Outbox!Next
<1>5. ASSUME NEW c \in Callers, WakeWorker(c) PROVE UNCHANGED Outbox!vars
    BY <1>5 DEF WakeWorker, Outbox!vars
<1>6. CASE Take \/ Park \/ Stop \/ SignalDone \/ Unpark \/ CutStalledLink \/ BeginShutdown
           \/ WakeToStop \/ GraceExpires \/ Join \/ FreeQueued
  <2>1. (owner' = "closed") = (owner = "closed")
      BY <1>6 DEF Take, Park, Stop, SignalDone, Unpark, CutStalledLink, BeginShutdown, WakeToStop,
                  GraceExpires, Join, FreeQueued
  <2> QED
      BY <1>6, <2>1 DEF Take, Park, Stop, SignalDone, Unpark, CutStalledLink, BeginShutdown, WakeToStop,
                  GraceExpires, Join, FreeQueued, Outbox!vars
<1>7. CASE UNCHANGED vars
    BY <1>7 DEF vars, Outbox!vars
<1> QED
    BY <1>1, <1>2, <1>3, <1>4, <1>5, <1>6, <1>7
    DEF Next, CallerStep, WorkerStep, OwnerStep, Outbox!Next

\* TNetSendQueue keeps the promise made to those who post: every behaviour of the queue is
\* one of the outbox.
THEOREM QueueImplementsOutbox == Spec => ImplementsOutbox
    BY RefinesInit, RefinesStep, Inv, PTL DEF Spec, ImplementsOutbox, Outbox!Spec
=============================================================================
