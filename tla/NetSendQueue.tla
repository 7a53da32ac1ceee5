---------------------------- MODULE NetSendQueue ----------------------------
(***************************************************************************)
(* TNetSendQueue (uNetSendQueue.pas) and the way TNetClient drives it:     *)
(* callers on any thread post packets, one writer thread takes them in     *)
(* order and hands each to a writer function that may block, three events  *)
(* (FWake auto-reset, FIdle and FDone manual-reset) tie them together, and *)
(* Shutdown stops the thread within a bounded time.                        *)
(*                                                                         *)
(* A packet's kind, bytes and tag are one member of Packets.  A critical   *)
(* section is one step; every SetEvent and WaitFor outside one is a step   *)
(* of its own.  Time-outs may expire at any moment.                        *)
(***************************************************************************)
EXTENDS Naturals, Sequences

CONSTANTS
    Packets,    \* what callers post; each is posted once
    Callers,    \* the threads that post: main thread, connect thread
    None        \* no packet

ASSUME NoneAssumption == None \notin Packets

VARIABLES
    queue,      \* FQueue
    stopping,   \* FStopping
    wake,       \* FWake is signalled
    idle,       \* FIdle is signalled
    done,       \* FDone is signalled
    worker,     \* where the writer thread is in RunWorker; "none" before it exists
    item,       \* the packet in the writer's hands
    cut,        \* the socket was closed under the write in flight (CutStalledLink)
    caller,     \* per caller: "ready", or "waking" between Post's Leave and SetEvent
    owner,      \* where the owner is in Shutdown
    posted,     \* history: packets accepted by Post, in order
    finished,   \* history: the outcome of every finished write, in order
    reported,   \* history: how many outcomes went to OnWritten or OnLost
    discarded   \* history: packets freed unwritten by Shutdown

workerVars == <<worker, item, cut>>
history == <<posted, finished, reported, discarded>>
vars == <<queue, stopping, wake, idle, done, worker, item, cut, caller, owner,
          posted, finished, reported, discarded>>

Outcomes == [packet : Packets, written : BOOLEAN]

Init ==
    /\ queue = <<>>
    /\ stopping = FALSE
    /\ wake = FALSE
    /\ idle = TRUE
    /\ done = FALSE
    /\ worker = "none"
    /\ item = None
    /\ cut = FALSE
    /\ caller = [c \in Callers |-> "ready"]
    /\ owner = "running"
    /\ posted = <<>>
    /\ finished = <<>>
    /\ reported = 0
    /\ discarded = <<>>

---------------------------------------------------------------------------
(***************************************************************************)
(* Mutated forms: what a slip in the code would make of a definition       *)
(* below.  No definition uses them; each shows that a property can fail.   *)
(***************************************************************************)

\* FQueue.Insert(0, item).
Bug_PushFront(p) == <<p>> \o queue


\* FIdle set after every write, without asking for FQueue.Count = 0.
Bug_IdleAfterEveryWrite == TRUE

\* A failed write leaves RunWorker's loop.
Bug_FailureEndsLoop(ok) == IF ok THEN "reporting" ELSE "exited"

\* Post without FWake.SetEvent.
Bug_NoSetEvent(c) ==
    /\ caller[c] = "waking"
    /\ caller' = [caller EXCEPT ![c] = "ready"]
    /\ UNCHANGED <<queue, stopping, wake, idle, done, workerVars, owner, history>>

\* Shutdown carries on when the grace is over, although the thread still writes.
Bug_CarryOn ==
    /\ owner = "joining"
    /\ ~done
    /\ owner' = "clearing"
    /\ UNCHANGED <<queue, stopping, wake, idle, done, workerVars, caller, history>>

\* The loop is left only when the queue has drained as well.
Bug_StopWhenDrained ==
    /\ worker = "loop"
    /\ stopping /\ queue = <<>>
    /\ worker' = "leaving"
    /\ UNCHANGED <<queue, stopping, wake, idle, done, item, cut, caller, owner, history>>

---------------------------------------------------------------------------
\* Single statements of the code that carry a property.

\* FQueue.Add.
Enqueued(p) == Append(queue, p)

\* What OnWritten or OnLost will say of the packet in hand.
Outcome(ok) == [packet |-> item, written |-> ok]

\* FIdle after a write: set when nothing is queued, in the same critical section.
IdleAfterWrite == idle \/ queue = <<>>

\* A failed write, an exception included, leaves the loop running.
AfterWrite(ok) == "reporting"

---------------------------------------------------------------------------
\* The callers.

\* Post's critical section; a Post refused because of FStopping changes nothing.
Post(c, p) ==
    /\ caller[c] = "ready"
    /\ ~stopping
    /\ \A i \in DOMAIN posted : posted[i] # p
    /\ queue' = Enqueued(p)
    /\ posted' = Append(posted, p)
    /\ idle' = FALSE
    /\ worker' = IF worker = "none" THEN "loop" ELSE worker     \* EnsureWorker
    /\ caller' = [caller EXCEPT ![c] = "waking"]
    /\ UNCHANGED <<stopping, wake, done, item, cut, owner, finished, reported, discarded>>

\* FWake.SetEvent, after the lock has been left.
WakeWorker(c) ==
    /\ caller[c] = "waking"
    /\ wake' = TRUE
    /\ caller' = [caller EXCEPT ![c] = "ready"]
    /\ UNCHANGED <<queue, stopping, idle, done, workerVars, owner, history>>

---------------------------------------------------------------------------
\* The writer thread, RunWorker.

\* The critical section at the top of the loop finds a packet.
Take ==
    /\ worker = "loop"
    /\ ~stopping
    /\ queue # <<>>
    /\ item' = Head(queue)
    /\ queue' = Tail(queue)
    /\ worker' = "writing"
    /\ UNCHANGED <<stopping, wake, idle, done, cut, caller, owner, history>>

\* ... or nothing, and the thread waits for FWake ...
Park ==
    /\ worker = "loop"
    /\ ~stopping
    /\ queue = <<>>
    /\ worker' = "parked"
    /\ UNCHANGED <<queue, stopping, wake, idle, done, item, cut, caller, owner, history>>

\* ... or FStopping: the loop is left ...
Stop ==
    /\ worker = "loop"
    /\ stopping
    /\ worker' = "leaving"
    /\ UNCHANGED <<queue, stopping, wake, idle, done, item, cut, caller, owner, history>>

\* ... and FDone.SetEvent is the thread's last act.
SignalDone ==
    /\ worker = "leaving"
    /\ done' = TRUE
    /\ worker' = "exited"
    /\ UNCHANGED <<queue, stopping, wake, idle, item, cut, caller, owner, history>>

\* FWake.WaitFor(1000) returns: signalled, which resets the event, or timed out.
Unpark ==
    /\ worker = "parked"
    /\ wake' = FALSE
    /\ worker' = "loop"
    /\ UNCHANGED <<queue, stopping, idle, done, item, cut, caller, owner, history>>

\* The writer function returns, or raises, and the second critical section runs.
\* A write whose socket was closed under it fails.
FinishWrite(ok) ==
    /\ worker = "writing"
    /\ cut => ~ok
    /\ finished' = Append(finished, Outcome(ok))
    /\ idle' = IdleAfterWrite
    /\ worker' = AfterWrite(ok)
    /\ cut' = FALSE
    /\ UNCHANGED <<queue, stopping, wake, done, item, caller, owner, posted, reported, discarded>>

\* OnWritten or OnLost, outside the lock.
Report ==
    /\ worker = "reporting"
    /\ reported' = reported + 1
    /\ item' = None
    /\ worker' = "loop"
    /\ UNCHANGED <<queue, stopping, wake, idle, done, cut, caller, owner, posted, finished, discarded>>

---------------------------------------------------------------------------
\* The owner, TNetClient: its reader's watchdog or its Disconnect closes the
\* socket under a write that does not end.
CutStalledLink ==
    /\ worker = "writing"
    /\ ~cut
    /\ cut' = TRUE
    /\ UNCHANGED <<queue, stopping, wake, idle, done, worker, item, caller, owner, history>>

\* Shutdown: WaitIdle has returned, whatever it returned; FStopping is set.  After a
\* call that returned False the owner may call it again.
BeginShutdown ==
    /\ owner \in {"running", "stuck"}
    /\ stopping' = TRUE
    /\ owner' = IF worker = "none" THEN "clearing" ELSE "waking"
    /\ UNCHANGED <<queue, wake, idle, done, workerVars, caller, history>>

WakeToStop ==
    /\ owner = "waking"
    /\ wake' = TRUE
    /\ owner' = "joining"
    /\ UNCHANGED <<queue, stopping, idle, done, workerVars, caller, history>>

\* FDone.WaitFor(250) times out: Shutdown returns False.
GraceExpires ==
    /\ owner = "joining"
    /\ ~done
    /\ owner' = "stuck"
    /\ UNCHANGED <<queue, stopping, wake, idle, done, workerVars, caller, history>>

\* FDone is signalled: the thread is waited for and freed.  Destroy waits for it without
\* a bound when its own Shutdown returned False.
Join ==
    /\ owner \in {"joining", "stuck"}
    /\ done
    /\ owner' = "clearing"
    /\ UNCHANGED <<queue, stopping, wake, idle, done, workerVars, caller, history>>

\* The critical section that frees what is left ...
FreeQueued ==
    /\ owner = "clearing"
    /\ discarded' = queue
    /\ queue' = <<>>
    /\ owner' = "freed"
    /\ UNCHANGED <<stopping, wake, idle, done, workerVars, caller, posted, finished, reported>>

\* ... FIdle.SetEvent, after the lock has been left, and Shutdown returns True.
SignalIdle ==
    /\ owner = "freed"
    /\ idle' = TRUE
    /\ owner' = "closed"
    /\ UNCHANGED <<queue, stopping, wake, done, workerVars, caller, history>>

---------------------------------------------------------------------------
CallerStep == \E c \in Callers : WakeWorker(c) \/ \E p \in Packets : Post(c, p)

WorkerStep ==
    \/ Take
    \/ Park
    \/ Stop
    \/ SignalDone
    \/ Unpark
    \/ \E ok \in BOOLEAN : FinishWrite(ok)
    \/ Report

OwnerStep ==
    \/ CutStalledLink
    \/ BeginShutdown
    \/ WakeToStop
    \/ GraceExpires
    \/ Join
    \/ FreeQueued
    \/ SignalIdle

Next == CallerStep \/ WorkerStep \/ OwnerStep

Spec == Init /\ [][Next]_vars

(***************************************************************************)
(* Fairness.  The threads run: a caller that left the lock sets the event, *)
(* the writer goes round its loop and a started Shutdown goes on to its    *)
(* end.  Nothing obliges the owner to call a Shutdown that returned False  *)
(* again (TNetClient.Destroy leaves socket and queue allocated).  A write  *)
(* need not end by itself (Indy's Write has no time-out), but the reader's *)
(* watchdog, or Disconnect once the reader is to stop, closes the socket   *)
(* of one that does not, and then it ends.                                 *)
(***************************************************************************)
Fairness ==
    /\ \A c \in Callers : WF_vars(WakeWorker(c))
    /\ WF_vars(Take \/ Park \/ Stop \/ SignalDone \/ Unpark \/ Report)
    /\ WF_vars(CutStalledLink)
    /\ WF_vars(cut /\ FinishWrite(FALSE))
    /\ WF_vars(WakeToStop)
    /\ WF_vars(owner = "joining" /\ (Join \/ GraceExpires))
    /\ WF_vars(FreeQueued \/ SignalIdle)

FairSpec == Spec /\ Fairness

---------------------------------------------------------------------------
WorkerStates == {"none", "loop", "parked", "writing", "reporting", "leaving", "exited"}
OwnerStates == {"running", "waking", "joining", "stuck", "clearing", "freed", "closed"}

\* Every variable has its type.  (State of TNetSendQueue.)
TypeOK ==
    /\ queue \in Seq(Packets)
    /\ stopping \in BOOLEAN
    /\ wake \in BOOLEAN
    /\ idle \in BOOLEAN
    /\ done \in BOOLEAN
    /\ worker \in WorkerStates
    /\ item \in Packets \cup {None}
    /\ cut \in BOOLEAN
    /\ caller \in [Callers -> {"ready", "waking"}]
    /\ owner \in OwnerStates
    /\ posted \in Seq(Packets)
    /\ finished \in Seq(Outcomes)
    /\ reported \in Nat
    /\ discarded \in Seq(Packets)

InFlight == IF worker = "writing" THEN 1 ELSE 0

\* No packet is lost, duplicated or overtaken: at every moment the packets posted
\* are, in order, those whose write finished, the one in flight, those queued and
\* those Shutdown freed ("NEVER DROPPED", "order between packets").
InOrder ==
    /\ Len(posted) = Len(finished) + InFlight + Len(queue) + Len(discarded)
    /\ \A i \in 1 .. Len(finished) : finished[i].packet = posted[i]
    /\ worker = "writing" => item = posted[Len(finished) + 1]
    /\ \A i \in 1 .. Len(queue) : queue[i] = posted[Len(finished) + InFlight + i]

\* WaitIdle tells the truth: while FIdle is signalled nothing is queued and no write is
\* in flight ("True when everything posted has been written (or lost)"), although Post
\* resets it in one critical section and the writer sets it in another; and nobody waits
\* for nothing, but for the moment in which Shutdown has freed the queue and left the
\* lock and has yet to set the event.
IdleIsTrue ==
    /\ idle => queue = <<>> /\ worker # "writing"
    /\ ~idle => queue # <<>> \/ worker = "writing" \/ owner = "freed"

\* The writer never sleeps on work: when it waits for FWake with a packet queued or
\* a stop requested, the event is signalled or the one who will signal it is about to.
NoLostWake ==
    worker = "parked" =>
        /\ queue # <<>> => wake \/ \E c \in Callers : caller[c] = "waking"
        /\ stopping => wake \/ owner = "waking"

\* The queue implements the promise made to its callers.
Outbox == INSTANCE PacketOutbox WITH
    settled <- finished,
    told <- reported,
    closed <- (owner = "closed")
ImplementsOutbox == Outbox!Spec

\* A packet accepted by Post gets an outcome, unless Shutdown comes first, even when
\* writes block: the watchdog cuts them loose.
EveryPacketSettles ==
    \A p \in Packets :
        (\E i \in DOMAIN posted : posted[i] = p)
            ~> (stopping \/ \E i \in DOMAIN finished : finished[i].packet = p)

\* A Shutdown that was begun comes to its end with the writer thread gone, even when it
\* found the thread stuck inside a write; it may have returned False by then.
WriterGone == worker \in {"none", "exited"}
ShutdownEnds == stopping ~> WriterGone /\ owner \in {"closed", "stuck"}
=============================================================================
