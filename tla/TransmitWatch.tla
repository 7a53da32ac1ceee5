---------------------------- MODULE TransmitWatch ----------------------------
(***************************************************************************)
(* The transmit/receive watcher src/tools/k3watch.py beside the rig it     *)
(* keys and polls.  The rig takes CAT commands in order and answers on the *)
(* serial line; it may ignore an order to stop transmitting and the line   *)
(* may lose an answer.  Every command waits in the rig's own input queue   *)
(* until the rig takes it.  A prompt rig has handled what waits when a     *)
(* sleep of 0.3 s or more is over, and lets a command wait for at most one *)
(* whole turn of the loop; any other rig answers as late as it likes, so   *)
(* the tool can read the answer to an older question.  A burst adds to the *)
(* queue only commands that change nothing and carry no flag: they are     *)
(* part of how late a rig is.  One turn of the tool's loop takes one unit  *)
(* of time (half a second here), whatever it does.                         *)
(***************************************************************************)
EXTENDS Integers, Sequences, SequencesExt

CONSTANTS ModesTried,   \* the ways to poll: a subset of PollModes
          AiLevels,     \* auto-info levels of the rig
          KeyTime,      \* --key, in units
          MaxSeconds,   \* --max-seconds, in units
          MaxFaults,    \* orders ignored and answers lost
          MaxWaiting    \* bound: commands that wait in a late rig over a sleep or a turn

PollModes == {"paced", "waitall", "timer", "listen"}

ASSUME WatchAssumption ==
    /\ ModesTried \subseteq PollModes
    /\ AiLevels \subseteq Nat /\ 0 \in AiLevels
    /\ {KeyTime, MaxSeconds, MaxFaults, MaxWaiting} \subseteq Nat

NotAsked == -1          \* no --ai was given
Unknown  == -2          \* the rig did not say its level
Never    == -1          \* a time not reached yet

\* The times of the code, in units of half a second.
TxDelay      == 2
ReplyTimeout == 1
SettleSlack  == 1
WatchSlack   == 3
RetryGap     == 2
Attempts     == 5

VARIABLES opts,       \* [mode, ai, key]: the command line; [found, prompt]: the level of
                      \* the rig then, and whether it is prompt
          rig,        \* [tx, ai]: what the rig does
          cmds,       \* commands the rig has not handled
          line,       \* answers the tool has not read
          pc,         \* where main() stands
          now, buf, pollBuf, pending, sentAt, lastFlag, keyAt, unkeySent,
          lastRetry, originalAi, tries,
          said,       \* what was printed at the end
          why,        \* what ended the loop, or where Ctrl-C ended the tool
          faults,
          overdue,    \* commands a prompt rig has let wait for a turn
          keyed       \* turns of the loop the rig has transmitted after TX

loopVars == <<buf, pollBuf, pending, sentAt, lastFlag, keyAt, unkeySent, lastRetry>>
vars == <<opts, rig, cmds, line, pc, now, loopVars, originalAi, tries, said, why,
          faults, overdue, keyed>>

Cmd(n)    == [op |-> n, level |-> 0]
SetAi(l)  == [op |-> "setAI", level |-> l]
Flag(b)   == IF b THEN "1" ELSE "0"
Answer(k, v) == [kind |-> k, value |-> v]

------------------------------------------------------------------------------
\* The rig

\* A rig whose auto-info is on reports a change of T/R unasked.
Push(r, tx) == IF r.ai > 0 /\ r.tx # tx THEN <<Answer("IF", Flag(tx))>> ELSE <<>>

Reply(r, c) ==
    CASE c.op = "IF" -> <<Answer("IF", Flag(r.tx))>>
      [] c.op = "AI" -> <<Answer("AI", r.ai)>>
      [] c.op = "TX" -> Push(r, TRUE)
      [] c.op = "RX" -> Push(r, FALSE)
      [] OTHER       -> <<>>

After(r, c) ==
    CASE c.op = "TX"    -> [r EXCEPT !.tx = TRUE]
      [] c.op = "RX"    -> [r EXCEPT !.tx = FALSE]
      [] c.op = "setAI" -> [r EXCEPT !.ai = c.level]
      [] OTHER          -> r

RigUnchanged == UNCHANGED <<opts, pc, now, loopVars, originalAi, tries, said, why,
                            keyed>>

Ended == pc \in {"closed", "aborted"}   \* the port is shut

Less(n) == IF n = 0 THEN 0 ELSE n - 1

Handle == /\ cmds # <<>> /\ ~Ended
          /\ rig'  = After(rig, Head(cmds))
          /\ line' = line \o Reply(rig, Head(cmds))
          /\ cmds' = Tail(cmds)
          /\ overdue' = Less(overdue)
          /\ UNCHANGED faults /\ RigUnchanged

\* The rig stays keyed although it was told to stop.
IgnoreUnkey == /\ cmds # <<>> /\ ~Ended /\ faults < MaxFaults
               /\ Head(cmds).op = "RX"
               /\ cmds' = Tail(cmds) /\ faults' = faults + 1 /\ overdue' = Less(overdue)
               /\ UNCHANGED <<rig, line>> /\ RigUnchanged

\* The command takes effect but its answer never reaches the tool.
LoseAnswer == /\ cmds # <<>> /\ ~Ended /\ faults < MaxFaults
              /\ Reply(rig, Head(cmds)) # <<>>
              /\ rig'  = After(rig, Head(cmds))
              /\ cmds' = Tail(cmds) /\ faults' = faults + 1 /\ overdue' = Less(overdue)
              /\ UNCHANGED line /\ RigUnchanged

------------------------------------------------------------------------------
\* Reading the line

\* The value of the last answer of a kind in a buffer.
LastOf(s, kind, absent) == LET i == SelectLastInSeq(s, LAMBDA a : a.kind = kind)
                           IN IF i = 0 THEN absent ELSE s[i].value

\* find_last_if and tr_flag: the flag of the last report in a buffer, or "none".
FlagIn(s) == LastOf(s, "IF", "none")

\* What read_ai finds after its sleep.
LevelIn(s) == LastOf(s, "AI", Unknown)

\* The report that changed the flag is consumed together with all before it.
AfterLastReport(s) ==
    SubSeq(s, 1 + SelectLastInSeq(s, LAMBDA a : a.kind = "IF"), Len(s))

------------------------------------------------------------------------------
\* main(): before the loop

\* A sleep of 0.3 s or more is over.
Slept == IF opts.prompt THEN cmds = <<>> ELSE Len(cmds) <= MaxWaiting

Go(from, to) == pc = from /\ pc' = to

\* The port is opened with DTR and RTS low, so opening keys nothing.
Open == /\ Go("open", "drain")
        /\ cmds' = Append(cmds, Cmd("RX"))
        /\ UNCHANGED <<opts, rig, line, now, loopVars, originalAi, tries, said, why,
                       faults, overdue, keyed>>

Setup(writes) == /\ Slept /\ cmds' = cmds \o writes /\ line' = <<>>
                 /\ UNCHANGED <<opts, rig, now, loopVars, tries, said, why, faults,
                                overdue, keyed>>

Drain == /\ Go("drain", IF opts.ai = NotAsked THEN "loop" ELSE "aiRead")
         /\ Setup(IF opts.ai = NotAsked THEN <<>> ELSE <<Cmd("AI")>>)
         /\ UNCHANGED originalAi

\* Mutant: the level is restored to AI0, not to what the rig had.
AiReadAssumes == /\ Go("aiRead", "aiSet")
                 /\ originalAi' = 0
                 /\ Setup(<<SetAi(opts.ai)>>)

\* The level is read before it is written.
AiRead == /\ Go("aiRead", "aiSet")
          /\ originalAi' = LevelIn(line)
          /\ Setup(<<SetAi(opts.ai)>>)

AiSet == /\ Go("aiSet", "aiCheck") /\ Setup(<<Cmd("AI")>>) /\ UNCHANGED originalAi

\* The answer is only printed.
AiCheck == /\ Go("aiCheck", "loop") /\ Setup(<<>>) /\ UNCHANGED originalAi

------------------------------------------------------------------------------
\* main(): one turn of the loop

Keying  == opts.key /\ keyAt = Never /\ now > TxDelay
Unkeying == opts.key /\ keyAt # Never /\ ~unkeySent /\ now - keyAt >= KeyTime

\* --interval sends every turn; paced polling sends when nothing is pending.
Polling == CASE opts.mode = "listen" -> FALSE
             [] opts.mode = "timer"  -> TRUE
             [] OTHER                -> ~pending

TimedOut == opts.mode \in {"paced", "waitall"} /\ pending /\ now - sentAt > ReplyTimeout

\* What the loop takes for the answer to its poll: with --wait-all the line has
\* answered and gone quiet, otherwise any report found in the whole buffer.
Satisfied(data, text, own) ==
    IF opts.mode = "waitall" THEN own # <<>> /\ data = <<>> ELSE FlagIn(text) # "none"

\* Mutant: no watchdog.
WatchdogOff(flag, at, unit) == FALSE

\* The rig has been seen keyed for longer than was asked.
WatchdogDue(flag, at, unit) ==
    /\ at # Never /\ flag = "1"
    /\ unit - at > KeyTime + WatchSlack
    /\ unit - lastRetry > RetryGap

Settled(flag, at, sent, unit) ==
    /\ opts.key /\ sent /\ flag = "0" /\ unit - at > KeyTime + SettleSlack

HardStop(unit) == unit > MaxSeconds

When(c, s) == IF c THEN s ELSE <<>>

\* Where an ended loop goes: the level is written back if it was ever read.
Finally == IF opts.ai # NotAsked /\ originalAi # Unknown THEN "aiBack" ELSE "ensure"

Loop ==
    /\ pc = "loop" /\ overdue = 0
    /\ opts.prompt \/ Len(cmds) <= MaxWaiting
    /\ overdue' = IF opts.prompt THEN Len(cmds) ELSE 0
    /\ now' = now + 1
    /\ LET text == buf \o line
           own  == IF Polling THEN line ELSE pollBuf \o line
           flag == FlagIn(text)
           due  == WatchdogDue(lastFlag', keyAt', now)
       IN /\ keyAt' = IF Keying THEN now ELSE keyAt
          /\ unkeySent' = (unkeySent \/ Unkeying)
          /\ sentAt' = IF Polling THEN now ELSE sentAt
          /\ pollBuf' = own
          /\ pending' = /\ opts.mode # "timer"
                        /\ Polling \/ (pending /\ ~TimedOut)
                        /\ ~Satisfied(line, text, own)
          /\ lastFlag' = IF flag = "none" THEN lastFlag ELSE flag
          /\ buf' = IF flag \notin {"none", lastFlag} THEN AfterLastReport(text)
                    ELSE IF flag = "none" THEN <<>> ELSE <<Answer("IF", flag)>>
          /\ lastRetry' = IF due THEN now ELSE lastRetry
          /\ cmds' = cmds \o When(Keying, <<Cmd("TX")>>) \o When(Unkeying, <<Cmd("RX")>>)
                          \o When(Polling, <<Cmd("IF")>>) \o When(due, <<Cmd("RX")>>)
          /\ why' = IF HardStop(now) THEN "max"
                    ELSE IF Settled(lastFlag', keyAt', unkeySent', now) THEN "settled"
                    ELSE why
          /\ pc' = IF why' = "" THEN "loop" ELSE Finally
    /\ line' = <<>>
    /\ keyed' = IF rig.tx /\ keyAt # Never THEN keyed + 1 ELSE keyed
    /\ UNCHANGED <<opts, rig, originalAi, tries, said, faults>>

\* Ctrl-C, or the port raising an error, at any turn.
Interrupt == /\ pc = "loop" /\ pc' = Finally /\ why' = "interrupt"
             /\ UNCHANGED <<opts, rig, cmds, line, now, loopVars, originalAi, tries,
                            said, faults, overdue, keyed>>

------------------------------------------------------------------------------
\* main(): the finally clause

EndUnchanged == UNCHANGED <<opts, rig, now, loopVars, originalAi, why, faults, overdue, keyed>>

AiBack == /\ Go("aiBack", "aiAsk")
          /\ cmds' = Append(cmds, SetAi(originalAi))
          /\ UNCHANGED <<line, tries, said>> /\ EndUnchanged

AiAsk == /\ Go("aiAsk", "aiBelieve") /\ Slept
         /\ cmds' = Append(cmds, Cmd("AI")) /\ line' = <<>>
         /\ UNCHANGED <<tries, said>> /\ EndUnchanged

AiBelieve == /\ Go("aiBelieve", "ensure") /\ Slept
             /\ said' = [said EXCEPT !.ai = IF LevelIn(line) = originalAi THEN "restored"
                                            ELSE "warned"]
             /\ line' = <<>>
             /\ UNCHANGED <<cmds, tries>> /\ EndUnchanged

\* ensure_receive: one attempt is RX;, a sleep, IF;, a sleep, a look.
Unkey == /\ Go("ensure", "ask")
         /\ cmds' = Append(cmds, Cmd("RX")) /\ line' = <<>>
         /\ UNCHANGED <<tries, said>> /\ EndUnchanged

Ask == /\ Go("ask", "look") /\ Slept
       /\ cmds' = Append(cmds, Cmd("IF"))
       /\ UNCHANGED <<line, tries, said>> /\ EndUnchanged

\* Mutant: the first answer is taken for agreement.
LookAndClaim == /\ pc = "look" /\ Slept
                /\ pc' = "closed" /\ tries' = tries + 1
                /\ said' = [said EXCEPT !.tx = "confirmed"] /\ line' = <<>>
                /\ UNCHANGED cmds /\ EndUnchanged

Look == /\ pc = "look" /\ Slept
        /\ LET ok == FlagIn(line) = "0" IN
           /\ tries' = tries + 1
           /\ pc' = IF ok \/ tries' = Attempts THEN "closed" ELSE "ensure"
           /\ said' = [said EXCEPT !.tx = IF ok THEN "confirmed"
                                          ELSE IF tries' = Attempts THEN "warned" ELSE ""]
        /\ line' = <<>>
        /\ UNCHANGED cmds /\ EndUnchanged

------------------------------------------------------------------------------
\* Ctrl-C, or an error that is not caught, outside the loop: before the try
\* nothing is put back, and a second one ends the finally clause where it stands.
Abort == /\ pc # "loop" /\ ~Ended /\ pc' = "aborted" /\ why' = pc
         /\ UNCHANGED <<opts, rig, cmds, line, now, loopVars, originalAi, tries, said,
                        faults, overdue, keyed>>

Done == Ended /\ UNCHANGED vars

------------------------------------------------------------------------------
Init ==
    /\ opts \in [mode : ModesTried, ai : AiLevels \cup {NotAsked}, key : BOOLEAN,
               found : AiLevels, prompt : BOOLEAN]
    /\ opts.mode = "listen" => opts.ai > 0
    /\ rig \in [tx : BOOLEAN, ai : {opts.found}]
    /\ cmds = <<>> /\ line = <<>> /\ buf = <<>> /\ pollBuf = <<>>
    /\ pc = "open" /\ now = 0 /\ pending = FALSE /\ sentAt = 0
    /\ lastFlag = "none" /\ keyAt = Never /\ unkeySent = FALSE /\ lastRetry = 0
    /\ originalAi = Unknown /\ tries = 0 /\ why = ""
    /\ said = [ai |-> "", tx |-> ""]
    /\ faults = 0 /\ overdue = 0 /\ keyed = 0

Rig  == Handle \/ IgnoreUnkey \/ LoseAnswer
Tool == \/ Open \/ Drain \/ AiRead \/ AiSet \/ AiCheck
        \/ Loop \/ Interrupt
        \/ AiBack \/ AiAsk \/ AiBelieve \/ Unkey \/ Ask \/ Look \/ Abort

Next == Rig \/ Tool \/ Done

Spec == Init /\ [][Next]_vars

------------------------------------------------------------------------------
Waits(op) == \E i \in DOMAIN cmds : cmds[i].op = op

\* Once it has handled what waits, the rig receives.
ReceivesAtRest ==
    \/ ~rig.tx /\ ~Waits("TX")
    \/ \E j \in DOMAIN cmds : /\ cmds[j].op = "RX"
                              /\ \A i \in DOMAIN cmds : cmds[i].op = "TX" => i < j

\* Once it has handled what waits, the rig has the auto-info level l.
LevelAtRest(l) ==
    \/ rig.ai = l /\ ~Waits("setAI")
    \/ \E j \in DOMAIN cmds : /\ cmds[j] = SetAi(l)
                              /\ \A i \in DOMAIN cmds : cmds[i].op = "setAI" => i <= j

\* The tool got to its end, or to one of these places when Ctrl-C ended it.
GotTo(places) == pc = "closed" \/ (pc = "aborted" /\ why \in places)

\* Whatever ends the tool once it has given its RX; (k3watch.py:118-140), a rig
\* that obeys ends in receive, whatever still waits in it; and when the tool says
\* the rig is confirmed in receive, a rig that has handled everything receives,
\* although one order was ignored or one answer lost on the way.  (A rig that is
\* late may transmit for a while yet: ConfirmedIsSo.)
ConfirmedInReceive ==
    /\ GotTo({"ask", "look"}) /\ faults = 0 => ReceivesAtRest
    /\ said.tx = "confirmed" /\ cmds = <<>> /\ faults <= 1 => ~rig.tx

\* A prompt rig is keyed no longer than was asked plus the watchdog's slack and
\* the turns its answers are late, although an unkey was ignored or an answer
\* lost.
TransmissionIsBounded == opts.prompt => keyed <= KeyTime + WatchSlack + 2

\* A rig whose auto-info level was read first has that level again once it has
\* handled what it was sent, whatever ends the tool, a Ctrl-C excepted that falls
\* between the write of the level (291) and the try (341) or, a second one, before
\* the finally clause has written it back (LevelIsRestoredOnExit); and it has it
\* already when the tool says so, late answers or not.
LevelComesBack ==
    opts.ai # NotAsked /\ originalAi # Unknown =>
        /\ GotTo({"aiAsk", "aiBelieve", "ensure", "ask", "look"}) => LevelAtRest(opts.found)
        /\ said.ai = "restored" => rig.ai = opts.found

------------------------------------------------------------------------------
\* What the tool says of itself and a late rig or a badly timed Ctrl-C refutes.

\* "Send RX; and CONFIRM the rig acted on it.  Returns True if it did."
\* (k3watch.py:119)
ConfirmedIsSo == said.tx = "confirmed" => ~rig.tx

\* "READ BEFORE WRITE, AND RESTORE WHAT WAS THERE" (k3watch.py:276), whenever the
\* level was read: a Ctrl-C between the write and the try leaves it changed.
LevelIsRestoredOnExit == Ended /\ originalAi # Unknown => LevelAtRest(opts.found)

\* "the script always sends RX; on the way out, including on Ctrl-C"
\* (k3watch.py:29-30): whatever ends it, a rig that was keyed and obeys ends in
\* receive.  A second Ctrl-C finds the level being restored and RX; not yet sent.
UnkeyedOnTheWayOut == Ended /\ keyAt # Never /\ faults = 0 => ReceivesAtRest
==============================================================================
