---------------------------- MODULE MCBenchProofs ----------------------------
(***************************************************************************)
(* Of the tools of MCBench each stands still while another runs, so an     *)
(* invariant of one is an invariant of the sum.                            *)
(*                                                                         *)
(* The transmit watcher: what it confirms, and the level it gives back.    *)
(* However late the rig is, its queue is in order: behind the unkey of     *)
(* ensure_receive waits no order to key, and behind the order to restore   *)
(* the level none that sets another. One order ignored does not deceive a  *)
(* tool whose question was handled, as the report it then reads is of a    *)
(* rig that transmits. An answer with the level that was read comes from a *)
(* rig that has it back: nothing that asks is before the order that set    *)
(* the other level.                                                        *)
(*                                                                         *)
(* The transmit watcher: how long it keys. The order to key is followed in *)
(* the rig's queue by an order to stop, or will be; and until the fault    *)
(* has happened by a poll, by a push, or by a poll that is about to time   *)
(* out, so that a rig that ignored the order is seen to transmit before    *)
(* the watchdog's time, and is told again.                                 *)
(*                                                                         *)
(* The simulated radio: of every field the driver follows the last thing   *)
(* pushed is so, or is about to be said again, or differs from what the    *)
(* reader last compared with.                                              *)
(*                                                                         *)
(* The simulated radio: what is set is read back. A radio has its fields   *)
(* and receives and transmits on one of two VFOs, a Yaesu on the first;    *)
(* then each personality's table is gone through pair by pair.             *)
(***************************************************************************)
EXTENDS MCBench, TLAPS, SequenceTheorems, WellFoundedInduction

CmdType    == [op : {"TX", "RX", "IF", "AI", "setAI"}, level : Int]
AnswerType == [kind : {"IF"}, value : {"0", "1"}] \cup [kind : {"AI"}, value : Int]
SaidType   == [ai : {"", "restored", "warned"}, tx : {"", "confirmed", "warned"}]

WatchTypes ==
    /\ opts.ai \in Int /\ opts.found \in Int /\ opts.prompt \in BOOLEAN
    /\ rig \in [tx : BOOLEAN, ai : Int]
    /\ cmds \in Seq(CmdType) /\ line \in Seq(AnswerType)
    /\ said \in SaidType
    /\ faults \in Nat /\ faults <= MaxFaults
    /\ originalAi \in {Unknown, opts.found}

EndsWith(s, x) == s # <<>> /\ s[Len(s)] = x
\* Orders of one kind in a queue.
Holds(q, op) == \E i \in DOMAIN q : q[i].op = op
Early == {"open", "drain", "aiRead", "aiSet", "aiCheck"}
LevelAnswered == \E i \in DOMAIN line : line[i].kind = "AI"

\* Until the level was read nothing sets another, ...
LevelUntouched ==
    pc \in {"open", "drain", "aiRead"} => rig.ai = opts.found /\ originalAi = Unknown /\ ~Waits("setAI")
\* ... so what is read is the rig's own ...
LevelHeard ==
    pc = "aiRead" => \A i \in DOMAIN line : line[i].kind = "AI" => line[i].value = opts.found
\* ... and the answer to the only question.
OneQuestion ==
    /\ pc \in {"open", "drain"} => ~Waits("AI")
    /\ pc = "aiRead" => \A i \in DOMAIN cmds : cmds[i].op = "AI" => i = Len(cmds) /\ ~LevelAnswered

\* After that the level asked for is still to be set, and nothing asks before
\* that; or is set; or the level is the one that was read: what else waits to
\* be set is only that one.
OnlySets(q, l) == \A i \in DOMAIN q : q[i].op = "setAI" => q[i] = SetAi(l)
NotYetSet ==
    \E j \in DOMAIN cmds :
        /\ cmds[j] = SetAi(opts.ai)
        /\ \A i \in DOMAIN cmds : /\ i < j => cmds[i].op \notin {"AI", "setAI"}
                                  /\ i > j /\ cmds[i].op = "setAI" => cmds[i] = SetAi(originalAi)
IsSet  == rig.ai = opts.ai /\ OnlySets(cmds, originalAi)
IsBack == rig.ai = originalAi /\ OnlySets(cmds, originalAi)
LevelPhase ==
    originalAi # Unknown => IsBack \/ (opts.ai # originalAi /\ (NotYetSet \/ IsSet))

\* An answer with the level that was read is of a rig that has it back.
LevelBelieved ==
    /\ pc = "aiBelieve" /\ originalAi # Unknown /\ (\E i \in DOMAIN line : line[i] = Answer("AI", originalAi))
          => IsBack
    /\ said.ai = "restored" => /\ pc \in {"ensure", "ask", "look", "closed", "aborted"}
                               /\ originalAi # Unknown => IsBack
\* The order to restore the level stays the last, also when Ctrl-C ends the tool.
Restored == {"aiAsk", "aiBelieve", "ensure", "ask", "look"}
LevelOnItsWay ==
    (pc \in Restored \/ GotTo(Restored)) /\ opts.ai # NotAsked /\ originalAi # Unknown
        => LevelAtRest(originalAi)

\* The unkey of ensure_receive comes after every order to key, also then.
UnkeyOnItsWay == (pc \in {"ask", "look"} \/ GotTo({"ask", "look"})) /\ faults = 0 => ReceivesAtRest
\* The question is the last order, and when a rig that transmits has handled it
\* the tool has been told, or the rig did not obey and the answer was lost.
KeyedIsReported ==
    pc = "look" => IF cmds # <<>> THEN EndsWith(cmds, Cmd("IF"))
                   ELSE rig.tx => faults > 1 \/ EndsWith(line, Answer("IF", "1"))
ConfirmedAtTheEnd ==
    said.tx = "confirmed" => pc = "closed" /\ (cmds = <<>> /\ rig.tx => faults > 1)

WatchInv == /\ WatchTypes
            /\ LevelUntouched /\ LevelHeard /\ OneQuestion /\ LevelPhase /\ LevelBelieved /\ LevelOnItsWay
            /\ UnkeyOnItsWay /\ KeyedIsReported /\ ConfirmedAtTheEnd

------------------------------------------------------------------------------
\* Sequences

\* A set of places of a sequence that is not empty has a last one.
LEMMA LastPlace ==
    ASSUME NEW n \in Nat, NEW E \in SUBSET (1 .. n), E # {}
    PROVE  Max(E) \in E /\ \A y \in E : Max(E) >= y
<1> DEFINE D == {n - y : y \in E}
<1>1. D \subseteq Nat /\ D # {}
  <2>1. \A y \in E : n - y \in Nat
    OBVIOUS
  <2>2. PICK y \in E : TRUE
    OBVIOUS
  <2>3. n - y \in D
    BY <2>2
  <2> QED
    BY <2>1, <2>3
<1>2. PICK d \in D : \A e \in D : <<e, d>> \notin OpToRel(<, Nat)
  BY <1>1, NatLessThanWellFounded, WFMin
<1>3. \A e \in D : ~(e < d)
  BY <1>1, <1>2 DEF OpToRel
<1>4. PICK x \in E : d = n - x
  BY <1>2
<1>5. \A y \in E : x >= y
  <2> SUFFICES ASSUME NEW y \in E PROVE x >= y
    OBVIOUS
  <2>1. ~(n - y < n - x)
    BY <1>3, <1>4
  <2> QED
    BY <2>1
<1> QED
  BY <1>5 DEF Max

\* The report at the end of a buffer is the one that counts.
LEMMA LastReportCounts ==
    ASSUME NEW s \in Seq(AnswerType), NEW v, EndsWith(s, Answer("IF", v))
    PROVE  FlagIn(s) = v
<1> DEFINE I == {i \in 1 .. Len(s) : s[i].kind = "IF"}
<1>1. Len(s) \in I /\ I \in SUBSET (1 .. Len(s)) /\ Len(s) \in Nat
  BY DEF EndsWith, Answer
<1>2. Max(I) \in I /\ \A y \in I : Max(I) >= y
  BY <1>1, LastPlace
<1>3. Max(I) = Len(s)
  BY <1>1, <1>2
<1>4. FlagIn(s) = LET i == IF I # {} THEN Max(I) ELSE 0 IN IF i = 0 THEN "none" ELSE s[i].value
  BY DEF FlagIn, LastOf, SelectLastInSeq
<1>5. s[Len(s)].value = v
  BY DEF EndsWith, Answer
<1>6. Len(s) # 0 /\ I # {}
  BY <1>1
<1> QED
  BY <1>3, <1>4, <1>5, <1>6

\* The level that is read was an answer.
LEMMA LevelIsAnswer ==
    ASSUME NEW s \in Seq(AnswerType), LevelIn(s) # Unknown
    PROVE  \E i \in DOMAIN s : s[i] = Answer("AI", LevelIn(s))
<1> DEFINE I == {i \in 1 .. Len(s) : s[i].kind = "AI"}
<1>1. I \in SUBSET (1 .. Len(s)) /\ Len(s) \in Nat /\ DOMAIN s = 1 .. Len(s)
  OBVIOUS
<1>2. LevelIn(s) = LET i == IF I # {} THEN Max(I) ELSE 0 IN IF i = 0 THEN Unknown ELSE s[i].value
  BY DEF LevelIn, LastOf, SelectLastInSeq
<1>3. I # {}
  BY <1>2
<1>4. Max(I) \in I
  BY <1>1, <1>3, LastPlace
<1>5. Max(I) \in DOMAIN s /\ s[Max(I)].kind = "AI" /\ s[Max(I)].value = LevelIn(s)
  BY <1>1, <1>2, <1>3, <1>4
<1>6. s[Max(I)] \in AnswerType
  BY <1>5
<1>7. s[Max(I)] = Answer("AI", LevelIn(s))
  BY <1>5, <1>6 DEF AnswerType, Answer
<1> QED
  BY <1>5, <1>7

\* What ends a queue ends what is left of it.
LEMMA TailEnds ==
    ASSUME NEW E, NEW s \in Seq(E), NEW x, s # <<>>, EndsWith(s, x)
    PROVE  IF Tail(s) = <<>> THEN Head(s) = x ELSE EndsWith(Tail(s), x)
<1>1. Len(s) \in Nat /\ Len(s) > 0 /\ Len(Tail(s)) = Len(s) - 1
  BY DEF EndsWith
<1>2. CASE Len(s) = 1
  <2>1. Len(Tail(s)) = 0 /\ Tail(s) \in Seq(E) /\ Head(s) = s[1]
    BY <1>1, <1>2
  <2> QED
    BY <1>2, <2>1, EmptySeq DEF EndsWith
<1>3. CASE Len(s) > 1
  <2>1. Tail(s) # <<>>
    <3>1. Len(Tail(s)) # 0 /\ Tail(s) \in Seq(E)
      BY <1>1, <1>3
    <3> QED
      BY <3>1, EmptySeq
  <2>2. Tail(s)[Len(s) - 1] = s[Len(s)]
    <3>1. Len(s) - 1 \in 1 .. Len(Tail(s)) /\ Len(s) - 1 + 1 = Len(s)
      BY <1>1, <1>3
    <3>2. \A i \in 1 .. Len(Tail(s)) : Tail(s)[i] = s[i + 1]
      BY <1>1, HeadTailProperties
    <3> QED
      BY <3>1, <3>2
  <2> QED
    BY <1>1, <2>1, <2>2 DEF EndsWith
<1> QED
  BY <1>1, <1>2, <1>3

\* What is put at the end of a queue ends it.
LEMMA AppendEnds ==
    ASSUME NEW E, NEW s \in Seq(E), NEW x \in E
    PROVE  Append(s, x) \in Seq(E) /\ EndsWith(Append(s, x), x)
BY DEF EndsWith

\* The places of a queue when its first order is taken, ...
LEMMA TailPlaces ==
    ASSUME NEW E, NEW q \in Seq(E), q # <<>>
    PROVE  /\ Len(q) \in Nat /\ Len(q) > 0 /\ DOMAIN q = 1 .. Len(q) /\ q[1] = Head(q) /\ Head(q) \in E
           /\ Tail(q) \in Seq(E) /\ Len(Tail(q)) = Len(q) - 1 /\ DOMAIN Tail(q) = 1 .. Len(q) - 1
           /\ \A i \in DOMAIN Tail(q) : i + 1 \in DOMAIN q /\ Tail(q)[i] = q[i + 1]
           /\ \A i \in DOMAIN q : i # 1 => i - 1 \in DOMAIN Tail(q) /\ Tail(q)[i - 1] = q[i]
<1>1. Len(q) \in Nat /\ Len(q) > 0 /\ DOMAIN q = 1 .. Len(q) /\ q[1] = Head(q) /\ Head(q) \in E
  BY EmptySeq
<1>2. Tail(q) \in Seq(E) /\ Len(Tail(q)) = Len(q) - 1 /\ DOMAIN Tail(q) = 1 .. Len(q) - 1
  BY <1>1, HeadTailProperties
<1>3. \A i \in DOMAIN Tail(q) : i + 1 \in DOMAIN q /\ Tail(q)[i] = q[i + 1]
  BY <1>1, <1>2, HeadTailProperties
<1>4. ASSUME NEW i \in DOMAIN q, i # 1 PROVE i - 1 \in DOMAIN Tail(q) /\ Tail(q)[i - 1] = q[i]
  <2>1. i - 1 \in DOMAIN Tail(q) /\ i - 1 + 1 = i
    BY <1>1, <1>2, <1>4
  <2> QED
    BY <1>3, <2>1
<1> QED
  BY <1>1, <1>2, <1>3, <1>4

\* ... and when others join it.
LEMMA JoinPlaces ==
    ASSUME NEW E, NEW q \in Seq(E), NEW b \in Seq(E)
    PROVE  /\ q \o b \in Seq(E) /\ Len(q) \in Nat /\ DOMAIN q = 1 .. Len(q) /\ DOMAIN b = 1 .. Len(b)
           /\ DOMAIN (q \o b) = 1 .. Len(q) + Len(b) /\ Len(b) \in Nat
           /\ \A i \in DOMAIN q : i \in DOMAIN (q \o b) /\ (q \o b)[i] = q[i]
           /\ \A i \in DOMAIN (q \o b) :
                 i \in DOMAIN q \/ (i > Len(q) /\ i - Len(q) \in DOMAIN b /\ (q \o b)[i] = b[i - Len(q)])
OBVIOUS

\* It has the length of both, ...
LEMMA LenJoined ==
    ASSUME NEW E, NEW q \in Seq(E), NEW b \in Seq(E)
    PROVE  Len(q \o b) = Len(q) + Len(b) /\ DOMAIN b = 1 .. Len(b) /\ Len(q) \in Nat
OBVIOUS

\* ... and others may join in turn or together.
LEMMA JoinsInTurn ==
    ASSUME NEW E, NEW q \in Seq(E), NEW a \in Seq(E), NEW b \in Seq(E)
    PROVE  (q \o a) \o b = q \o (a \o b) /\ a \o b \in Seq(E)
BY ConcatAssociative, ConcatProperties, SMTT(30)

\* One order joins it.
LEMMA OneJoins ==
    ASSUME NEW E, NEW q \in Seq(E), NEW x \in E
    PROVE  /\ Append(q, x) = q \o <<x>> /\ <<x>> \in Seq(E) /\ Append(q, x) # <<>>
           /\ Append(q, x)[Len(q) + 1] = x /\ DOMAIN Append(q, x) = 1 .. Len(q) + 1
OBVIOUS

------------------------------------------------------------------------------
\* The transmit watcher: the rig

RigType == [tx : BOOLEAN, ai : Int]

\* What an order does to the rig and what the rig says to it.
LEMMA OrderObeyed ==
    ASSUME NEW r \in RigType, NEW c \in CmdType
    PROVE  /\ After(r, c) \in RigType /\ Reply(r, c) \in Seq(AnswerType)
           /\ c.op # "setAI" => After(r, c).ai = r.ai
           /\ \A l : c = SetAi(l) => After(r, c).ai = l
           /\ \A i \in DOMAIN Reply(r, c) : Reply(r, c)[i].kind = "AI" => Reply(r, c)[i].value = r.ai
           /\ c.op # "AI" => \A i \in DOMAIN Reply(r, c) : Reply(r, c)[i].kind # "AI"
           /\ c = Cmd("RX") => ~After(r, c).tx
           /\ c = Cmd("IF") => After(r, c) = r /\ Reply(r, c) = <<Answer("IF", Flag(r.tx))>>
<1>1. \A x : Push(r, x) \in Seq(AnswerType) /\ \A i \in DOMAIN Push(r, x) : Push(r, x)[i].kind = "IF"
  <2> SUFFICES ASSUME NEW x
               PROVE  Push(r, x) \in Seq(AnswerType) /\ \A i \in DOMAIN Push(r, x) : Push(r, x)[i].kind = "IF"
    OBVIOUS
  <2>1. Answer("IF", Flag(x)) \in AnswerType
    BY DEF Answer, Flag, AnswerType
  <2> QED
    BY <2>1 DEF Push, Answer
<1>2. CASE c.op = "TX"
  <2>1. After(r, c) = [r EXCEPT !.tx = TRUE] /\ Reply(r, c) = Push(r, TRUE)
    BY <1>2 DEF After, Reply
  <2>2. After(r, c) \in RigType /\ After(r, c).ai = r.ai /\ (c.op = "RX" => ~After(r, c).tx)
    BY <1>2, <2>1 DEF RigType
  <2>3. /\ Reply(r, c) \in Seq(AnswerType)
        /\ \A i \in DOMAIN Reply(r, c) : Reply(r, c)[i].kind = "IF"
    BY <1>1, <2>1
  <2> QED
    BY <1>2, <2>2, <2>3 DEF SetAi, Cmd
<1>3. CASE c.op = "RX"
  <2>1. After(r, c) = [r EXCEPT !.tx = FALSE] /\ Reply(r, c) = Push(r, FALSE)
    BY <1>3 DEF After, Reply
  <2>2. After(r, c) \in RigType /\ After(r, c).ai = r.ai /\ (c.op = "RX" => ~After(r, c).tx)
    BY <1>3, <2>1 DEF RigType
  <2>3. /\ Reply(r, c) \in Seq(AnswerType)
        /\ \A i \in DOMAIN Reply(r, c) : Reply(r, c)[i].kind = "IF"
    BY <1>1, <2>1
  <2> QED
    BY <1>3, <2>2, <2>3 DEF SetAi, Cmd
<1>4. CASE c.op = "IF"
  <2>1. Answer("IF", Flag(r.tx)) \in AnswerType
    BY DEF Answer, Flag, AnswerType
  <2> QED
    BY <1>4, <2>1 DEF After, Reply, RigType, SetAi, Cmd, Answer
<1>5. CASE c.op = "AI"
  <2>1. Answer("AI", r.ai) \in AnswerType
    BY DEF Answer, AnswerType, RigType
  <2> QED
    BY <1>5, <2>1 DEF After, Reply, RigType, SetAi, Cmd, Answer
<1>6. CASE c.op = "setAI"
  BY <1>6 DEF After, Reply, RigType, SetAi, Cmd, CmdType
<1> QED
  BY <1>2, <1>3, <1>4, <1>5, <1>6 DEF CmdType

\* What an order does to the transmitter and what the rig says of it.
LEMMA TransmitterObeys ==
    ASSUME NEW r \in RigType, NEW c \in CmdType
    PROVE  /\ c.op = "TX" => /\ After(r, c).tx
                             /\ r.tx => Reply(r, c) = <<>>
                             /\ ~r.tx /\ r.ai > 0 => Reply(r, c) = <<Answer("IF", "1")>>
           /\ c.op = "RX" => ~After(r, c).tx
           /\ c.op \notin {"TX", "RX"} => (After(r, c).tx <=> r.tx)
           /\ c.op = "IF" => After(r, c) = r /\ Reply(r, c) = <<Answer("IF", Flag(r.tx))>>
<1>1. CASE c.op = "TX"
  <2>1. After(r, c) = [r EXCEPT !.tx = TRUE] /\ Reply(r, c) = Push(r, TRUE)
    BY <1>1 DEF After, Reply
  <2>2. After(r, c).tx
    BY <2>1 DEF RigType
  <2>3. r.tx => r.tx = TRUE
    BY Zenon DEF RigType
  <2>4. ~r.tx => r.tx # TRUE
    BY Zenon
  <2>5. r.tx => Push(r, TRUE) = <<>>
    BY <2>3 DEF Push
  <2>6. ~r.tx /\ r.ai > 0 => Push(r, TRUE) = <<Answer("IF", "1")>>
    BY <2>4 DEF Push, Flag
  <2> QED
    BY <1>1, <2>1, <2>2, <2>5, <2>6
<1>2. CASE c.op = "RX"
  <2>1. After(r, c) = [r EXCEPT !.tx = FALSE]
    BY <1>2 DEF After
  <2> QED
    BY <1>2, <2>1 DEF RigType
<1>3. CASE c.op = "IF"
  BY <1>3 DEF After, Reply
<1>4. CASE c.op \in {"AI", "setAI"}
  <2>1. After(r, c).tx = r.tx
    BY <1>4 DEF After, RigType
  <2> QED
    BY <1>4, <2>1
<1> QED
  BY <1>1, <1>2, <1>3, <1>4 DEF CmdType

\* A step of the rig takes the first order: it obeys and answers, obeys without
\* an answer that arrives, or ignores an unkey.
RigStep(obeys, answers) ==
    /\ ~Ended /\ cmds # <<>>
    /\ cmds' = Tail(cmds)
    /\ rig' = IF obeys THEN After(rig, Head(cmds)) ELSE rig
    /\ line' = IF answers THEN line \o Reply(rig, Head(cmds)) ELSE line
    /\ ~obeys => Head(cmds).op = "RX" /\ ~answers
    /\ faults' = IF answers THEN faults ELSE faults + 1
    /\ ~answers => faults < MaxFaults
    /\ overdue' = Less(overdue)
    /\ UNCHANGED <<opts, pc, now, loopVars, originalAi, said, keyed>>

LEMMA RigSteps == Rig => \E obeys, answers \in BOOLEAN : RigStep(obeys, answers)
<1> SUFFICES ASSUME Rig PROVE \E obeys, answers \in BOOLEAN : RigStep(obeys, answers)
  OBVIOUS
<1>1. CASE Handle
  <2>1. RigStep(TRUE, TRUE)
    BY <1>1 DEF Handle, RigStep, RigUnchanged
  <2> QED
    BY <2>1
<1>2. CASE IgnoreUnkey
  <2>1. RigStep(FALSE, FALSE)
    BY <1>2 DEF IgnoreUnkey, RigStep, RigUnchanged
  <2> QED
    BY <2>1
<1>3. CASE LoseAnswer
  <2>1. RigStep(TRUE, FALSE)
    BY <1>3 DEF LoseAnswer, RigStep, RigUnchanged
  <2> QED
    BY <2>1
<1> QED
  BY <1>1, <1>2, <1>3 DEF Rig

\* The rig keeps the invariant.
LEMMA RigKeepsInv == WatchInv /\ Rig => WatchInv'
<1> SUFFICES ASSUME WatchInv, NEW obeys \in BOOLEAN, NEW answers \in BOOLEAN, RigStep(obeys, answers)
             PROVE  WatchInv'
  BY RigSteps
<1> DEFINE c == Head(cmds)
<1>1. /\ rig \in RigType /\ cmds \in Seq(CmdType) /\ cmds # <<>> /\ line \in Seq(AnswerType)
      /\ faults \in Nat
  BY DEF WatchInv, WatchTypes, RigType, RigStep
<1>2. /\ Len(cmds) \in Nat /\ Len(cmds) > 0 /\ DOMAIN cmds = 1 .. Len(cmds) /\ cmds[1] = c /\ c \in CmdType
      /\ Tail(cmds) \in Seq(CmdType) /\ Len(Tail(cmds)) = Len(cmds) - 1 /\ DOMAIN Tail(cmds) = 1 .. Len(cmds) - 1
      /\ \A i \in DOMAIN Tail(cmds) : i + 1 \in DOMAIN cmds /\ Tail(cmds)[i] = cmds[i + 1]
      /\ \A i \in DOMAIN cmds : i # 1 => i - 1 \in DOMAIN Tail(cmds) /\ Tail(cmds)[i - 1] = cmds[i]
  BY <1>1, TailPlaces
<1>3. /\ After(rig, c) \in RigType /\ Reply(rig, c) \in Seq(AnswerType)
      /\ c.op # "setAI" => After(rig, c).ai = rig.ai
      /\ \A l : c = SetAi(l) => After(rig, c).ai = l
      /\ \A i \in DOMAIN Reply(rig, c) : Reply(rig, c)[i].kind = "AI" => Reply(rig, c)[i].value = rig.ai
      /\ c.op # "AI" => \A i \in DOMAIN Reply(rig, c) : Reply(rig, c)[i].kind # "AI"
  <2>1. rig \in RigType /\ c \in CmdType
    BY <1>1, <1>2
  <2> HIDE DEF c
  <2> QED
    BY <2>1, OrderObeyed
<1>4. /\ c.op = "RX" => ~After(rig, c).tx
      /\ c.op \notin {"TX", "RX"} => (After(rig, c).tx <=> rig.tx)
      /\ c.op = "IF" => After(rig, c) = rig /\ Reply(rig, c) = <<Answer("IF", Flag(rig.tx))>>
  BY <1>1, <1>2, TransmitterObeys
<1>5. /\ cmds' = Tail(cmds) /\ rig' = IF obeys THEN After(rig, c) ELSE rig
      /\ ~obeys => c.op = "RX" /\ ~answers
      /\ line' = IF answers THEN line \o Reply(rig, c) ELSE line
      /\ faults' = IF answers THEN faults ELSE faults + 1
      /\ UNCHANGED <<opts, pc, originalAi, said>> /\ ~Ended
  BY DEF RigStep
<1> HIDE DEF c
<1>6. WatchTypes'
  <2>1. faults' <= MaxFaults
    BY <1>1, WatchAssumption DEF WatchInv, WatchTypes, RigStep
  <2>2. line' \in Seq(AnswerType)
    BY <1>1, <1>3, <1>5
  <2>3. faults' \in Nat /\ rig' \in RigType
    BY <1>1, <1>3, <1>5
  <2> QED
    BY <1>2, <1>5, <2>1, <2>2, <2>3 DEF WatchInv, WatchTypes, RigType
<1>7. \A op : Waits(op)' => Waits(op)
  BY <1>2, <1>5 DEF Waits
<1>8. ~Waits("setAI") => rig'.ai = rig.ai
  <2>1. ~Waits("setAI") => c.op # "setAI"
    BY <1>2 DEF Waits
  <2> QED
    BY <1>3, <1>5, <2>1
<1>9. LevelUntouched'
  BY <1>5, <1>7, <1>8 DEF WatchInv, LevelUntouched
<1>10. ASSUME NEW i \in DOMAIN line', i \notin DOMAIN line
       PROVE  /\ line'[i].kind = "AI" => line'[i].value = rig.ai /\ c.op = "AI"
  <2>1. line' = line \o Reply(rig, c)
    BY <1>5, <1>10
  <2>2. i - Len(line) \in DOMAIN Reply(rig, c) /\ line'[i] = Reply(rig, c)[i - Len(line)]
    BY <1>1, <1>3, <1>10, <2>1, JoinPlaces
  <2> QED
    BY <1>3, <2>2
<1>11. \A i \in DOMAIN line' : i \in DOMAIN line => line'[i] = line[i]
  BY <1>1, <1>3, <1>5
<1>12. LevelHeard'
  <2> SUFFICES ASSUME pc = "aiRead", NEW i \in DOMAIN line', line'[i].kind = "AI" PROVE line'[i].value = opts.found
    BY <1>5 DEF LevelHeard
  <2>1. rig.ai = opts.found /\ \A k \in DOMAIN line : line[k].kind = "AI" => line[k].value = opts.found
    BY DEF WatchInv, LevelUntouched, LevelHeard
  <2> QED
    BY <1>10, <1>11, <2>1
<1>13. OneQuestion'
  <2>1. pc \in {"open", "drain"} => ~Waits("AI")'
    BY <1>7 DEF WatchInv, OneQuestion
  <2>2. ASSUME pc = "aiRead", NEW i \in DOMAIN cmds', cmds'[i].op = "AI" PROVE i = Len(cmds') /\ ~LevelAnswered'
    <3>1. i + 1 \in DOMAIN cmds /\ cmds[i + 1].op = "AI"
      BY <1>2, <1>5, <2>2
    <3>2. i + 1 = Len(cmds) /\ ~LevelAnswered
      BY <2>2, <3>1 DEF WatchInv, OneQuestion
    <3>3. c.op # "AI"
      <4> SUFFICES ASSUME c.op = "AI" PROVE FALSE
        OBVIOUS
      <4>1. 1 = Len(cmds)
        BY <1>2, <2>2 DEF WatchInv, OneQuestion
      <4> QED
        BY <1>2, <1>5, <2>2, <3>2, <4>1
    <3>4. ~LevelAnswered'
      BY <1>10, <1>11, <3>2, <3>3 DEF LevelAnswered
    <3> QED
      BY <1>2, <1>5, <3>2, <3>4
  <2> QED
    BY <1>5, <2>1, <2>2 DEF OneQuestion
<1>14. \A l : OnlySets(cmds, l) => OnlySets(cmds', l) /\ (c.op = "setAI" => c = SetAi(l))
  BY <1>2, <1>5 DEF OnlySets
<1>15. IsBack => IsBack'
  <2> SUFFICES ASSUME IsBack PROVE rig'.ai = originalAi /\ OnlySets(cmds', originalAi)
    BY <1>5 DEF IsBack
  <2>1. rig.ai = originalAi /\ OnlySets(cmds, originalAi)
    BY DEF IsBack
  <2> QED
    BY <1>3, <1>5, <1>14, <2>1
<1>16. IsSet => IsBack' \/ IsSet'
  <2> SUFFICES ASSUME IsSet
               PROVE  OnlySets(cmds', originalAi) /\ rig'.ai \in {originalAi, opts.ai}
    BY <1>5 DEF IsBack, IsSet
  <2>1. rig.ai = opts.ai /\ OnlySets(cmds, originalAi)
    BY DEF IsSet
  <2> QED
    BY <1>3, <1>5, <1>14, <2>1
<1>17. NotYetSet => c.op # "AI" /\ (NotYetSet' \/ IsSet')
  <2> SUFFICES ASSUME NEW j \in DOMAIN cmds, cmds[j] = SetAi(opts.ai),
                      \A i \in DOMAIN cmds :
                         /\ i < j => cmds[i].op \notin {"AI", "setAI"}
                         /\ i > j /\ cmds[i].op = "setAI" => cmds[i] = SetAi(originalAi)
               PROVE  c.op # "AI" /\ (NotYetSet' \/ IsSet')
    BY DEF NotYetSet
  <2>1. CASE j = 1
    <3>1. c = SetAi(opts.ai) /\ c.op = "setAI"
      BY <1>2, <2>1 DEF SetAi
    <3>2. rig'.ai = opts.ai
      BY <1>3, <1>5, <3>1
    <3>3. OnlySets(cmds', originalAi)
      <4> SUFFICES ASSUME NEW i \in DOMAIN cmds', cmds'[i].op = "setAI" PROVE cmds'[i] = SetAi(originalAi)
        BY DEF OnlySets
      <4>1. i + 1 \in DOMAIN cmds /\ cmds'[i] = cmds[i + 1] /\ i + 1 > j
        BY <1>2, <1>5, <2>1
      <4> QED
        BY <4>1
    <3> QED
      BY <1>5, <3>1, <3>2, <3>3 DEF IsSet
  <2>2. CASE j # 1
    <3>1. j - 1 \in DOMAIN cmds' /\ cmds'[j - 1] = SetAi(opts.ai)
      BY <1>2, <1>5, <2>2
    <3>2. ASSUME NEW i \in DOMAIN cmds'
          PROVE  /\ i < j - 1 => cmds'[i].op \notin {"AI", "setAI"}
                 /\ i > j - 1 /\ cmds'[i].op = "setAI" => cmds'[i] = SetAi(originalAi)
      <4>1. i + 1 \in DOMAIN cmds /\ cmds'[i] = cmds[i + 1] /\ i \in Int /\ j \in Int
        BY <1>2, <1>5, <3>2
      <4> QED
        BY <4>1
    <3>3. c.op # "AI"
      BY <1>2, <2>2
    <3> QED
      BY <1>5, <3>1, <3>2, <3>3 DEF NotYetSet
  <2> QED
    BY <2>1, <2>2
<1>18. LevelPhase'
  BY <1>5, <1>15, <1>16, <1>17 DEF WatchInv, LevelPhase
<1>19. LevelBelieved'
  <2>1. ASSUME pc = "aiBelieve", originalAi # Unknown, NEW i \in DOMAIN line', line'[i] = Answer("AI", originalAi)
        PROVE  IsBack'
    <3>1. CASE i \in DOMAIN line
      BY <1>11, <1>15, <2>1, <3>1 DEF WatchInv, LevelBelieved
    <3>2. CASE i \notin DOMAIN line
      <4>1. rig.ai = originalAi /\ c.op = "AI"
        BY <1>10, <2>1, <3>2 DEF Answer
      <4>2. IsBack
        BY <1>17, <2>1, <4>1 DEF WatchInv, LevelPhase, IsSet
      <4> QED
        BY <1>15, <4>2
    <3> QED
      BY <3>1, <3>2
  <2> QED
    BY <1>5, <1>15, <2>1 DEF WatchInv, LevelBelieved
<1>20. LevelAtRest(originalAi) => LevelAtRest(originalAi)'
  <2>1. CASE rig.ai = originalAi /\ ~Waits("setAI")
    BY <1>5, <1>7, <1>8, <2>1 DEF LevelAtRest
  <2>2. ASSUME NEW j \in DOMAIN cmds, cmds[j] = SetAi(originalAi),
               \A i \in DOMAIN cmds : cmds[i].op = "setAI" => i <= j
        PROVE  LevelAtRest(originalAi)'
    <3>1. CASE j = 1
      <4>1. c = SetAi(originalAi) /\ c.op = "setAI"
        BY <1>2, <2>2, <3>1 DEF SetAi
      <4>2. rig'.ai = originalAi
        BY <1>3, <1>5, <4>1
      <4>3. ~Waits("setAI")'
        <5> SUFFICES ASSUME NEW i \in DOMAIN cmds', cmds'[i].op = "setAI" PROVE FALSE
          BY DEF Waits
        <5>1. i + 1 \in DOMAIN cmds /\ i + 1 <= 1
          BY <1>2, <1>5, <2>2, <3>1
        <5> QED
          BY <1>2, <1>5, <5>1
      <4> QED
        BY <1>5, <4>2, <4>3 DEF LevelAtRest
    <3>2. CASE j # 1
      <4>1. j - 1 \in DOMAIN cmds' /\ cmds'[j - 1] = SetAi(originalAi)
        BY <1>2, <1>5, <2>2, <3>2
      <4>2. ASSUME NEW i \in DOMAIN cmds', cmds'[i].op = "setAI" PROVE i <= j - 1
        <5>1. i + 1 \in DOMAIN cmds /\ i + 1 <= j /\ i \in Int /\ j \in Int
          BY <1>2, <1>5, <2>2, <4>2
        <5> QED
          BY <5>1
      <4> QED
        BY <1>5, <4>1, <4>2 DEF LevelAtRest
    <3> QED
      BY <3>1, <3>2
  <2> QED
    BY <2>1, <2>2 DEF LevelAtRest
<1>21. LevelOnItsWay'
  BY <1>5, <1>20 DEF WatchInv, LevelOnItsWay, GotTo, Ended
<1>22. ReceivesAtRest /\ answers => ReceivesAtRest'
  <2>1. answers => rig' = After(rig, c)
    BY <1>5
  <2>2. CASE ~rig.tx /\ ~Waits("TX") /\ answers
    <3>1. c.op # "TX"
      BY <1>2, <2>2 DEF Waits
    <3>2. ~After(rig, c).tx
      BY <1>4, <2>2, <3>1
    <3> QED
      BY <1>7, <2>1, <2>2, <3>2 DEF ReceivesAtRest
  <2>3. ASSUME answers, NEW j \in DOMAIN cmds, cmds[j].op = "RX",
               \A i \in DOMAIN cmds : cmds[i].op = "TX" => i < j
        PROVE  ReceivesAtRest'
    <3>1. CASE j = 1
      <4>1. ~rig'.tx
        BY <1>2, <1>4, <2>1, <2>3, <3>1
      <4>2. ~Waits("TX")'
        <5> SUFFICES ASSUME NEW i \in DOMAIN cmds', cmds'[i].op = "TX" PROVE FALSE
          BY DEF Waits
        <5>1. i + 1 \in DOMAIN cmds /\ i + 1 < 1
          BY <1>2, <1>5, <2>3, <3>1
        <5> QED
          BY <1>2, <1>5, <5>1
      <4> QED
        BY <4>1, <4>2 DEF ReceivesAtRest
    <3>2. CASE j # 1
      <4>1. j - 1 \in DOMAIN cmds' /\ cmds'[j - 1].op = "RX"
        BY <1>2, <1>5, <2>3, <3>2
      <4>2. ASSUME NEW i \in DOMAIN cmds', cmds'[i].op = "TX" PROVE i < j - 1
        <5>1. i + 1 \in DOMAIN cmds /\ i + 1 < j /\ i \in Int /\ j \in Int
          BY <1>2, <1>5, <2>3, <4>2
        <5> QED
          BY <5>1
      <4> QED
        BY <4>1, <4>2 DEF ReceivesAtRest
    <3> QED
      BY <3>1, <3>2
  <2> QED
    BY <2>2, <2>3 DEF ReceivesAtRest
<1>23. UnkeyOnItsWay'
  BY <1>1, <1>5, <1>22 DEF WatchInv, UnkeyOnItsWay, GotTo, Ended
<1>24. KeyedIsReported'
  <2> SUFFICES ASSUME pc = "look"
               PROVE  IF cmds' # <<>> THEN EndsWith(cmds', Cmd("IF"))
                      ELSE rig'.tx => faults' > 1 \/ EndsWith(line', Answer("IF", "1"))
    BY <1>5 DEF KeyedIsReported
  <2>1. EndsWith(cmds, Cmd("IF"))
    BY <1>1 DEF WatchInv, KeyedIsReported
  <2>2. IF Tail(cmds) = <<>> THEN c = Cmd("IF") ELSE EndsWith(Tail(cmds), Cmd("IF"))
    BY <1>1, <2>1, TailEnds DEF c
  <2>3. ASSUME cmds' = <<>>, rig'.tx PROVE faults' > 1 \/ EndsWith(line', Answer("IF", "1"))
    <3>1. c = Cmd("IF") /\ c.op = "IF" /\ Len(cmds) = 1
      <4>1. Tail(cmds) = <<>>
        BY <1>5, <2>3
      <4>2. Len(Tail(cmds)) = 0
        BY <1>2, <4>1, EmptySeq
      <4>a. Len(Tail(cmds)) = Len(cmds) - 1 /\ Len(cmds) \in Nat
        BY <1>2
      <4>3. Len(cmds) = 1
        BY <4>a, <4>2
      <4>4. c = Cmd("IF")
        BY <2>2, <4>1
      <4> QED
        BY <4>3, <4>4 DEF Cmd
    <3>2. rig' = rig /\ obeys /\ rig.tx
      BY <1>4, <1>5, <2>3, <3>1
    <3>3. CASE answers
      <4>1. line' = line \o <<Answer("IF", "1")>>
        BY <1>4, <1>5, <3>1, <3>2, <3>3 DEF Flag
      <4> QED
        BY <1>1, <4>1 DEF EndsWith
    <3>4. CASE ~answers
      <4>1. ~ReceivesAtRest
        BY <1>2, <3>1, <3>2 DEF ReceivesAtRest
      <4>2. faults # 0
        BY <4>1 DEF WatchInv, UnkeyOnItsWay
      <4> QED
        BY <1>1, <1>5, <3>4, <4>2
    <3> QED
      BY <3>3, <3>4
  <2> QED
    BY <1>5, <2>2, <2>3
<1>25. ConfirmedAtTheEnd'
  BY <1>5 DEF WatchInv, ConfirmedAtTheEnd, Ended
<1> QED
  BY <1>6, <1>9, <1>12, <1>13, <1>18, <1>19, <1>21, <1>23, <1>24, <1>25 DEF WatchInv

------------------------------------------------------------------------------
\* The transmit watcher: the tool

\* At the start nothing was ordered.
LEMMA WatchStarts == Init => WatchInv
<1> SUFFICES ASSUME Init PROVE WatchInv
  OBVIOUS
<1>1. opts.ai \in AiLevels \cup {NotAsked} /\ opts.found \in AiLevels /\ opts.prompt \in BOOLEAN
  BY DEF Init
<1>2. opts.ai \in Int /\ opts.found \in Int
  <2>1. \A l \in AiLevels : l \in Int
    BY WatchAssumption
  <2>2. NotAsked \in Int
    BY DEF NotAsked
  <2> QED
    BY <1>1, <2>1, <2>2
<1>3. rig \in [tx : BOOLEAN, ai : Int] /\ rig.ai = opts.found
  BY <1>2 DEF Init
<1>4. cmds = <<>> /\ line = <<>> /\ said \in SaidType /\ faults \in Nat /\ originalAi = Unknown
  BY DEF Init, SaidType
<1>5. WatchTypes
  <2>1. faults <= MaxFaults
    <3>1. faults = 0 /\ MaxFaults \in Nat
      BY WatchAssumption DEF Init
    <3> QED
      BY <3>1
  <2> QED
    BY <1>1, <1>2, <1>3, <1>4, <2>1 DEF WatchTypes
<1>6. pc = "open" /\ said.tx = "" /\ said.ai = ""
  BY DEF Init
<1>7. \A op : ~Waits(op)
  BY <1>4 DEF Waits
<1>8. LevelOnItsWay /\ UnkeyOnItsWay
  <2>1. \A places : ~GotTo(places)
    BY <1>6 DEF GotTo
  <2>2. pc \notin Restored /\ pc \notin {"ask", "look"}
    BY <1>6 DEF Restored
  <2> QED
    BY <2>1, <2>2 DEF LevelOnItsWay, UnkeyOnItsWay
<1> QED
  BY <1>3, <1>4, <1>5, <1>6, <1>7, <1>8
     DEF WatchInv, LevelUntouched, LevelHeard, OneQuestion, LevelPhase, LevelBelieved, KeyedIsReported, ConfirmedAtTheEnd

\* The orders the tool gives are orders.
LEMMA OrdersTyped ==
    /\ \A n \in {"TX", "RX", "IF", "AI"} : Cmd(n) \in CmdType /\ Cmd(n).op = n
    /\ \A l \in Int : SetAi(l) \in CmdType /\ SetAi(l).op = "setAI"
BY DEF Cmd, SetAi, CmdType

\* One order is of its kind only, and none of no kind.
LEMMA JustOne ==
    /\ \A x, op : Holds(<<x>>, op) <=> x.op = op
    /\ \A op : ~Holds(<<>>, op)
BY DEF Holds

\* What orders that are added at the end leave as it was.
LEMMA OrdersJoin ==
    ASSUME NEW b \in Seq(CmdType), cmds \in Seq(CmdType), cmds' = cmds \o b, UNCHANGED <<opts, rig, originalAi>>
    PROVE  /\ cmds' \in Seq(CmdType)
           /\ \A op : Waits(op)' => Waits(op) \/ Holds(b, op)
           /\ ~Holds(b, "setAI") /\ LevelAtRest(originalAi) => LevelAtRest(originalAi)'
           /\ ~Holds(b, "TX") /\ ReceivesAtRest => ReceivesAtRest'
           /\ OnlySets(b, originalAi) =>
                 /\ IsBack => IsBack'
                 /\ IsSet => IsSet'
                 /\ NotYetSet => NotYetSet'
                 /\ LevelPhase => LevelPhase'
<1>1. /\ cmds' \in Seq(CmdType) /\ Len(cmds) \in Nat /\ DOMAIN cmds = 1 .. Len(cmds)
      /\ DOMAIN b = 1 .. Len(b) /\ Len(b) \in Nat
      /\ DOMAIN cmds' = 1 .. Len(cmds) + Len(b)
      /\ \A i \in DOMAIN cmds : i \in DOMAIN cmds' /\ cmds'[i] = cmds[i]
      /\ \A i \in DOMAIN cmds' :
            i \in DOMAIN cmds \/ (i > Len(cmds) /\ i - Len(cmds) \in DOMAIN b /\ cmds'[i] = b[i - Len(cmds)])
  BY JoinPlaces
<1>2. \A op : Waits(op)' => Waits(op) \/ Holds(b, op)
  BY <1>1 DEF Waits, Holds
<1>3. ASSUME ~Holds(b, "setAI"), LevelAtRest(originalAi) PROVE LevelAtRest(originalAi)'
  <2>1. ASSUME NEW i \in DOMAIN cmds', cmds'[i].op = "setAI" PROVE i \in DOMAIN cmds /\ cmds[i].op = "setAI"
    BY <1>1, <1>3, <2>1 DEF Holds
  <2>2. CASE rig.ai = originalAi /\ ~Waits("setAI")
    BY <1>2, <1>3, <2>2 DEF LevelAtRest
  <2>3. ASSUME NEW j \in DOMAIN cmds, cmds[j] = SetAi(originalAi),
               \A i \in DOMAIN cmds : cmds[i].op = "setAI" => i <= j
        PROVE  LevelAtRest(originalAi)'
    <3>1. j \in DOMAIN cmds' /\ cmds'[j] = SetAi(originalAi)
      BY <1>1, <2>3
    <3>2. \A i \in DOMAIN cmds' : cmds'[i].op = "setAI" => i <= j
      BY <2>1, <2>3
    <3> QED
      BY <3>1, <3>2 DEF LevelAtRest
  <2> QED
    BY <1>3, <2>2, <2>3 DEF LevelAtRest
<1>4. ASSUME ~Holds(b, "TX"), ReceivesAtRest PROVE ReceivesAtRest'
  <2>1. ASSUME NEW i \in DOMAIN cmds', cmds'[i].op = "TX" PROVE i \in DOMAIN cmds /\ cmds[i].op = "TX"
    BY <1>1, <1>4, <2>1 DEF Holds
  <2>2. CASE ~rig.tx /\ ~Waits("TX")
    BY <1>2, <1>4, <2>2 DEF ReceivesAtRest
  <2>3. ASSUME NEW j \in DOMAIN cmds, cmds[j].op = "RX",
               \A i \in DOMAIN cmds : cmds[i].op = "TX" => i < j
        PROVE  ReceivesAtRest'
    <3>1. j \in DOMAIN cmds' /\ cmds'[j].op = "RX"
      BY <1>1, <2>3
    <3>2. \A i \in DOMAIN cmds' : cmds'[i].op = "TX" => i < j
      BY <2>1, <2>3
    <3> QED
      BY <3>1, <3>2 DEF ReceivesAtRest
  <2> QED
    BY <1>4, <2>2, <2>3 DEF ReceivesAtRest
<1>5. ASSUME OnlySets(b, originalAi)
      PROVE  /\ OnlySets(cmds, originalAi) => OnlySets(cmds', originalAi)
             /\ NotYetSet => NotYetSet'
  <2>1. ASSUME NEW i \in DOMAIN cmds', i \notin DOMAIN cmds, cmds'[i].op = "setAI"
        PROVE  cmds'[i] = SetAi(originalAi)
    BY <1>1, <1>5, <2>1 DEF OnlySets
  <2>2. OnlySets(cmds, originalAi) => OnlySets(cmds', originalAi)
    BY <1>1, <2>1 DEF OnlySets
  <2>3. ASSUME NEW j \in DOMAIN cmds, cmds[j] = SetAi(opts.ai),
               \A i \in DOMAIN cmds :
                  /\ i < j => cmds[i].op \notin {"AI", "setAI"}
                  /\ i > j /\ cmds[i].op = "setAI" => cmds[i] = SetAi(originalAi)
        PROVE  NotYetSet'
    <3>1. j \in DOMAIN cmds' /\ cmds'[j] = SetAi(opts.ai)
      BY <1>1, <2>3
    <3>2. ASSUME NEW i \in DOMAIN cmds'
          PROVE  /\ i < j => cmds'[i].op \notin {"AI", "setAI"}
                 /\ i > j /\ cmds'[i].op = "setAI" => cmds'[i] = SetAi(originalAi)
      <4>1. CASE i \in DOMAIN cmds
        BY <1>1, <2>3, <4>1
      <4>2. CASE i \notin DOMAIN cmds
        BY <1>1, <2>1, <2>3, <3>2, <4>2
      <4> QED
        BY <4>1, <4>2
    <3> QED
      BY <3>1, <3>2 DEF NotYetSet
  <2> QED
    BY <2>2, <2>3 DEF NotYetSet
<1>6. OnlySets(b, originalAi) =>
         /\ IsBack => IsBack'
         /\ IsSet => IsSet'
         /\ NotYetSet => NotYetSet'
  BY <1>5 DEF IsBack, IsSet
<1>7. OnlySets(b, originalAi) /\ LevelPhase => LevelPhase'
  BY <1>6 DEF LevelPhase
<1> QED
  BY <1>1, <1>2, <1>3, <1>4, <1>6, <1>7

\* Orders that set no level set only the right one.
LEMMA SettingNone == \A b, l : ~Holds(b, "setAI") => OnlySets(b, l)
BY DEF Holds, OnlySets

\* Before the loop the level is read, then set.
LEMMA SetupKeepsInv == WatchInv /\ (Open \/ Drain \/ AiRead \/ AiSet \/ AiCheck) => WatchInv'
<1> SUFFICES ASSUME WatchInv, Open \/ Drain \/ AiRead \/ AiSet \/ AiCheck PROVE WatchInv'
  OBVIOUS
<1>1. cmds \in Seq(CmdType) /\ line \in Seq(AnswerType) /\ opts.ai \in Int
  BY DEF WatchInv, WatchTypes
<1>2. UNCHANGED <<opts, rig, said, faults>>
  BY DEF Open, Drain, AiRead, AiSet, AiCheck, Setup
<1>3. pc \in Early /\ pc' \in Early \cup {"loop"} /\ pc' # "open"
  BY DEF Open, Drain, AiRead, AiSet, AiCheck, Go, Early
<1>4. LevelBelieved' /\ LevelOnItsWay' /\ UnkeyOnItsWay' /\ KeyedIsReported' /\ ConfirmedAtTheEnd'
  BY <1>2, <1>3
     DEF Early, WatchInv, LevelBelieved, LevelOnItsWay, UnkeyOnItsWay, KeyedIsReported, ConfirmedAtTheEnd, GotTo, Restored
<1>5. CASE Open
  <2>1. cmds' = cmds \o <<Cmd("RX")>> /\ <<Cmd("RX")>> \in Seq(CmdType) /\ line' = line /\ originalAi' = originalAi
    BY <1>1, <1>5, OrdersTyped, OneJoins DEF Open
  <2>2. cmds' \in Seq(CmdType) /\ \A op : Waits(op)' => Waits(op) \/ op = "RX"
    BY <1>1, <1>2, <2>1, OrdersJoin, OrdersTyped, JustOne
  <2>3. pc = "open" /\ pc' = "drain"
    BY <1>5 DEF Open, Go
  <2> QED
    BY <1>2, <1>4, <2>1, <2>2, <2>3
       DEF WatchInv, WatchTypes, LevelUntouched, LevelHeard, OneQuestion, LevelPhase
<1>6. CASE Drain
  <2>1. pc = "drain" /\ pc' \in {"aiRead", "loop"} /\ line' = <<>> /\ originalAi' = originalAi
    BY <1>6 DEF Drain, Go, Setup
  <2>a. /\ <<>> \in Seq(CmdType) /\ Len(<<>>) = 0
        /\ <<Cmd("AI")>> \in Seq(CmdType) /\ Len(<<Cmd("AI")>>) = 1
    BY OrdersTyped
  <2>b. cmds' = cmds \o <<>> \/ cmds' = cmds \o <<Cmd("AI")>>
    BY <1>6 DEF Drain, Setup
  <2>2. PICK b \in {<<>>, <<Cmd("AI")>>} : cmds' = cmds \o b
    BY <2>b
  <2>3. b \in Seq(CmdType) /\ Len(b) <= 1 /\ Len(b) \in Nat /\ (b = <<>> \/ b = <<Cmd("AI")>>)
    <3>1. CASE b = <<>>
      BY <2>a, <3>1
    <3>2. CASE b = <<Cmd("AI")>>
      BY <2>a, <3>2
    <3> QED
      BY <2>2, <3>1, <3>2
  <2>4. cmds' \in Seq(CmdType) /\ \A op : Waits(op)' => Waits(op) \/ op = "AI"
    <3>1. cmds' \in Seq(CmdType) /\ \A op : Waits(op)' => Waits(op) \/ Holds(b, op)
      BY <1>1, <1>2, <2>1, <2>2, <2>3, OrdersJoin
    <3>2. \A op : Holds(b, op) => op = "AI"
      BY <2>3, OrdersTyped, JustOne
    <3> QED
      BY <3>1, <3>2
  <2>5. \A i \in DOMAIN cmds' : cmds'[i].op = "AI" => i = Len(cmds')
    <3> SUFFICES ASSUME NEW i \in DOMAIN cmds', cmds'[i].op = "AI" PROVE i = Len(cmds')
      OBVIOUS
    <3>1. /\ DOMAIN b = 1 .. Len(b) /\ Len(b) \in Nat /\ Len(b) <= 1 /\ Len(cmds') = Len(cmds) + Len(b) /\ Len(cmds) \in Nat
      BY <1>1, <2>2, <2>3, LenJoined
    <3>2. i \in DOMAIN cmds \/ (i > Len(cmds) /\ i - Len(cmds) \in DOMAIN b /\ cmds'[i] = b[i - Len(cmds)])
      BY <1>1, <2>2, <2>3, JoinPlaces
    <3>3. i \notin DOMAIN cmds
      <4> SUFFICES ASSUME i \in DOMAIN cmds PROVE FALSE
        OBVIOUS
      <4>1. cmds'[i] = cmds[i]
        BY <1>1, <2>2, <2>3, JoinPlaces
      <4>2. ~Waits("AI")
        BY <2>1 DEF WatchInv, OneQuestion
      <4> QED
        BY <4>1, <4>2 DEF Waits
    <3> QED
      BY <1>1, <3>1, <3>2, <3>3
  <2>6. ~LevelAnswered' /\ line' \in Seq(AnswerType)
    BY <2>1 DEF LevelAnswered
  <2>7. rig.ai = opts.found /\ originalAi = Unknown /\ ~Waits("setAI")
    BY <2>1 DEF WatchInv, LevelUntouched
  <2>8. ~Waits("setAI")'
    BY <2>4, <2>7
  <2>9. WatchTypes' /\ LevelPhase'
    BY <1>2, <2>1, <2>4, <2>6, <2>7 DEF WatchInv, WatchTypes, LevelPhase
  <2>10. LevelUntouched' /\ LevelHeard' /\ OneQuestion'
    BY <1>2, <2>1, <2>5, <2>6, <2>7, <2>8 DEF LevelUntouched, LevelHeard, OneQuestion
  <2> QED
    BY <1>4, <2>9, <2>10 DEF WatchInv
<1>7. CASE AiRead
  <2>1. /\ pc = "aiRead" /\ pc' = "aiSet" /\ line' = <<>> /\ originalAi' = LevelIn(line)
        /\ cmds' = cmds \o <<SetAi(opts.ai)>>
    BY <1>7 DEF AiRead, Go, Setup
  <2>2. rig.ai = opts.found /\ ~Waits("setAI")
    BY <2>1 DEF WatchInv, LevelUntouched
  <2>3. SetAi(opts.ai) \in CmdType /\ <<SetAi(opts.ai)>> \in Seq(CmdType)
    BY <1>1, OrdersTyped
  <2>4. /\ cmds' \in Seq(CmdType) /\ Len(cmds) \in Nat /\ DOMAIN cmds = 1 .. Len(cmds)
        /\ DOMAIN cmds' = 1 .. Len(cmds) + 1 /\ cmds'[Len(cmds) + 1] = SetAi(opts.ai)
        /\ \A i \in DOMAIN cmds : cmds'[i] = cmds[i]
    BY <1>1, <2>1, <2>3
  <2>5. ASSUME originalAi' # Unknown PROVE originalAi' = opts.found /\ ~Waits("AI")
    <3>1. PICK i \in DOMAIN line : line[i] = Answer("AI", originalAi')
      BY <1>1, <2>1, <2>5, LevelIsAnswer
    <3>2. line[i].kind = "AI" /\ line[i].value = originalAi'
      BY <3>1 DEF Answer
    <3>3. LevelAnswered
      BY <3>2 DEF LevelAnswered
    <3> QED
      BY <2>1, <3>2, <3>3 DEF WatchInv, LevelHeard, OneQuestion, Waits
  <2>6. WatchTypes'
    <3>1. line' \in Seq(AnswerType)
      BY <2>1
    <3> QED
      BY <1>2, <2>4, <2>5, <3>1 DEF WatchInv, WatchTypes
  <2>7. LevelPhase'
    <3> SUFFICES ASSUME originalAi' # Unknown PROVE IsBack' \/ (opts.ai # originalAi' /\ NotYetSet')
      BY <1>2 DEF LevelPhase
    <3>1. \A i \in DOMAIN cmds : cmds[i].op \notin {"AI", "setAI"}
      BY <2>2, <2>5 DEF Waits
    <3>2. \A i \in DOMAIN cmds' : i \in DOMAIN cmds \/ i = Len(cmds) + 1
      BY <2>4
    <3>3. CASE opts.ai = originalAi'
      <4>1. OnlySets(cmds', originalAi')
        BY <2>4, <3>1, <3>2, <3>3 DEF OnlySets
      <4> QED
        BY <1>2, <2>2, <2>5, <4>1 DEF IsBack
    <3>4. CASE opts.ai # originalAi'
      <4>1. Len(cmds) + 1 \in DOMAIN cmds' /\ cmds'[Len(cmds) + 1] = SetAi(opts.ai)
        BY <2>4
      <4>2. ASSUME NEW i \in DOMAIN cmds'
            PROVE  /\ i < Len(cmds) + 1 => cmds'[i].op \notin {"AI", "setAI"}
                   /\ ~(i > Len(cmds) + 1)
        BY <2>4, <3>1, <3>2
      <4>3. NotYetSet'
        BY <1>2, <4>1, <4>2 DEF NotYetSet
      <4> QED
        BY <3>4, <4>3
    <3> QED
      BY <3>3, <3>4
  <2> QED
    BY <1>4, <2>1, <2>6, <2>7 DEF WatchInv, LevelUntouched, LevelHeard, OneQuestion
<1>8. CASE AiSet \/ AiCheck
  <2>1. pc' \in {"aiCheck", "loop"} /\ line' = <<>> /\ originalAi' = originalAi
    BY <1>8 DEF AiSet, AiCheck, Go, Setup
  <2>2. PICK b \in {<<>>, <<Cmd("AI")>>} : cmds' = cmds \o b
    BY <1>8 DEF AiSet, AiCheck, Setup
  <2>3. b \in Seq(CmdType) /\ OnlySets(b, originalAi)
    <3>1. ~Holds(b, "setAI")
      BY <2>2, OrdersTyped, JustOne
    <3>2. <<>> \in Seq(CmdType) /\ <<Cmd("AI")>> \in Seq(CmdType)
      BY OrdersTyped
    <3>3. b \in Seq(CmdType)
      BY <2>2, <3>2
    <3> QED
      BY <3>1, <3>3, SettingNone
  <2>4. cmds' \in Seq(CmdType) /\ LevelPhase'
    BY <1>1, <1>2, <2>1, <2>2, <2>3, OrdersJoin DEF WatchInv
  <2>5. line' \in Seq(AnswerType)
    BY <2>1
  <2> QED
    BY <1>2, <1>4, <2>1, <2>4, <2>5 DEF WatchInv, WatchTypes, LevelUntouched, LevelHeard, OneQuestion
<1> QED
  BY <1>5, <1>6, <1>7, <1>8

\* In the loop nothing is promised of the transmitter, nor of the level but its
\* phase. What ends it goes to restore the level, if there is one to restore.
LEMMA LoopKeepsInv == WatchInv /\ (Loop \/ Interrupt) => WatchInv'
<1> SUFFICES ASSUME WatchInv, Loop \/ Interrupt PROVE WatchInv'
  OBVIOUS
<1>1. pc = "loop" /\ pc' \in {"loop", Finally} /\ UNCHANGED <<opts, rig, originalAi, said, faults>>
  BY DEF Loop, Interrupt
<1>2. cmds \in Seq(CmdType) /\ line \in Seq(AnswerType)
  BY DEF WatchInv, WatchTypes
<1>3. \E b \in Seq(CmdType) : cmds' = cmds \o b /\ ~Holds(b, "setAI")
  <2>1. CASE Loop
    <3> DEFINE k == When(Keying, <<Cmd("TX")>>)
               u == When(Unkeying, <<Cmd("RX")>>)
               p == When(Polling, <<Cmd("IF")>>)
               w == When(WatchdogDue(lastFlag', keyAt', now), <<Cmd("RX")>>)
    <3>1. \A n \in {"TX", "RX", "IF"} : \A a : When(a, <<Cmd(n)>>) \in Seq(CmdType) /\ ~Holds(When(a, <<Cmd(n)>>), "setAI")
      <4> SUFFICES ASSUME NEW n \in {"TX", "RX", "IF"}, NEW a
                   PROVE  When(a, <<Cmd(n)>>) \in Seq(CmdType) /\ ~Holds(When(a, <<Cmd(n)>>), "setAI")
        OBVIOUS
      <4>1. Cmd(n) \in CmdType /\ Cmd(n).op # "setAI"
        BY OrdersTyped
      <4>2. <<Cmd(n)>> \in Seq(CmdType) /\ ~Holds(<<Cmd(n)>>, "setAI")
        BY <4>1, JustOne
      <4> QED
        BY <4>2, JustOne DEF When
    <3>2. k \in Seq(CmdType) /\ u \in Seq(CmdType) /\ p \in Seq(CmdType) /\ w \in Seq(CmdType)
      BY <3>1
    <3>3. ~Holds(k, "setAI") /\ ~Holds(u, "setAI") /\ ~Holds(p, "setAI") /\ ~Holds(w, "setAI")
      BY <3>1
    <3>4. cmds' = cmds \o k \o u \o p \o w
      BY <2>1 DEF Loop
    <3> HIDE DEF k, u, p, w
    <3>5. \A q, r \in Seq(CmdType) : ~Holds(q, "setAI") /\ ~Holds(r, "setAI") => q \o r \in Seq(CmdType) /\ ~Holds(q \o r, "setAI")
      <4> SUFFICES ASSUME NEW q \in Seq(CmdType), NEW r \in Seq(CmdType), ~Holds(q, "setAI"), ~Holds(r, "setAI")
                   PROVE  q \o r \in Seq(CmdType) /\ ~Holds(q \o r, "setAI")
        OBVIOUS
      <4>1. /\ q \o r \in Seq(CmdType)
            /\ \A i \in DOMAIN q : (q \o r)[i] = q[i]
            /\ \A i \in DOMAIN (q \o r) : i \in DOMAIN q \/ (i - Len(q) \in DOMAIN r /\ (q \o r)[i] = r[i - Len(q)])
        BY JoinPlaces
      <4> QED
        BY <4>1 DEF Holds
    <3>6. k \o u \in Seq(CmdType) /\ ~Holds(k \o u, "setAI")
      BY <3>2, <3>3, <3>5
    <3>7. (k \o u) \o p \in Seq(CmdType) /\ ~Holds((k \o u) \o p, "setAI")
      BY <3>2, <3>3, <3>5, <3>6
    <3>8. ((k \o u) \o p) \o w \in Seq(CmdType) /\ ~Holds(((k \o u) \o p) \o w, "setAI")
      BY <3>2, <3>3, <3>5, <3>7
    <3>9. cmds' = cmds \o (((k \o u) \o p) \o w)
      <4>0. \A x, y, z \in Seq(CmdType) : (x \o y) \o z = x \o (y \o z)
        BY JoinsInTurn
      <4>1. (cmds \o k) \o u = cmds \o (k \o u)
        BY <1>2, <3>2, <4>0, ZenonT(40)
      <4>2. (cmds \o (k \o u)) \o p = cmds \o ((k \o u) \o p)
        BY <1>2, <3>2, <3>6, <4>0, ZenonT(40)
      <4>3. (cmds \o ((k \o u) \o p)) \o w = cmds \o (((k \o u) \o p) \o w)
        BY <1>2, <3>2, <3>7, <4>0, ZenonT(40)
      <4> QED
        BY <3>4, <4>1, <4>2, <4>3
    <3> QED
      BY <3>8, <3>9
  <2>2. CASE Interrupt
    <3>1. cmds' = cmds \o <<>> /\ <<>> \in Seq(CmdType)
      BY <1>2, <2>2 DEF Interrupt
    <3> QED
      BY <3>1, JustOne
  <2> QED
    BY <2>1, <2>2
<1>4. cmds' \in Seq(CmdType) /\ LevelPhase'
  <2>1. PICK b \in Seq(CmdType) : cmds' = cmds \o b /\ ~Holds(b, "setAI")
    BY <1>3
  <2>2. OnlySets(b, originalAi)
    BY <2>1, SettingNone
  <2>3. cmds' \in Seq(CmdType) /\ (LevelPhase => LevelPhase')
    BY <1>1, <1>2, <2>1, <2>2, OrdersJoin
  <2> QED
    BY <2>3 DEF WatchInv
<1>5. line' \in Seq(AnswerType)
  <2>1. line' \in {<<>>, line}
    BY DEF Loop, Interrupt
  <2>2. <<>> \in Seq(AnswerType)
    OBVIOUS
  <2> QED
    BY <1>2, <2>1, <2>2
<1> QED
  BY <1>1, <1>4, <1>5
     DEF Finally, WatchInv, WatchTypes, LevelUntouched, LevelHeard, OneQuestion, LevelBelieved, LevelOnItsWay,
         UnkeyOnItsWay, KeyedIsReported, ConfirmedAtTheEnd, GotTo, Restored

\* The level is given back.
LEMMA RestoreKeepsInv == WatchInv /\ (AiBack \/ AiAsk \/ AiBelieve) => WatchInv'
<1> SUFFICES ASSUME WatchInv, AiBack \/ AiAsk \/ AiBelieve PROVE WatchInv'
  OBVIOUS
<1>1. cmds \in Seq(CmdType) /\ line \in Seq(AnswerType) /\ originalAi \in Int
  BY DEF WatchInv, WatchTypes, Unknown
<1>2. UNCHANGED <<opts, rig, originalAi, faults>>
  BY DEF AiBack, AiAsk, AiBelieve, EndUnchanged
<1>3. /\ pc \in {"aiBack", "aiAsk", "aiBelieve"} /\ pc' \in {"aiAsk", "aiBelieve", "ensure"}
      /\ LevelUntouched' /\ LevelHeard' /\ OneQuestion' /\ UnkeyOnItsWay' /\ KeyedIsReported'
  BY DEF AiBack, AiAsk, AiBelieve, Go, LevelUntouched, LevelHeard, OneQuestion, UnkeyOnItsWay, KeyedIsReported, GotTo
<1>4. said.tx # "confirmed" /\ said.ai # "restored"
  BY <1>3 DEF WatchInv, ConfirmedAtTheEnd, LevelBelieved
<1>5. CASE AiBack
  <2>1. /\ pc' = "aiAsk" /\ said' = said /\ line' = line
        /\ cmds' = cmds \o <<SetAi(originalAi)>> /\ <<SetAi(originalAi)>> \in Seq(CmdType)
        /\ cmds'[Len(cmds) + 1] = SetAi(originalAi) /\ DOMAIN cmds' = 1 .. Len(cmds) + 1 /\ Len(cmds) \in Nat
    BY <1>1, <1>5, OrdersTyped, OneJoins DEF AiBack, Go
  <2>2. OnlySets(<<SetAi(originalAi)>>, originalAi)
    BY DEF OnlySets
  <2>3. cmds' \in Seq(CmdType) /\ LevelPhase'
    BY <1>1, <1>2, <2>1, <2>2, OrdersJoin DEF WatchInv
  <2>4. LevelAtRest(originalAi)'
    BY <1>2, <2>1 DEF LevelAtRest
  <2> QED
    BY <1>2, <1>3, <1>4, <2>1, <2>3, <2>4
       DEF WatchInv, WatchTypes, LevelBelieved, LevelOnItsWay, ConfirmedAtTheEnd, Restored
<1>6. CASE AiAsk
  <2>1. /\ pc = "aiAsk" /\ pc' = "aiBelieve" /\ said' = said /\ line' = <<>>
        /\ cmds' = cmds \o <<Cmd("AI")>> /\ <<Cmd("AI")>> \in Seq(CmdType)
    BY <1>1, <1>6, OrdersTyped, OneJoins DEF AiAsk, Go
  <2>2. ~Holds(<<Cmd("AI")>>, "setAI") /\ OnlySets(<<Cmd("AI")>>, originalAi)
    BY OrdersTyped, JustOne, SettingNone
  <2>3. cmds' \in Seq(CmdType) /\ LevelPhase' /\ (LevelAtRest(originalAi) => LevelAtRest(originalAi)')
    BY <1>1, <1>2, <2>1, <2>2, OrdersJoin DEF WatchInv
  <2>4. line' \in Seq(AnswerType)
    BY <2>1
  <2> QED
    BY <1>2, <1>3, <1>4, <2>1, <2>3, <2>4
       DEF WatchInv, WatchTypes, LevelBelieved, LevelOnItsWay, ConfirmedAtTheEnd, Restored
<1>7. CASE AiBelieve
  <2>1. pc = "aiBelieve" /\ pc' = "ensure" /\ line' = <<>> /\ cmds' = cmds \o <<>> /\ <<>> \in Seq(CmdType)
    BY <1>1, <1>7 DEF AiBelieve, Go
  <2>2. /\ cmds' \in Seq(CmdType) /\ LevelPhase' /\ (LevelAtRest(originalAi) => LevelAtRest(originalAi)')
        /\ IsBack => IsBack'
    BY <1>1, <1>2, <2>1, JustOne, SettingNone, OrdersJoin DEF WatchInv
  <2>3. /\ said' \in SaidType /\ said'.tx = said.tx
        /\ said'.ai = "restored" => LevelIn(line) = originalAi
    <3>1. said \in SaidType
      BY DEF WatchInv, WatchTypes
    <3>2. said' = [said EXCEPT !.ai = IF LevelIn(line) = originalAi THEN "restored" ELSE "warned"]
      BY <1>7 DEF AiBelieve
    <3> QED
      BY <3>1, <3>2 DEF SaidType
  <2>4. said'.ai = "restored" /\ originalAi # Unknown => IsBack
    <3> SUFFICES ASSUME said'.ai = "restored", originalAi # Unknown PROVE IsBack
      OBVIOUS
    <3>1. \E i \in DOMAIN line : line[i] = Answer("AI", originalAi)
      BY <1>1, <2>3, LevelIsAnswer
    <3> QED
      BY <2>1, <3>1 DEF WatchInv, LevelBelieved
  <2>5. line' \in Seq(AnswerType)
    BY <2>1
  <2>6. LevelBelieved'
    BY <1>2, <2>1, <2>2, <2>4 DEF LevelBelieved
  <2> QED
    BY <1>2, <1>3, <1>4, <2>1, <2>2, <2>3, <2>5, <2>6
       DEF WatchInv, WatchTypes, LevelOnItsWay, ConfirmedAtTheEnd, Restored
<1> QED
  BY <1>5, <1>6, <1>7

\* ensure_receive orders, asks and looks.
LEMMA EnsureKeepsInv == WatchInv /\ (Unkey \/ Ask \/ Look) => WatchInv'
<1> SUFFICES ASSUME WatchInv, Unkey \/ Ask \/ Look PROVE WatchInv'
  OBVIOUS
<1>1. cmds \in Seq(CmdType) /\ line \in Seq(AnswerType) /\ said \in SaidType
  BY DEF WatchInv, WatchTypes
<1>2. UNCHANGED <<opts, rig, originalAi, faults>>
  BY DEF Unkey, Ask, Look, EndUnchanged
<1>3. /\ pc \in {"ensure", "ask", "look"} /\ pc' \in {"ensure", "ask", "look", "closed"}
      /\ LevelUntouched' /\ LevelHeard' /\ OneQuestion'
  BY DEF Unkey, Ask, Look, Go, LevelUntouched, LevelHeard, OneQuestion
<1>4. said.tx # "confirmed"
  BY <1>3 DEF WatchInv, ConfirmedAtTheEnd
<1>5. said'.ai = said.ai /\ said' \in SaidType
  BY <1>1 DEF Unkey, Ask, Look, SaidType
<1>6. PICK b \in {<<>>, <<Cmd("RX")>>, <<Cmd("IF")>>} :
             /\ cmds' = cmds \o b
             /\ Unkey => b = <<Cmd("RX")>>
             /\ Ask => b = <<Cmd("IF")>>
             /\ Look => b = <<>>
  <2>1. CASE Unkey
    <3>a. Look => pc = "look"
      BY Zenon DEF Look
    <3>1. cmds' = cmds \o <<Cmd("RX")>> /\ ~Ask /\ ~Look
      BY <1>1, <2>1, <3>a, OrdersTyped, OneJoins DEF Unkey, Ask, Go
    <3> QED
      BY <3>1
  <2>2. CASE Ask
    <3>a. Look => pc = "look"
      BY Zenon DEF Look
    <3>1. cmds' = cmds \o <<Cmd("IF")>> /\ ~Unkey /\ ~Look
      BY <1>1, <2>2, <3>a, OrdersTyped, OneJoins DEF Unkey, Ask, Go
    <3> QED
      BY <3>1
  <2>3. CASE Look
    <3>1. cmds' = cmds /\ pc = "look"
      BY <2>3, Zenon DEF Look
    <3>2. cmds' = cmds \o <<>>
      BY <1>1, <3>1
    <3>3. ~Unkey /\ ~Ask
      BY <3>1 DEF Unkey, Ask, Go
    <3> QED
      BY <3>2, <3>3
  <2> QED
    BY <2>1, <2>2, <2>3
<1>7. b \in Seq(CmdType) /\ ~Holds(b, "setAI") /\ ~Holds(b, "TX") /\ OnlySets(b, originalAi)
  <2>1. /\ Cmd("RX") \in CmdType /\ Cmd("IF") \in CmdType
        /\ \A op \in {"TX", "setAI"} : Cmd("RX").op # op /\ Cmd("IF").op # op
    BY OrdersTyped
  <2>2. <<>> \in Seq(CmdType) /\ <<Cmd("RX")>> \in Seq(CmdType) /\ <<Cmd("IF")>> \in Seq(CmdType)
    BY <2>1
  <2>3. b \in Seq(CmdType)
    BY <1>6, <2>2
  <2>4. ~Holds(b, "setAI") /\ ~Holds(b, "TX")
    BY <1>6, <2>1, JustOne
  <2> QED
    BY <2>3, <2>4, SettingNone
<1>8. /\ cmds' \in Seq(CmdType) /\ LevelPhase' /\ (LevelAtRest(originalAi) => LevelAtRest(originalAi)')
      /\ IsBack => IsBack'
      /\ ReceivesAtRest => ReceivesAtRest'
  <2>1. cmds' = cmds \o b
    BY <1>6
  <2>2. LevelPhase
    BY DEF WatchInv
  <2> QED
    BY <1>1, <1>2, <1>7, <2>1, <2>2, OrdersJoin
<1>a. opts.ai # NotAsked /\ originalAi # Unknown => LevelAtRest(originalAi)
  <2>1. pc \in Restored
    BY <1>3 DEF Restored
  <2> QED
    BY <2>1 DEF WatchInv, LevelOnItsWay
<1>b. LevelOnItsWay'
  <2>1. opts'.ai # NotAsked /\ originalAi' # Unknown => LevelAtRest(originalAi)'
    BY <1>2, <1>8, <1>a
  <2> QED
    BY <2>1, Zenon DEF LevelOnItsWay
<1>c. LevelBelieved'
  BY <1>2, <1>3, <1>5, <1>8 DEF WatchInv, LevelBelieved
<1>9. LevelBelieved' /\ LevelOnItsWay'
  BY <1>b, <1>c
<1>10. WatchTypes'
  <2>a. line' \in {<<>>, line}
    BY Zenon DEF Unkey, Ask, Look
  <2>b. <<>> \in Seq(AnswerType)
    OBVIOUS
  <2>1. line' \in Seq(AnswerType)
    BY <1>1, <2>a, <2>b
  <2> QED
    BY <1>2, <1>5, <1>8, <2>1 DEF WatchInv, WatchTypes
<1>11. CASE Unkey
  <2>1. /\ cmds' = Append(cmds, Cmd("RX")) /\ Cmd("RX") \in CmdType /\ Cmd("RX").op = "RX"
        /\ pc' = "ask" /\ said' = said
    BY <1>11, OrdersTyped DEF Unkey, Go
  <2>2. /\ cmds'[Len(cmds) + 1].op = "RX" /\ DOMAIN cmds' = 1 .. Len(cmds) + 1 /\ Len(cmds) \in Nat
        /\ \A i \in DOMAIN cmds' : cmds'[i].op = "TX" => i < Len(cmds) + 1
    BY <1>1, <2>1, OneJoins
  <2>3. ReceivesAtRest'
    BY <2>2 DEF ReceivesAtRest
  <2> QED
    BY <1>2, <1>3, <1>4, <1>8, <1>9, <1>10, <2>1, <2>3 DEF WatchInv, UnkeyOnItsWay, KeyedIsReported, ConfirmedAtTheEnd
<1>12. CASE Ask
  <2>1. /\ cmds' = Append(cmds, Cmd("IF")) /\ Cmd("IF") \in CmdType
        /\ pc = "ask" /\ pc' = "look" /\ said' = said
    BY <1>12, OrdersTyped DEF Ask, Go
  <2>2. EndsWith(cmds', Cmd("IF"))
    BY <1>1, <2>1, AppendEnds
  <2> QED
    BY <1>2, <1>3, <1>4, <1>8, <1>9, <1>10, <2>1, <2>2 DEF WatchInv, UnkeyOnItsWay, KeyedIsReported, ConfirmedAtTheEnd
<1>13. CASE Look
  <2>1. cmds' = cmds /\ pc = "look" /\ pc' \in {"closed", "ensure"}
    BY <1>13 DEF Look
  <2>2. cmds = <<>> /\ rig.tx => faults > 1 \/ FlagIn(line) = "1"
    BY <1>1, <2>1, LastReportCounts DEF WatchInv, KeyedIsReported
  <2>3. said'.tx = "confirmed" => FlagIn(line) = "0" /\ pc' = "closed"
    <3>1. said'.tx = IF FlagIn(line) = "0" THEN "confirmed" ELSE IF tries' = Attempts THEN "warned" ELSE ""
      BY <1>1, <1>13 DEF Look, SaidType
    <3>2. FlagIn(line) = "0" => pc' = "closed"
      BY <1>13 DEF Look
    <3> QED
      BY <3>1, <3>2
  <2>4. ConfirmedAtTheEnd'
    BY <1>2, <2>1, <2>2, <2>3 DEF ConfirmedAtTheEnd
  <2> QED
    BY <1>2, <1>3, <1>8, <1>9, <1>10, <2>1, <2>4 DEF WatchInv, UnkeyOnItsWay, KeyedIsReported, GotTo
<1> QED
  BY <1>11, <1>12, <1>13

\* Every step of the watcher keeps the invariant.
LEMMA WatchKeepsInv == WatchInv /\ (Next \/ UNCHANGED vars) => WatchInv'
<1> SUFFICES ASSUME WatchInv, Next \/ UNCHANGED vars PROVE WatchInv'
  OBVIOUS
<1>1. CASE Abort \/ Done \/ UNCHANGED vars
  <2>1. /\ UNCHANGED <<opts, rig, cmds, line, originalAi, said, faults>>
        /\ UNCHANGED <<pc, why>> \/ (pc' = "aborted" /\ why' = pc /\ ~Ended)
    BY <1>1 DEF Abort, Done, vars
  <2>2. cmds \in Seq(CmdType) /\ <<>> \in Seq(CmdType)
    BY DEF WatchInv, WatchTypes
  <2>3. cmds' = cmds \o <<>>
    BY <2>1, <2>2
  <2>4. /\ LevelPhase' /\ (LevelAtRest(originalAi) => LevelAtRest(originalAi)')
        /\ IsBack => IsBack'
        /\ ReceivesAtRest => ReceivesAtRest'
    BY <2>1, <2>2, <2>3, JustOne, SettingNone, OrdersJoin DEF WatchInv
  <2>5. WatchTypes' /\ LevelUntouched' /\ LevelHeard' /\ OneQuestion'
    BY <2>1 DEF WatchInv, WatchTypes, LevelUntouched, LevelHeard, OneQuestion, LevelAnswered, Waits
  <2>a. \A places : GotTo(places)' => pc \in places \/ GotTo(places)
    BY <2>1 DEF GotTo
  <2>6. LevelBelieved' /\ LevelOnItsWay' /\ UnkeyOnItsWay'
    <3>1. LevelBelieved'
      BY <2>1, <2>4 DEF WatchInv, LevelBelieved
    <3>2. pc' \in {"ask", "look"} => pc \in {"ask", "look"}
      BY <2>1
    <3>3. pc' \in Restored => pc \in Restored
      BY <2>1 DEF Restored
    <3>4. LevelOnItsWay'
      <4>1. (pc' \in Restored \/ GotTo(Restored)') => pc \in Restored \/ GotTo(Restored)
        BY <2>a, <3>3
      <4>2. UNCHANGED <<opts, originalAi>> /\ LevelOnItsWay
        BY <2>1 DEF WatchInv
      <4> QED
        BY <2>4, <4>1, <4>2, Zenon DEF LevelOnItsWay
    <3>5. UnkeyOnItsWay'
      <4>1. (pc' \in {"ask", "look"} \/ GotTo({"ask", "look"})') => pc \in {"ask", "look"} \/ GotTo({"ask", "look"})
        BY <2>a, <3>2
      <4>2. faults' = faults /\ UnkeyOnItsWay
        BY <2>1 DEF WatchInv
      <4> QED
        BY <2>4, <4>1, <4>2 DEF UnkeyOnItsWay
    <3> QED
      BY <3>1, <3>4, <3>5
  <2>7. KeyedIsReported' /\ ConfirmedAtTheEnd'
    BY <2>1 DEF WatchInv, KeyedIsReported, ConfirmedAtTheEnd, Ended
  <2> QED
    BY <2>4, <2>5, <2>6, <2>7 DEF WatchInv
<1>2. CASE Next
  BY <1>1, <1>2, RigKeepsInv, SetupKeepsInv, LoopKeepsInv, RestoreKeepsInv, EnsureKeepsInv DEF Next, Tool
<1> QED
  BY <1>1, <1>2

------------------------------------------------------------------------------
\* The transmit watcher: its queue of orders and its buffer

\* An order of a kind that comes after the order to key and was given in time: at the given
\* age of the transmission, or a turn later and the rig has to handle it now.
Timely(q, over, op, age, limit) ==
    \E j \in DOMAIN q : /\ q[j].op = op
                        /\ \A i \in DOMAIN q : q[i].op = "TX" => i < j
                        /\ age <= IF j <= over THEN limit + 1 ELSE limit
\* The order to key is given once, and no unkey is before it.
TxFirst(q) == \A i, j \in DOMAIN q : q[i].op \in {"RX", "TX"} /\ q[j].op = "TX" => j <= i

\* The rig takes the first order of the queue.
LEMMA QueueTaken ==
    ASSUME NEW q \in Seq(CmdType), q # <<>>, NEW over \in Nat, NEW op, NEW age \in Int, NEW limit \in Int
    PROVE  /\ Tail(q) \in Seq(CmdType)
           /\ \A x : Holds(Tail(q), x) => Holds(q, x)
           /\ \A x : Holds(q, x) /\ Head(q).op # x => Holds(Tail(q), x)
           /\ Timely(q, over, op, age, limit) /\ (Head(q).op # op \/ Holds(Tail(q), "TX"))
                 => Timely(Tail(q), Less(over), op, age, limit)
           /\ TxFirst(q) => TxFirst(Tail(q)) /\ (Head(q).op \in {"RX", "TX"} => ~Holds(Tail(q), "TX"))
<1>1. /\ Len(q) \in Nat /\ DOMAIN q = 1 .. Len(q) /\ Len(q) > 0
      /\ Tail(q) \in Seq(CmdType) /\ DOMAIN Tail(q) = 1 .. Len(q) - 1 /\ Head(q) = q[1]
  <2>1. Len(q) \in Nat /\ DOMAIN q = 1 .. Len(q) /\ Len(q) # 0
    BY EmptySeq
  <2>2. Tail(q) \in Seq(CmdType) /\ Len(Tail(q)) = Len(q) - 1
    BY HeadTailProperties
  <2>3. DOMAIN Tail(q) = 1 .. Len(Tail(q)) /\ Head(q) = q[1]
    BY <2>2
  <2> QED
    BY <2>1, <2>2, <2>3
<1>2. /\ \A i \in DOMAIN Tail(q) : i + 1 \in DOMAIN q /\ Tail(q)[i] = q[i + 1]
      /\ \A i \in DOMAIN q : i # 1 => i - 1 \in DOMAIN Tail(q) /\ Tail(q)[i - 1] = q[i]
  <2>1. \A i \in DOMAIN Tail(q) : i + 1 \in DOMAIN q /\ Tail(q)[i] = q[i + 1]
    BY <1>1, HeadTailProperties
  <2>2. ASSUME NEW i \in DOMAIN q, i # 1 PROVE i - 1 \in DOMAIN Tail(q) /\ Tail(q)[i - 1] = q[i]
    <3>1. i - 1 \in DOMAIN Tail(q) /\ i - 1 + 1 = i
      BY <1>1, <2>2
    <3> QED
      BY <2>1, <3>1
  <2> QED
    BY <2>1, <2>2
<1> DEFINE t == Tail(q)
<1> HIDE DEF t
<1>3. \A x : Holds(t, x) => Holds(q, x)
  BY <1>2 DEF Holds, t
<1>4. \A x : Holds(q, x) /\ Head(q).op # x => Holds(t, x)
  BY <1>1, <1>2 DEF Holds, t
<1>5. ASSUME Timely(q, over, op, age, limit), Head(q).op # op \/ Holds(t, "TX")
      PROVE  Timely(t, Less(over), op, age, limit)
  <2>1. PICK j \in DOMAIN q : /\ q[j].op = op /\ \A i \in DOMAIN q : q[i].op = "TX" => i < j
                              /\ age <= IF j <= over THEN limit + 1 ELSE limit
    BY <1>5 DEF Timely
  <2>2. j # 1
    <3>1. CASE Holds(t, "TX")
      <4>1. PICK i \in DOMAIN t : t[i].op = "TX"
        BY <3>1 DEF Holds
      <4>2. i + 1 < j
        BY <1>2, <2>1, <4>1 DEF t
      <4> QED
        BY <1>1, <4>2 DEF t
    <3> QED
      BY <1>1, <1>5, <2>1, <3>1
  <2>3. j - 1 \in DOMAIN t /\ t[j - 1].op = op
    BY <1>2, <2>1, <2>2 DEF t
  <2>4. \A i \in DOMAIN t : t[i].op = "TX" => i < j - 1
    <3> SUFFICES ASSUME NEW i \in DOMAIN t, t[i].op = "TX" PROVE i < j - 1
      OBVIOUS
    <3>1. i + 1 < j
      BY <1>2, <2>1 DEF t
    <3> QED
      BY <1>1, <3>1 DEF t
  <2>5. age <= IF j - 1 <= Less(over) THEN limit + 1 ELSE limit
    BY <1>1, <2>1, <2>2 DEF Less
  <2> QED
    BY <2>3, <2>4, <2>5 DEF Timely
<1>6. ASSUME TxFirst(q) PROVE TxFirst(t) /\ (Head(q).op \in {"RX", "TX"} => ~Holds(t, "TX"))
  <2>1. ASSUME NEW i \in DOMAIN t, NEW j \in DOMAIN t, t[i].op \in {"RX", "TX"}, t[j].op = "TX" PROVE j <= i
    <3>1. j + 1 <= i + 1
      BY <1>2, <1>6, <2>1 DEF TxFirst, t
    <3> QED
      BY <1>1, <3>1 DEF t
  <2>2. ASSUME NEW j \in DOMAIN t, t[j].op = "TX", Head(q).op \in {"RX", "TX"} PROVE FALSE
    <3>1. j + 1 <= 1
      BY <1>1, <1>2, <1>6, <2>2 DEF TxFirst, t
    <3> QED
      BY <1>1, <3>1 DEF t
  <2> QED
    BY <2>1, <2>2 DEF TxFirst, Holds
<1> QED
  BY <1>1, <1>3, <1>4, <1>5, <1>6 DEF t

\* Orders given at the end of a turn.
LEMMA QueueJoined ==
    ASSUME NEW q \in Seq(CmdType), NEW b \in Seq(CmdType)
    PROVE  /\ q \o b \in Seq(CmdType) /\ Len(q \o b) \in Nat /\ Len(q \o b) >= Len(q)
           /\ \A x : Holds(q \o b, x) <=> Holds(q, x) \/ Holds(b, x)
           /\ \A over, op, age, limit : Timely(q, over, op, age, limit) /\ ~Holds(b, "TX")
                                           => Timely(q \o b, over, op, age, limit)
           /\ \A over \in Nat, age, limit \in Int : \A op :
                 Holds(b, op) /\ ~Holds(b, "TX") /\ over <= Len(q) /\ age <= limit
                    => Timely(q \o b, over, op, age, limit)
           /\ TxFirst(q) /\ ~Holds(b, "TX") => TxFirst(q \o b)
<1> DEFINE r == q \o b
<1>1. /\ Len(q) \in Nat /\ Len(b) \in Nat /\ DOMAIN q = 1 .. Len(q) /\ DOMAIN b = 1 .. Len(b)
      /\ r \in Seq(CmdType) /\ Len(r) = Len(q) + Len(b) /\ DOMAIN r = 1 .. Len(q) + Len(b)
  OBVIOUS
<1>2. /\ \A i \in DOMAIN q : i \in DOMAIN r /\ r[i] = q[i]
      /\ \A i \in DOMAIN b : i + Len(q) \in DOMAIN r /\ r[i + Len(q)] = b[i]
      /\ \A i \in DOMAIN r : i \in DOMAIN q \/ (i > Len(q) /\ i - Len(q) \in DOMAIN b /\ r[i] = b[i - Len(q)])
  <2>1. \A i \in DOMAIN q : i \in DOMAIN r /\ r[i] = q[i]
    BY <1>1
  <2>2. \A i \in DOMAIN b : i + Len(q) \in DOMAIN r /\ r[i + Len(q)] = b[i]
    BY <1>1
  <2>3. \A i \in DOMAIN r : i \in DOMAIN q \/ (i > Len(q) /\ i - Len(q) \in DOMAIN b /\ r[i] = b[i - Len(q)])
    BY <1>1
  <2> QED
    BY <2>1, <2>2, <2>3
<1> HIDE DEF r
<1>3. \A x : Holds(r, x) <=> Holds(q, x) \/ Holds(b, x)
  BY <1>2 DEF Holds
<1>4. ASSUME ~Holds(b, "TX"), NEW i \in DOMAIN r, r[i].op = "TX" PROVE i \in DOMAIN q /\ q[i].op = "TX"
  BY <1>2, <1>4 DEF Holds
<1>5. ASSUME NEW over, NEW op, NEW age, NEW limit, Timely(q, over, op, age, limit), ~Holds(b, "TX")
      PROVE  Timely(r, over, op, age, limit)
  <2>1. PICK j \in DOMAIN q : /\ q[j].op = op /\ \A i \in DOMAIN q : q[i].op = "TX" => i < j
                              /\ age <= IF j <= over THEN limit + 1 ELSE limit
    BY <1>5 DEF Timely
  <2>2. j \in DOMAIN r /\ r[j].op = op /\ \A i \in DOMAIN r : r[i].op = "TX" => i < j
    BY <1>2, <1>4, <1>5, <2>1
  <2> QED
    BY <2>1, <2>2 DEF Timely
<1>6. ASSUME NEW over \in Nat, NEW age \in Int, NEW limit \in Int, NEW op,
             Holds(b, op), ~Holds(b, "TX"), over <= Len(q), age <= limit
      PROVE  Timely(r, over, op, age, limit)
  <2>1. PICK k \in DOMAIN b : b[k].op = op
    BY <1>6 DEF Holds
  <2>2. k + Len(q) \in DOMAIN r /\ r[k + Len(q)].op = op
    BY <1>2, <2>1
  <2>3. \A i \in DOMAIN r : r[i].op = "TX" => i < k + Len(q)
    BY <1>1, <1>4, <1>6, <2>1
  <2>4. ~(k + Len(q) <= over)
    BY <1>1, <1>6, <2>1
  <2> QED
    BY <1>6, <2>2, <2>3, <2>4 DEF Timely
<1>7. ASSUME TxFirst(q), ~Holds(b, "TX") PROVE TxFirst(r)
  <2> SUFFICES ASSUME NEW i \in DOMAIN r, NEW j \in DOMAIN r, r[i].op \in {"RX", "TX"}, r[j].op = "TX" PROVE j <= i
    BY DEF TxFirst
  <2>1. j \in DOMAIN q /\ q[j].op = "TX"
    BY <1>4, <1>7
  <2>2. CASE i \in DOMAIN q
    BY <1>2, <1>7, <2>1, <2>2 DEF TxFirst
  <2>3. CASE i > Len(q)
    BY <1>1, <2>1, <2>3
  <2> QED
    BY <1>2, <2>2, <2>3
<1> QED
  BY <1>1, <1>3, <1>5, <1>6, <1>7 DEF r

\* What waited for a turn has to be handled in the next.
LEMMA QueueAges ==
    ASSUME NEW q \in Seq(CmdType), NEW op, NEW age \in Int, NEW limit \in Int, Timely(q, 0, op, age, limit)
    PROVE  age <= limit /\ Timely(q, Len(q), op, age + 1, limit)
<1>1. PICK j \in DOMAIN q : /\ q[j].op = op /\ \A i \in DOMAIN q : q[i].op = "TX" => i < j
                            /\ age <= IF j <= 0 THEN limit + 1 ELSE limit
  BY DEF Timely
<1>2. j \in Nat /\ j > 0 /\ j <= Len(q)
  OBVIOUS
<1>3. age <= limit /\ age + 1 <= limit + 1
  BY <1>1, <1>2
<1> QED
  BY <1>1, <1>2, <1>3 DEF Timely

\* The order to key goes behind what waits.
LEMMA KeyJoined ==
    ASSUME NEW q \in Seq(CmdType), NEW k \in BOOLEAN,
           k => ~Holds(q, "TX") /\ ~Holds(q, "RX"), TxFirst(q)
    PROVE  LET r == q \o When(k, <<Cmd("TX")>>) IN
           /\ r \in Seq(CmdType) /\ Len(r) >= Len(q) /\ TxFirst(r)
           /\ Holds(r, "TX") <=> Holds(q, "TX") \/ k
           /\ \A x : x # "TX" => (Holds(r, x) <=> Holds(q, x))
           /\ \A over, op, age, limit : Timely(q, over, op, age, limit) /\ ~k => Timely(r, over, op, age, limit)
<1> DEFINE r == q \o When(k, <<Cmd("TX")>>)
<1>1. <<Cmd("TX")>> \in Seq(CmdType)
  <2>1. Cmd("TX") \in CmdType
    BY OrdersTyped
  <2> QED
    BY <2>1
<1>2. CASE k
  <2>1. r = q \o <<Cmd("TX")>>
    BY <1>2 DEF When
  <2>2. /\ r \in Seq(CmdType) /\ Len(r) >= Len(q)
        /\ \A x : Holds(r, x) <=> Holds(q, x) \/ Holds(<<Cmd("TX")>>, x)
    BY <1>1, <2>1, QueueJoined
  <2>3. \A x : Holds(<<Cmd("TX")>>, x) <=> x = "TX"
    BY DEF Holds, Cmd
  <2>4. TxFirst(r)
    <3> SUFFICES ASSUME NEW i \in DOMAIN r, NEW j \in DOMAIN r, r[i].op \in {"RX", "TX"}, r[j].op = "TX"
                 PROVE  j <= i
      BY DEF TxFirst
    <3>1. /\ Len(q) \in Nat /\ DOMAIN q = 1 .. Len(q) /\ DOMAIN r = 1 .. Len(q) + 1
          /\ \A n \in DOMAIN q : r[n] = q[n]
      BY <1>1, <2>1
    <3>2. ~(i \in DOMAIN q)
      BY <1>2, <3>1 DEF Holds
    <3> QED
      BY <3>1, <3>2
  <2> QED
    BY <1>2, <2>2, <2>3, <2>4
<1>3. CASE ~k
  <2>1. r = q
    <3>1. When(k, <<Cmd("TX")>>) = <<>>
      BY <1>3 DEF When
    <3> QED
      BY <3>1
  <2> HIDE DEF r
  <2>2. Len(q) \in Nat
    OBVIOUS
  <2>3. /\ r \in Seq(CmdType) /\ Len(r) >= Len(q) /\ TxFirst(r)
        /\ Holds(r, "TX") <=> Holds(q, "TX") \/ k
        /\ \A x : x # "TX" => (Holds(r, x) <=> Holds(q, x))
        /\ \A over, op, age, limit : Timely(q, over, op, age, limit) /\ ~k => Timely(r, over, op, age, limit)
    BY <1>3, <2>1, <2>2
  <2> QED
    BY <2>3 DEF r
<1> QED
  BY <1>2, <1>3

\* An order given behind, if it is given.
LEMMA OrderJoined ==
    ASSUME NEW q \in Seq(CmdType), NEW c \in BOOLEAN, NEW n \in {"RX", "IF"}, TxFirst(q)
    PROVE  LET r == q \o When(c, <<Cmd(n)>>) IN
           /\ r \in Seq(CmdType) /\ Len(r) >= Len(q) /\ TxFirst(r)
           /\ \A x : Holds(r, x) <=> Holds(q, x) \/ (c /\ x = n)
           /\ \A over, op, age, limit : Timely(q, over, op, age, limit) => Timely(r, over, op, age, limit)
           /\ \A over \in Nat, age, limit \in Int :
                 c /\ over <= Len(q) /\ age <= limit => Timely(r, over, n, age, limit)
<1> DEFINE b == When(c, <<Cmd(n)>>)
<1>1. b \in Seq(CmdType)
  <2>1. Cmd(n) \in CmdType
    BY OrdersTyped
  <2> QED
    BY <2>1 DEF When
<1>2. \A x : Holds(b, x) <=> c /\ x = n
  BY DEF Holds, When, Cmd
<1>3. ~Holds(b, "TX")
  BY <1>2
<1> HIDE DEF b
<1> DEFINE r == q \o b
<1>4. /\ r \in Seq(CmdType) /\ Len(r) >= Len(q)
      /\ \A x : Holds(r, x) <=> Holds(q, x) \/ Holds(b, x)
      /\ \A over, op, age, limit : Timely(q, over, op, age, limit) => Timely(r, over, op, age, limit)
  BY <1>1, <1>3, QueueJoined
<1>5. TxFirst(r)
  BY <1>1, <1>3, QueueJoined
<1>6. ASSUME NEW over \in Nat, NEW age \in Int, NEW limit \in Int, c, over <= Len(q), age <= limit
      PROVE  Timely(r, over, n, age, limit)
  <2>1. Holds(b, n)
    BY <1>2, <1>6
  <2> QED
    BY <1>1, <1>3, <1>6, <2>1, QueueJoined
<1>7. \A x : Holds(r, x) <=> Holds(q, x) \/ (c /\ x = n)
  BY <1>2, <1>4
<1> HIDE DEF r
<1>8. /\ r \in Seq(CmdType) /\ Len(r) >= Len(q) /\ TxFirst(r)
      /\ \A x : Holds(r, x) <=> Holds(q, x) \/ (c /\ x = n)
      /\ \A over, op, age, limit : Timely(q, over, op, age, limit) => Timely(r, over, op, age, limit)
      /\ \A over \in Nat, age, limit \in Int :
            c /\ over <= Len(q) /\ age <= limit => Timely(r, over, n, age, limit)
  BY <1>4, <1>5, <1>6, <1>7
<1> QED
  BY <1>8 DEF r, b

\* The orders of a turn of the loop.
Given(q, k, u, p, d) == q \o When(k, <<Cmd("TX")>>) \o When(u, <<Cmd("RX")>>) \o When(p, <<Cmd("IF")>>)
                          \o When(d, <<Cmd("RX")>>)

LEMMA TurnOrders ==
    ASSUME NEW q \in Seq(CmdType), NEW k \in BOOLEAN, NEW u \in BOOLEAN, NEW p \in BOOLEAN, NEW d \in BOOLEAN,
           k => ~Holds(q, "TX") /\ ~Holds(q, "RX"), TxFirst(q), NEW r, r = Given(q, k, u, p, d)
    PROVE  /\ r \in Seq(CmdType) /\ TxFirst(r)
           /\ Holds(r, "TX") <=> Holds(q, "TX") \/ k
           /\ Holds(r, "RX") => Holds(q, "RX") \/ u \/ d
           /\ Holds(r, "AI") => Holds(q, "AI")
           /\ Holds(r, "setAI") => Holds(q, "setAI")
           /\ \A op : \A age, limit \in Int : Timely(q, 0, op, age, limit) /\ ~k
                           => age <= limit /\ Timely(r, Len(q), op, age + 1, limit)
           /\ \A age, limit \in Int : age <= limit /\ (u \/ d) => Timely(r, Len(q), "RX", age, limit)
           /\ \A age, limit \in Int : age <= limit /\ p => Timely(r, Len(q), "IF", age, limit)
<1> DEFINE r1 == q \o When(k, <<Cmd("TX")>>)
<1> DEFINE r2 == r1 \o When(u, <<Cmd("RX")>>)
<1> DEFINE r3 == r2 \o When(p, <<Cmd("IF")>>)
<1> DEFINE r4 == r3 \o When(d, <<Cmd("RX")>>)
<1>0. r = r4
  BY DEF Given
<1>l. \A s \in Seq(CmdType) : Len(s) \in Nat
  OBVIOUS
<1>1. /\ r1 \in Seq(CmdType) /\ Len(r1) >= Len(q) /\ TxFirst(r1)
      /\ Holds(r1, "TX") <=> Holds(q, "TX") \/ k
      /\ \A x : x # "TX" => (Holds(r1, x) <=> Holds(q, x))
      /\ \A over, op, age, limit : Timely(q, over, op, age, limit) /\ ~k => Timely(r1, over, op, age, limit)
  BY KeyJoined
<1> HIDE DEF r1
<1>2. /\ r2 \in Seq(CmdType) /\ Len(r2) >= Len(r1) /\ TxFirst(r2)
      /\ \A x : Holds(r2, x) <=> Holds(r1, x) \/ (u /\ x = "RX")
      /\ \A over, op, age, limit : Timely(r1, over, op, age, limit) => Timely(r2, over, op, age, limit)
      /\ \A over \in Nat, age, limit \in Int :
            u /\ over <= Len(r1) /\ age <= limit => Timely(r2, over, "RX", age, limit)
  BY <1>1, OrderJoined
<1> HIDE DEF r2
<1>3. /\ r3 \in Seq(CmdType) /\ Len(r3) >= Len(r2) /\ TxFirst(r3)
      /\ \A x : Holds(r3, x) <=> Holds(r2, x) \/ (p /\ x = "IF")
      /\ \A over, op, age, limit : Timely(r2, over, op, age, limit) => Timely(r3, over, op, age, limit)
      /\ \A over \in Nat, age, limit \in Int :
            p /\ over <= Len(r2) /\ age <= limit => Timely(r3, over, "IF", age, limit)
  BY <1>2, OrderJoined
<1> HIDE DEF r3
<1>4. /\ r4 \in Seq(CmdType) /\ Len(r4) >= Len(r3) /\ TxFirst(r4)
      /\ \A x : Holds(r4, x) <=> Holds(r3, x) \/ (d /\ x = "RX")
      /\ \A over, op, age, limit : Timely(r3, over, op, age, limit) => Timely(r4, over, op, age, limit)
      /\ \A over \in Nat, age, limit \in Int :
            d /\ over <= Len(r3) /\ age <= limit => Timely(r4, over, "RX", age, limit)
  BY <1>3, OrderJoined
<1> HIDE DEF r4
<1>5. Len(q) \in Nat /\ Len(r1) >= Len(q) /\ Len(r2) >= Len(q) /\ Len(r3) >= Len(q)
  BY <1>l, <1>1, <1>2, <1>3
<1>6. ASSUME NEW op, NEW age \in Int, NEW limit \in Int, Timely(q, 0, op, age, limit), ~k
      PROVE  age <= limit /\ Timely(r4, Len(q), op, age + 1, limit)
  <2>1. age <= limit /\ Timely(q, Len(q), op, age + 1, limit)
    BY <1>6, QueueAges
  <2> QED
    BY <1>1, <1>2, <1>3, <1>4, <1>6, <2>1
<1>7. ASSUME NEW age \in Int, NEW limit \in Int, age <= limit, u \/ d PROVE Timely(r4, Len(q), "RX", age, limit)
  BY <1>2, <1>3, <1>4, <1>5, <1>7
<1>8. ASSUME NEW age \in Int, NEW limit \in Int, age <= limit, p PROVE Timely(r4, Len(q), "IF", age, limit)
  BY <1>3, <1>4, <1>5, <1>8
<1>9. /\ Holds(r4, "TX") <=> Holds(q, "TX") \/ k
      /\ Holds(r4, "RX") => Holds(q, "RX") \/ u \/ d
      /\ Holds(r4, "AI") => Holds(q, "AI")
      /\ Holds(r4, "setAI") => Holds(q, "setAI")
  <2>1. \A x : x # "TX" => (Holds(r1, x) <=> Holds(q, x))
    BY <1>1
  <2>2. \A x : Holds(r2, x) <=> Holds(r1, x) \/ (u /\ x = "RX")
    BY <1>2
  <2>3. \A x : Holds(r3, x) <=> Holds(r2, x) \/ (p /\ x = "IF")
    BY <1>3
  <2>4. \A x : Holds(r4, x) <=> Holds(r3, x) \/ (d /\ x = "RX")
    BY <1>4
  <2>5. Holds(r1, "TX") <=> Holds(q, "TX") \/ k
    BY <1>1
  <2>6. /\ \A x \in {"AI", "setAI"} : x # "TX" /\ x # "RX" /\ x # "IF"
        /\ "TX" # "RX" /\ "TX" # "IF" /\ "RX" # "IF"
    OBVIOUS
  <2>7. Holds(r4, "TX") <=> Holds(r1, "TX")
    BY <2>2, <2>3, <2>4, <2>6, Zenon
  <2>8. Holds(r4, "RX") => Holds(r1, "RX") \/ u \/ d
    BY <2>2, <2>3, <2>4, <2>6, Zenon
  <2>9. \A x \in {"AI", "setAI"} : Holds(r4, x) => Holds(r1, x)
    BY <2>2, <2>3, <2>4, <2>6, Zenon
  <2> QED
    BY <2>1, <2>5, <2>7, <2>8, <2>9
<1>10. r4 \in Seq(CmdType) /\ TxFirst(r4)
  BY <1>4
<1>11. /\ \A op : \A age, limit \in Int : Timely(q, 0, op, age, limit) /\ ~k
                       => age <= limit /\ Timely(r4, Len(q), op, age + 1, limit)
       /\ \A age, limit \in Int : age <= limit /\ (u \/ d) => Timely(r4, Len(q), "RX", age, limit)
       /\ \A age, limit \in Int : age <= limit /\ p => Timely(r4, Len(q), "IF", age, limit)
  BY <1>6, <1>7, <1>8
<1> QED
  BY <1>0, <1>9, <1>10, <1>11, Zenon

\* What a buffer says last of the transmitter.
LEMMA FlagValue ==
    ASSUME NEW s \in Seq(AnswerType)
    PROVE  LET I == {i \in 1 .. Len(s) : s[i].kind = "IF"} IN
           /\ I = {} => FlagIn(s) = "none"
           /\ I # {} => /\ Max(I) \in I /\ (\A y \in I : Max(I) >= y)
                        /\ FlagIn(s) = s[Max(I)].value /\ FlagIn(s) \in {"0", "1"}
<1> DEFINE I == {i \in 1 .. Len(s) : s[i].kind = "IF"}
<1>1. I \in SUBSET (1 .. Len(s)) /\ Len(s) \in Nat
  OBVIOUS
<1>2. FlagIn(s) = LET i == IF I # {} THEN Max(I) ELSE 0 IN IF i = 0 THEN "none" ELSE s[i].value
  BY DEF FlagIn, LastOf, SelectLastInSeq
<1>3. CASE I = {}
  BY <1>2, <1>3
<1>4. CASE I # {}
  <2>1. Max(I) \in I /\ \A y \in I : Max(I) >= y
    BY <1>1, <1>4, LastPlace
  <2>2. FlagIn(s) = s[Max(I)].value
    BY <1>1, <1>2, <1>4, <2>1
  <2>3. \A i \in I : s[i].value \in {"0", "1"}
    BY DEF AnswerType
  <2> QED
    BY <1>4, <2>1, <2>2, <2>3
<1> QED
  BY <1>3, <1>4

\* Nothing says nothing.
LEMMA FlagOfNothing == FlagIn(<<>>) = "none"
<1>1. <<>> \in Seq(AnswerType) /\ Len(<<>>) = 0
  OBVIOUS
<1>2. {i \in 1 .. Len(<<>>) : <<>>[i].kind = "IF"} = {}
  BY <1>1
<1> QED
  BY <1>1, <1>2, FlagValue

\* The later of two buffers counts, if it says anything.
LEMMA FlagJoined ==
    ASSUME NEW s \in Seq(AnswerType), NEW t \in Seq(AnswerType)
    PROVE  FlagIn(s \o t) = IF FlagIn(t) = "none" THEN FlagIn(s) ELSE FlagIn(t)
<1> DEFINE r == s \o t
<1> DEFINE I(a) == {i \in 1 .. Len(a) : a[i].kind = "IF"}
<1>1. /\ Len(s) \in Nat /\ Len(t) \in Nat /\ r \in Seq(AnswerType) /\ Len(r) = Len(s) + Len(t)
      /\ \A i \in 1 .. Len(s) : r[i] = s[i]
      /\ \A i \in 1 .. Len(t) : r[i + Len(s)] = t[i]
  OBVIOUS
<1>2. /\ \A i \in 1 .. Len(s) : i \in 1 .. Len(r)
      /\ \A i \in 1 .. Len(t) : i + Len(s) \in 1 .. Len(r)
      /\ \A i \in 1 .. Len(r) : i > Len(s) => i - Len(s) \in 1 .. Len(t) /\ r[i] = t[i - Len(s)]
  <2>1. \A i \in 1 .. Len(r) : i > Len(s) => i - Len(s) \in 1 .. Len(t) /\ i - Len(s) + Len(s) = i
    BY <1>1
  <2>2. \A i \in 1 .. Len(r) : i > Len(s) => i - Len(s) \in 1 .. Len(t) /\ r[i] = t[i - Len(s)]
    BY <1>1, <2>1
  <2>3. /\ \A i \in 1 .. Len(s) : i \in 1 .. Len(r)
        /\ \A i \in 1 .. Len(t) : i + Len(s) \in 1 .. Len(r)
    BY <1>1
  <2> QED
    BY <2>2, <2>3
<1> HIDE DEF r
<1>3. /\ \A a \in {s, t, r} : I(a) = {} => FlagIn(a) = "none"
      /\ \A a \in {s, t, r} : I(a) # {} =>
             /\ Max(I(a)) \in I(a) /\ (\A y \in I(a) : Max(I(a)) >= y)
             /\ FlagIn(a) = a[Max(I(a))].value /\ FlagIn(a) # "none"
  <2>1. \A a \in Seq(AnswerType) : I(a) = {} => FlagIn(a) = "none"
    BY FlagValue
  <2>2. \A a \in Seq(AnswerType) : I(a) # {} =>
             /\ Max(I(a)) \in I(a) /\ (\A y \in I(a) : Max(I(a)) >= y)
             /\ FlagIn(a) = a[Max(I(a))].value /\ FlagIn(a) # "none"
    BY FlagValue
  <2> QED
    BY <1>1, <2>1, <2>2
<1>4. CASE I(t) # {}
  <2> DEFINE m == Max(I(t))
  <2>1. m \in I(t) /\ (\A y \in I(t) : m >= y) /\ FlagIn(t) = t[m].value /\ FlagIn(t) # "none"
    BY <1>3, <1>4
  <2> HIDE DEF m
  <2>2. m + Len(s) \in I(r) /\ r[m + Len(s)] = t[m]
    BY <1>1, <1>2, <2>1
  <2> DEFINE n == Max(I(r))
  <2>3. n \in I(r) /\ (\A y \in I(r) : n >= y) /\ FlagIn(r) = r[n].value
    BY <1>3, <2>2
  <2> HIDE DEF n
  <2>4. n >= m + Len(s)
    BY <2>2, <2>3
  <2>5. n > Len(s) /\ n \in 1 .. Len(r)
    BY <1>1, <2>1, <2>3, <2>4
  <2>6. n - Len(s) \in I(t)
    BY <1>2, <2>3, <2>5
  <2>7. n = m + Len(s)
    <3>1. m >= n - Len(s)
      BY <2>1, <2>6
    <3>2. m \in Int /\ n \in Int /\ Len(s) \in Int
      BY <1>1, <2>1, <2>3
    <3> QED
      BY <2>4, <3>1, <3>2
  <2> QED
    BY <2>1, <2>2, <2>3, <2>7 DEF r
<1>5. CASE I(t) = {} /\ I(s) = {}
  <2>1. I(r) = {}
    <3> SUFFICES ASSUME NEW i \in 1 .. Len(r), r[i].kind = "IF" PROVE FALSE
      OBVIOUS
    <3>1. CASE i > Len(s)
      BY <1>2, <1>5, <3>1
    <3>2. CASE i \in 1 .. Len(s)
      BY <1>1, <1>5, <3>2
    <3> QED
      BY <1>1, <3>1, <3>2
  <2> QED
    BY <1>3, <1>5, <2>1 DEF r
<1>6. CASE I(t) = {} /\ I(s) # {}
  <2> DEFINE m == Max(I(s))
  <2>1. m \in I(s) /\ (\A y \in I(s) : m >= y) /\ FlagIn(s) = s[m].value
    BY <1>3, <1>6
  <2> HIDE DEF m
  <2>2. m \in I(r) /\ r[m] = s[m]
    BY <1>1, <1>2, <2>1
  <2> DEFINE n == Max(I(r))
  <2>3. n \in I(r) /\ (\A y \in I(r) : n >= y) /\ FlagIn(r) = r[n].value
    BY <1>3, <2>2
  <2> HIDE DEF n
  <2>4. ~(n > Len(s))
    BY <1>2, <1>6, <2>3
  <2>5. n \in I(s)
    BY <1>1, <2>3, <2>4
  <2>6. n = m
    <3>1. n >= m /\ m >= n
      BY <2>1, <2>2, <2>3, <2>5
    <3> QED
      BY <2>1, <2>3, <3>1
  <2>7. FlagIn(t) = "none"
    BY <1>3, <1>6
  <2> QED
    BY <2>1, <2>2, <2>3, <2>6, <2>7 DEF r
<1> QED
  BY <1>4, <1>5, <1>6

\* What is left behind the last report says nothing of the transmitter.
LEMMA NothingBehind ==
    ASSUME NEW s \in Seq(AnswerType)
    PROVE  AfterLastReport(s) \in Seq(AnswerType) /\ FlagIn(AfterLastReport(s)) = "none"
<1> DEFINE I == {i \in 1 .. Len(s) : s[i].kind = "IF"}
<1> DEFINE m == IF I # {} THEN Max(I) ELSE 0
<1>1. AfterLastReport(s) = SubSeq(s, 1 + m, Len(s))
  BY DEF AfterLastReport, SelectLastInSeq
<1>2. Len(s) \in Nat /\ m \in 0 .. Len(s) /\ \A y \in I : m >= y
  <2>1. I # {} => Max(I) \in I /\ \A y \in I : Max(I) >= y
    BY FlagValue
  <2> QED
    BY <2>1
<1> HIDE DEF m
<1> DEFINE r == SubSeq(s, 1 + m, Len(s))
<1>3. r \in Seq(AnswerType) /\ Len(r) = Len(s) - m /\ \A i \in 1 .. Len(r) : r[i] = s[m + i]
  <2>1. \A i \in 1 + m .. Len(s) : s[i] \in AnswerType
    BY <1>2
  <2>2. Len(r) = IF 1 + m <= Len(s) THEN Len(s) - (1 + m) + 1 ELSE 0
    BY <1>2, <2>1, SubSeqProperties
  <2>3. r \in Seq(AnswerType) /\ \A i \in 1 .. Len(s) - (1 + m) + 1 : r[i] = s[1 + m + i - 1]
    BY <1>2, <2>1, SubSeqProperties
  <2>4. Len(r) = Len(s) - m /\ Len(s) - (1 + m) + 1 = Len(s) - m
    BY <1>2, <2>2
  <2>5. \A i \in 1 .. Len(r) : 1 + m + i - 1 = m + i
    BY <1>2, <2>4
  <2> QED
    BY <2>3, <2>4, <2>5
<1> HIDE DEF r
<1>4. ASSUME NEW i \in 1 .. Len(r), r[i].kind = "IF" PROVE FALSE
  <2>1. m + i \in I /\ m + i > m
    BY <1>2, <1>3, <1>4
  <2> QED
    BY <1>2, <2>1
<1>5. FlagIn(r) = "none"
  BY <1>3, <1>4, FlagValue
<1> QED
  BY <1>1, <1>3, <1>5 DEF r

------------------------------------------------------------------------------
\* The transmit watcher: how long it keys

\* How long ago the order to key was given, and what the tool has last heard of
\* the transmitter, or will at its next look.
Age  == now - keyAt
Seen == IF FlagIn(line) = "none" THEN lastFlag ELSE FlagIn(line)

\* The tool has seen the rig keyed, or a poll is behind the order to key, or the
\* poll before it is about to time out, or the rig will tell it unasked.
WillSee ==
    \/ rig.tx /\ Seen = "1"
    \/ Timely(cmds, overdue, "IF", Age, 3)
    \/ sentAt < keyAt /\ Age <= 2 /\ opts.mode # "listen"
    \/ opts.mode = "listen" /\ Holds(cmds, "TX") /\ ~rig.tx

TimeTypes ==
    /\ opts.mode \in PollModes
    /\ now \in Nat /\ keyAt \in Int /\ sentAt \in Nat /\ lastRetry \in Nat /\ overdue \in Nat /\ keyed \in Nat
    /\ buf \in Seq(AnswerType) /\ lastFlag \in {"none", "0", "1"}

\* A poll is given up in time, and what is left in the buffer is not news.
PollsEnd ==
    /\ sentAt <= now /\ (now > 0 => sentAt < now)
    /\ pending => opts.mode \in {"paced", "waitall"} /\ now - sentAt <= 2
    /\ FlagIn(buf) \in {"none", lastFlag}

OrdersInLoop ==
    /\ pc \in {"aiCheck", "loop"} => ~Holds(cmds, "setAI")
    /\ pc = "loop" => TxFirst(cmds) /\ ~Holds(cmds, "AI")

\* Until the order to key the rig receives, unless it ignored the first unkey.
NotKeyedYet ==
    /\ pc \in Early => keyAt = Never /\ now = 0 /\ buf = <<>> /\ ~Holds(cmds, "TX")
    /\ keyAt = Never => ~unkeySent /\ keyed = 0 /\ lastRetry = 0
    /\ pc = "drain" /\ rig.tx => Holds(cmds, "RX") \/ faults > 0
    /\ pc \in {"aiRead", "aiSet", "aiCheck"} => (faults = 0 => ~rig.tx)
    /\ pc = "loop" /\ keyAt = Never => ~Holds(cmds, "TX") /\ ~Holds(cmds, "RX") /\ (faults = 0 => ~rig.tx)

OnceKeyed ==
    keyAt # Never => opts.key /\ keyAt > TxDelay /\ keyAt < now /\ (lastRetry # 0 => Age > KeyTime + 4)

\* A tool that only listens has set the rig's auto-info.
Listens ==
    opts.mode = "listen" =>
        /\ opts.ai > 0
        /\ pc = "aiSet" => IF cmds = <<>> THEN rig.ai = opts.ai ELSE EndsWith(cmds, SetAi(opts.ai))
        /\ pc \in {"aiCheck", "loop"} => rig.ai = opts.ai

\* While the rig transmits, or is about to: the time has not come; or an unkey is
\* behind the order to key; or that unkey was ignored, and the watchdog is about
\* to see it; or the watchdog's unkey is on its way.
TimeToCome == ~unkeySent /\ (Age = 1 \/ Age <= KeyTime)
Stopping   == unkeySent /\ Timely(cmds, overdue, "RX", Age, KeyTime + 2)
Ignored    == unkeySent /\ faults = MaxFaults /\ ~Holds(cmds, "TX") /\ WillSee /\ Age <= KeyTime + 4
Retried    == unkeySent /\ faults = MaxFaults /\ ~Holds(cmds, "TX") /\ Timely(cmds, overdue, "RX", Age, KeyTime + 5)

WhileKeyed ==
    pc = "loop" /\ keyAt # Never /\ (rig.tx \/ Holds(cmds, "TX")) =>
        /\ keyed < Age
        /\ faults = 0 => WillSee
        /\ TimeToCome \/ Stopping \/ Ignored \/ Retried

KeyInv == /\ TimeTypes /\ PollsEnd /\ OrdersInLoop /\ NotKeyedYet /\ OnceKeyed /\ Listens /\ WhileKeyed
          /\ keyed <= KeyTime + 5

\* A step of the rig that can tell the tool, or an unkey it ignores, leaves the
\* tool able to see that it transmits.
LEMMA RigIsSeen ==
    ASSUME WatchInv, KeyInv, NEW obeys \in BOOLEAN, NEW answers \in BOOLEAN, RigStep(obeys, answers),
           pc = "loop", keyAt # Never, WillSee, rig.tx' \/ Holds(cmds', "TX"),
           obeys => answers
    PROVE  WillSee'
<1> DEFINE c == Head(cmds)
<1>1. /\ rig \in RigType /\ cmds \in Seq(CmdType) /\ cmds # <<>> /\ line \in Seq(AnswerType)
      /\ c \in CmdType /\ overdue \in Nat /\ Age \in Int /\ 3 \in Int
  BY DEF WatchInv, WatchTypes, RigType, RigStep, KeyInv, TimeTypes, Age
<1>2. /\ cmds' = Tail(cmds) /\ overdue' = Less(overdue) /\ Age' = Age
      /\ rig' = IF obeys THEN After(rig, c) ELSE rig
      /\ line' = IF answers THEN line \o Reply(rig, c) ELSE line
      /\ ~obeys => c.op = "RX" /\ ~answers
      /\ UNCHANGED <<opts, sentAt, keyAt, lastFlag>>
  BY DEF RigStep, Age, loopVars
<1>3. /\ c.op = "TX" => /\ After(rig, c).tx
                        /\ rig.tx => Reply(rig, c) = <<>>
                        /\ ~rig.tx /\ rig.ai > 0 => Reply(rig, c) = <<Answer("IF", "1")>>
      /\ c.op = "RX" => ~After(rig, c).tx
      /\ c.op = "IF" => After(rig, c) = rig /\ Reply(rig, c) = <<Answer("IF", Flag(rig.tx))>>
  BY <1>1, TransmitterObeys
<1>4. /\ \A x : Holds(Tail(cmds), x) => Holds(cmds, x)
      /\ \A x : Holds(cmds, x) /\ c.op # x => Holds(Tail(cmds), x)
      /\ Timely(cmds, overdue, "IF", Age, 3) /\ (c.op # "IF" \/ Holds(Tail(cmds), "TX"))
            => Timely(Tail(cmds), Less(overdue), "IF", Age, 3)
      /\ c.op \in {"RX", "TX"} => ~Holds(Tail(cmds), "TX")
  <2>1. TxFirst(cmds)
    BY DEF KeyInv, OrdersInLoop
  <2> QED
    BY <1>1, <2>1, QueueTaken
<1>5. c.op \in {"TX", "RX", "IF"}
  <2>1. ~Holds(cmds, "AI") /\ ~Holds(cmds, "setAI")
    BY DEF KeyInv, OrdersInLoop
  <2>2. 1 \in DOMAIN cmds /\ cmds[1] = c
    BY <1>1, EmptySeq
  <2> QED
    BY <1>1, <2>1, <2>2 DEF Holds, CmdType
<1>6. line' = line \o <<Answer("IF", "1")>> => Seen' = "1"
  <2> SUFFICES ASSUME line' = line \o <<Answer("IF", "1")>> PROVE Seen' = "1"
    OBVIOUS
  <2>1. Answer("IF", "1") \in AnswerType
    BY DEF Answer, AnswerType
  <2>2. line' \in Seq(AnswerType) /\ EndsWith(line', Answer("IF", "1"))
    BY <1>1, <2>1 DEF EndsWith
  <2>3. FlagIn(line') = "1"
    BY <2>2, LastReportCounts
  <2> QED
    BY <2>3 DEF Seen
<1>7. line' = line => Seen' = Seen
  BY <1>2 DEF Seen
<1>8. CASE c.op = "IF"
  <2>1. obeys /\ answers /\ rig' = rig /\ line' = line \o <<Answer("IF", Flag(rig.tx))>>
    BY <1>2, <1>3, <1>8
  <2>2. CASE rig.tx
    <3>1. line' = line \o <<Answer("IF", "1")>>
      BY <2>1, <2>2 DEF Flag
    <3> QED
      BY <1>6, <2>1, <2>2, <3>1 DEF WillSee
  <2>3. CASE ~rig.tx
    <3>1. Holds(Tail(cmds), "TX")
      BY <1>2, <2>1, <2>3
    <3>2. CASE Timely(cmds, overdue, "IF", Age, 3)
      BY <1>2, <1>4, <3>1, <3>2 DEF WillSee
    <3>3. CASE sentAt < keyAt /\ Age <= 2 /\ opts.mode # "listen"
      BY <1>2, <3>3 DEF WillSee
    <3>4. CASE opts.mode = "listen" /\ Holds(cmds, "TX") /\ ~rig.tx
      BY <1>2, <2>1, <3>1, <3>4 DEF WillSee
    <3> QED
      BY <2>3, <3>2, <3>3, <3>4 DEF WillSee
  <2> QED
    BY <2>2, <2>3
<1>9. CASE c.op = "TX"
  <2>1. obeys /\ answers /\ rig'.tx /\ line' = line \o Reply(rig, c)
    BY <1>2, <1>3, <1>9
  <2>2. CASE rig.tx
    <3>1. line' = line
      BY <1>1, <1>3, <1>9, <2>1, <2>2
    <3>2. CASE Seen = "1"
      BY <1>7, <2>1, <3>1, <3>2 DEF WillSee
    <3>3. CASE Timely(cmds, overdue, "IF", Age, 3)
      BY <1>2, <1>4, <1>9, <3>3 DEF WillSee
    <3>4. CASE sentAt < keyAt /\ Age <= 2 /\ opts.mode # "listen"
      BY <1>2, <3>4 DEF WillSee
    <3> QED
      BY <2>2, <3>2, <3>3, <3>4 DEF WillSee
  <2>3. CASE ~rig.tx
    <3>1. CASE Timely(cmds, overdue, "IF", Age, 3)
      BY <1>2, <1>4, <1>9, <3>1 DEF WillSee
    <3>2. CASE sentAt < keyAt /\ Age <= 2 /\ opts.mode # "listen"
      BY <1>2, <3>2 DEF WillSee
    <3>3. CASE opts.mode = "listen"
      <4>1. rig.ai > 0
        BY <3>3 DEF KeyInv, Listens
      <4> QED
        BY <1>3, <1>6, <1>9, <2>1, <2>3, <4>1 DEF WillSee
    <3> QED
      BY <2>3, <3>1, <3>2, <3>3 DEF WillSee
  <2> QED
    BY <2>2, <2>3
<1>10. CASE c.op = "RX"
  <2>1. ~Holds(cmds', "TX") /\ ~Holds(cmds, "TX")
    BY <1>2, <1>4, <1>10
  <2>2. ~obeys /\ rig' = rig /\ line' = line
    BY <1>2, <1>3, <1>10, <2>1
  <2>3. CASE rig.tx /\ Seen = "1"
    BY <1>7, <2>2, <2>3 DEF WillSee
  <2>4. CASE Timely(cmds, overdue, "IF", Age, 3)
    BY <1>2, <1>4, <1>10, <2>4 DEF WillSee
  <2>5. CASE sentAt < keyAt /\ Age <= 2 /\ opts.mode # "listen"
    BY <1>2, <2>5 DEF WillSee
  <2> QED
    BY <2>1, <2>3, <2>4, <2>5 DEF WillSee
<1> QED
  BY <1>5, <1>8, <1>9, <1>10

\* The rig keeps the invariant of the key.
LEMMA RigKeepsKey ==
    ASSUME MaxFaults <= 1, WatchInv, KeyInv, Rig PROVE KeyInv'
<1> SUFFICES ASSUME NEW obeys \in BOOLEAN, NEW answers \in BOOLEAN, RigStep(obeys, answers)
             PROVE  KeyInv'
  BY RigSteps
<1> DEFINE c == Head(cmds)
<1>1. /\ rig \in RigType /\ cmds \in Seq(CmdType) /\ cmds # <<>> /\ line \in Seq(AnswerType)
      /\ c \in CmdType /\ overdue \in Nat /\ Age \in Int /\ faults \in Nat /\ MaxFaults \in Nat /\ KeyTime \in Nat
  BY WatchAssumption DEF WatchInv, WatchTypes, RigType, RigStep, KeyInv, TimeTypes, Age
<1>2. /\ cmds' = Tail(cmds) /\ overdue' = Less(overdue) /\ Age' = Age
      /\ rig' = IF obeys THEN After(rig, c) ELSE rig
      /\ ~obeys => c.op = "RX" /\ ~answers
      /\ faults' = IF answers THEN faults ELSE faults + 1
      /\ ~answers => faults < MaxFaults
      /\ UNCHANGED <<opts, pc, now, buf, pending, sentAt, keyAt, lastFlag, unkeySent, lastRetry, keyed>>
  BY DEF RigStep, Age, loopVars
<1>3. /\ c.op = "RX" => ~After(rig, c).tx
      /\ c.op \notin {"TX", "RX"} => (After(rig, c).tx <=> rig.tx)
  BY <1>1, TransmitterObeys
<1>4. /\ c.op # "setAI" => rig'.ai = rig.ai
      /\ \A l : c = SetAi(l) => rig'.ai = l
  <2>1. /\ c.op # "setAI" => After(rig, c).ai = rig.ai
        /\ \A l : c = SetAi(l) => After(rig, c).ai = l
    <3>1. rig \in RigType /\ c \in CmdType
      BY <1>1
    <3> HIDE DEF c
    <3> QED
      BY <3>1, OrderObeyed
  <2>2. \A l : c = SetAi(l) => obeys
    BY <1>2 DEF SetAi
  <2> QED
    BY <1>2, <2>1, <2>2
<1>5. /\ \A x : Holds(Tail(cmds), x) => Holds(cmds, x)
      /\ \A x : Holds(cmds, x) /\ c.op # x => Holds(Tail(cmds), x)
      /\ TxFirst(cmds) => TxFirst(Tail(cmds)) /\ (c.op \in {"RX", "TX"} => ~Holds(Tail(cmds), "TX"))
  BY <1>1, QueueTaken
<1>6. \A limit \in Int : Timely(cmds, overdue, "RX", Age, limit) /\ c.op # "RX"
                            => Timely(Tail(cmds), Less(overdue), "RX", Age, limit)
  BY <1>1, QueueTaken
<1>7. Holds(cmds, c.op)
  <2>1. 1 \in DOMAIN cmds /\ cmds[1] = c
    BY <1>1, EmptySeq
  <2> QED
    BY <2>1 DEF Holds
<1>8. TimeTypes'
  BY <1>1, <1>2 DEF KeyInv, TimeTypes, Less
<1>9. PollsEnd'
  BY <1>2 DEF KeyInv, PollsEnd
<1>10. OrdersInLoop'
  BY <1>2, <1>5 DEF KeyInv, OrdersInLoop
<1>11. NotKeyedYet'
  <2>1. /\ pc \in Early => keyAt = Never /\ now = 0 /\ buf = <<>> /\ ~Holds(cmds, "TX")
        /\ keyAt = Never => ~unkeySent /\ keyed = 0 /\ lastRetry = 0
        /\ pc = "drain" /\ rig.tx => Holds(cmds, "RX") \/ faults > 0
        /\ pc \in {"aiRead", "aiSet", "aiCheck"} => (faults = 0 => ~rig.tx)
        /\ pc = "loop" /\ keyAt = Never => ~Holds(cmds, "TX") /\ ~Holds(cmds, "RX") /\ (faults = 0 => ~rig.tx)
    BY DEF KeyInv, NotKeyedYet
  <2>2. faults' = 0 => faults = 0 /\ obeys
    BY <1>1, <1>2
  <2>3. rig'.tx /\ c.op # "TX" => rig.tx /\ (c.op = "RX" => ~obeys)
    BY <1>2, <1>3
  <2>4. pc = "drain" /\ rig'.tx => Holds(cmds', "RX") \/ faults' > 0
    <3> SUFFICES ASSUME pc = "drain", rig'.tx PROVE Holds(cmds', "RX") \/ faults' > 0
      OBVIOUS
    <3>1. c.op # "TX"
      BY <1>7, <2>1 DEF Early
    <3>2. CASE c.op = "RX"
      BY <1>1, <1>2, <2>3, <3>2
    <3>3. CASE c.op # "RX"
      BY <1>1, <1>2, <1>5, <2>1, <2>3, <3>1, <3>3
    <3> QED
      BY <3>2, <3>3
  <2>5. pc \in Early => ~Holds(cmds', "TX")
    BY <1>2, <1>5, <2>1
  <2>6. pc \in {"aiRead", "aiSet", "aiCheck"} => (faults' = 0 => ~rig'.tx)
    BY <1>7, <2>1, <2>2, <2>3 DEF Early
  <2>7. pc = "loop" /\ keyAt = Never => ~Holds(cmds', "TX") /\ ~Holds(cmds', "RX") /\ (faults' = 0 => ~rig'.tx)
    BY <1>2, <1>5, <1>7, <2>1, <2>2, <2>3
  <2> QED
    BY <1>2, <2>1, <2>4, <2>5, <2>6, <2>7 DEF NotKeyedYet
<1>12. OnceKeyed'
  BY <1>2 DEF KeyInv, OnceKeyed
<1>13. Listens'
  <2> SUFFICES ASSUME opts.mode = "listen"
               PROVE  /\ opts.ai > 0
                      /\ pc = "aiSet" => IF cmds' = <<>> THEN rig'.ai = opts.ai ELSE EndsWith(cmds', SetAi(opts.ai))
                      /\ pc \in {"aiCheck", "loop"} => rig'.ai = opts.ai
    BY <1>2 DEF Listens
  <2>1. /\ opts.ai > 0
        /\ pc = "aiSet" => IF cmds = <<>> THEN rig.ai = opts.ai ELSE EndsWith(cmds, SetAi(opts.ai))
        /\ pc \in {"aiCheck", "loop"} => rig.ai = opts.ai
    BY DEF KeyInv, Listens
  <2>2. pc = "aiSet" => IF cmds' = <<>> THEN rig'.ai = opts.ai ELSE EndsWith(cmds', SetAi(opts.ai))
    <3> SUFFICES ASSUME pc = "aiSet"
                 PROVE  IF cmds' = <<>> THEN rig'.ai = opts.ai ELSE EndsWith(cmds', SetAi(opts.ai))
      OBVIOUS
    <3>1. EndsWith(cmds, SetAi(opts.ai))
      BY <1>1, <2>1
    <3>2. IF Tail(cmds) = <<>> THEN c = SetAi(opts.ai) ELSE EndsWith(Tail(cmds), SetAi(opts.ai))
      BY <1>1, <3>1, TailEnds
    <3> QED
      BY <1>2, <1>4, <3>2
  <2>3. pc \in {"aiCheck", "loop"} => rig'.ai = opts.ai
    <3> SUFFICES ASSUME pc \in {"aiCheck", "loop"} PROVE rig'.ai = opts.ai
      OBVIOUS
    <3>1. c.op # "setAI"
      BY <1>7 DEF KeyInv, OrdersInLoop
    <3> QED
      BY <1>4, <2>1, <3>1
  <2> QED
    BY <2>1, <2>2, <2>3
<1>14. WhileKeyed'
  <2> SUFFICES ASSUME pc = "loop", keyAt # Never, rig'.tx \/ Holds(cmds', "TX")
               PROVE  /\ keyed < Age
                      /\ faults' = 0 => WillSee'
                      /\ TimeToCome' \/ Stopping' \/ Ignored' \/ Retried'
    BY <1>2 DEF WhileKeyed
  <2>1. rig.tx \/ Holds(cmds, "TX")
    BY <1>2, <1>3, <1>5, <1>7
  <2>2. keyed < Age /\ (faults = 0 => WillSee) /\ (TimeToCome \/ Stopping \/ Ignored \/ Retried)
    BY <2>1 DEF KeyInv, WhileKeyed
  <2>3. WillSee /\ (obeys => answers) => WillSee'
    BY <2>1, RigIsSeen
  <2>4. faults' = 0 => WillSee'
    BY <1>1, <1>2, <2>2, <2>3
  <2>5. TxFirst(cmds)
    BY DEF KeyInv, OrdersInLoop
  <2>6. c.op = "RX" => ~Holds(cmds', "TX") /\ ~obeys
    BY <1>2, <1>3, <1>5, <2>5
  <2>7. CASE TimeToCome
    BY <1>2, <2>2, <2>4, <2>7 DEF TimeToCome
  <2>8. CASE Stopping
    <3>1. CASE c.op # "RX"
      <4>1. Stopping'
        BY <1>1, <1>2, <1>6, <2>8, <3>1 DEF Stopping
      <4> QED
        BY <2>2, <2>4, <4>1
    <3>2. CASE c.op = "RX"
      <4>1. faults = 0 /\ faults' = MaxFaults
        BY <1>1, <1>2, <2>6, <3>2
      <4>2. WillSee'
        BY <2>2, <2>3, <2>6, <3>2, <4>1
      <4>3. Age <= KeyTime + 4
        <5>1. PICK j \in DOMAIN cmds : Age <= IF j <= overdue THEN KeyTime + 2 + 1 ELSE KeyTime + 2
          BY <2>8 DEF Stopping, Timely
        <5> QED
          BY <1>1, <5>1
      <4>4. Ignored'
        BY <1>2, <2>6, <2>8, <3>2, <4>1, <4>2, <4>3 DEF Ignored, Stopping
      <4> QED
        BY <2>2, <2>4, <4>4
    <3> QED
      BY <3>1, <3>2
  <2>9. CASE Ignored
    <3>1. answers /\ obeys
      BY <1>1, <1>2, <2>9 DEF Ignored
    <3>2. WillSee' /\ ~Holds(cmds', "TX") /\ faults' = MaxFaults
      BY <1>2, <1>5, <2>3, <2>9, <3>1 DEF Ignored
    <3>3. Ignored'
      BY <1>2, <2>9, <3>2 DEF Ignored
    <3> QED
      BY <2>2, <2>4, <3>3
  <2>10. CASE Retried
    <3>1. answers /\ obeys /\ c.op # "RX"
      BY <1>1, <1>2, <2>6, <2>10 DEF Retried
    <3>2. Timely(cmds', overdue', "RX", Age', KeyTime + 5)
      BY <1>1, <1>2, <1>6, <2>10, <3>1 DEF Retried
    <3>3. Retried'
      BY <1>2, <1>5, <2>10, <3>1, <3>2 DEF Retried
    <3> QED
      BY <2>2, <2>4, <3>3
  <2> QED
    BY <2>2, <2>7, <2>8, <2>9, <2>10
<1>15. keyed' <= KeyTime + 5
  BY <1>2 DEF KeyInv
<1> QED
  BY <1>8, <1>9, <1>10, <1>11, <1>12, <1>13, <1>14, <1>15 DEF KeyInv

\* What a turn of the loop does, with the orders it gives.
LEMMA TurnOfLoop ==
    ASSUME opts.prompt, WatchInv, KeyInv, Loop
    PROVE  \E fires \in BOOLEAN :
             /\ fires <=> WatchdogDue(lastFlag', keyAt', now)
             /\ cmds' \in Seq(CmdType) /\ TxFirst(cmds')
             /\ Holds(cmds', "TX") <=> Holds(cmds, "TX") \/ Keying
             /\ Holds(cmds', "RX") => Holds(cmds, "RX") \/ Unkeying \/ fires
             /\ ~Holds(cmds', "AI") /\ ~Holds(cmds', "setAI")
             /\ \A op : \A limit \in Int : Timely(cmds, overdue, op, Age, limit) /\ ~Keying
                             => Age <= limit /\ Timely(cmds', overdue', op, Age + 1, limit)
             /\ \A age, limit \in Int : age <= limit /\ (Unkeying \/ fires) => Timely(cmds', overdue', "RX", age, limit)
             /\ \A age, limit \in Int : age <= limit /\ Polling => Timely(cmds', overdue', "IF", age, limit)
<1>1. PICK k \in BOOLEAN : k <=> Keying
  BY Zenon
<1>2. PICK u \in BOOLEAN : u <=> Unkeying
  BY Zenon
<1>3. PICK p \in BOOLEAN : p <=> Polling
  BY Zenon
<1>4. PICK d \in BOOLEAN : d <=> WatchdogDue(lastFlag', keyAt', now)
  BY Zenon
<1>5. cmds \in Seq(CmdType) /\ Age \in Int
  BY DEF WatchInv, WatchTypes, KeyInv, TimeTypes, Age
<1>6. TxFirst(cmds) /\ ~Holds(cmds, "AI") /\ ~Holds(cmds, "setAI")
  BY DEF KeyInv, OrdersInLoop, Loop
<1>7. k => ~Holds(cmds, "TX") /\ ~Holds(cmds, "RX")
  BY <1>1 DEF KeyInv, NotKeyedYet, Loop, Keying
<1>8. cmds' = Given(cmds, k, u, p, d) /\ overdue = 0 /\ overdue' = Len(cmds)
  <2>1. /\ cmds' = cmds \o When(Keying, <<Cmd("TX")>>) \o When(Unkeying, <<Cmd("RX")>>)
                      \o When(Polling, <<Cmd("IF")>>) \o When(WatchdogDue(lastFlag', keyAt', now), <<Cmd("RX")>>)
        /\ overdue = 0 /\ overdue' = IF opts.prompt THEN Len(cmds) ELSE 0
    BY DEF Loop
  <2>2. /\ When(Keying, <<Cmd("TX")>>) = When(k, <<Cmd("TX")>>)
        /\ When(Unkeying, <<Cmd("RX")>>) = When(u, <<Cmd("RX")>>)
        /\ When(Polling, <<Cmd("IF")>>) = When(p, <<Cmd("IF")>>)
        /\ When(WatchdogDue(lastFlag', keyAt', now), <<Cmd("RX")>>) = When(d, <<Cmd("RX")>>)
    BY <1>1, <1>2, <1>3, <1>4 DEF When
  <2> QED
    BY <2>1, <2>2 DEF Given
<1> DEFINE r == Given(cmds, k, u, p, d)
<1>r. r = Given(cmds, k, u, p, d)
  OBVIOUS
<1>b. k \in BOOLEAN /\ u \in BOOLEAN /\ p \in BOOLEAN /\ d \in BOOLEAN
  BY <1>1, <1>2, <1>3, <1>4
<1> HIDE DEF r
<1>9. /\ r \in Seq(CmdType) /\ TxFirst(r)
      /\ Holds(r, "TX") <=> Holds(cmds, "TX") \/ k
      /\ Holds(r, "RX") => Holds(cmds, "RX") \/ u \/ d
      /\ Holds(r, "AI") => Holds(cmds, "AI")
      /\ Holds(r, "setAI") => Holds(cmds, "setAI")
      /\ \A op : \A age, limit \in Int : Timely(cmds, 0, op, age, limit) /\ ~k
                      => age <= limit /\ Timely(r, Len(cmds), op, age + 1, limit)
      /\ \A age, limit \in Int : age <= limit /\ (u \/ d) => Timely(r, Len(cmds), "RX", age, limit)
      /\ \A age, limit \in Int : age <= limit /\ p => Timely(r, Len(cmds), "IF", age, limit)
  <2>1. cmds \in Seq(CmdType) /\ TxFirst(cmds)
    BY <1>5, <1>6
  <2>2. r \in Seq(CmdType) /\ TxFirst(r)
    BY <1>b, <1>7, <1>r, <2>1, TurnOrders
  <2>3. Holds(r, "TX") <=> Holds(cmds, "TX") \/ k
    BY <1>b, <1>7, <1>r, <2>1, TurnOrders
  <2>7. Holds(r, "RX") => Holds(cmds, "RX") \/ u \/ d
    BY <1>b, <1>7, <1>r, <2>1, TurnOrders
  <2>4. Holds(r, "AI") => Holds(cmds, "AI")
    BY <1>b, <1>7, <1>r, <2>1, TurnOrders
  <2>8. Holds(r, "setAI") => Holds(cmds, "setAI")
    BY <1>b, <1>7, <1>r, <2>1, TurnOrders
  <2>5. \A op : \A age, limit \in Int : Timely(cmds, 0, op, age, limit) /\ ~k
                      => age <= limit /\ Timely(r, Len(cmds), op, age + 1, limit)
    BY <1>b, <1>7, <1>r, <2>1, TurnOrders
  <2>6. /\ \A age, limit \in Int : age <= limit /\ (u \/ d) => Timely(r, Len(cmds), "RX", age, limit)
        /\ \A age, limit \in Int : age <= limit /\ p => Timely(r, Len(cmds), "IF", age, limit)
    BY <1>b, <1>7, <1>r, <2>1, TurnOrders
  <2> QED
    BY <2>2, <2>3, <2>4, <2>5, <2>6, <2>7, <2>8
<1>10. cmds' = r /\ overdue = 0 /\ overdue' = Len(cmds)
  BY <1>8, <1>r
<1>11. ~Holds(cmds', "AI") /\ ~Holds(cmds', "setAI")
  BY <1>6, <1>9, <1>10
<1>12. \A op : \A limit \in Int : Timely(cmds, overdue, op, Age, limit) /\ ~Keying
             => Age <= limit /\ Timely(cmds', overdue', op, Age + 1, limit)
  BY <1>1, <1>5, <1>9, <1>10
<1>13. /\ \A age, limit \in Int : age <= limit /\ (Unkeying \/ d) => Timely(cmds', overdue', "RX", age, limit)
       /\ \A age, limit \in Int : age <= limit /\ Polling => Timely(cmds', overdue', "IF", age, limit)
  BY <1>2, <1>3, <1>9, <1>10
<1>14. /\ cmds' \in Seq(CmdType) /\ TxFirst(cmds')
       /\ Holds(cmds', "TX") <=> Holds(cmds, "TX") \/ Keying
       /\ Holds(cmds', "RX") => Holds(cmds, "RX") \/ Unkeying \/ d
  BY <1>1, <1>2, <1>9, <1>10
<1> QED
  BY <1>4, <1>11, <1>12, <1>13, <1>14

\* A turn of the loop takes note of the last report it finds.
LEMMA TurnLooks ==
    ASSUME WatchInv, KeyInv, Loop
    PROVE  /\ buf' \in Seq(AnswerType) /\ lastFlag' \in {"none", "0", "1"}
           /\ FlagIn(buf') \in {"none", lastFlag'}
           /\ Seen' = Seen /\ lastFlag' = Seen
<1> DEFINE text == buf \o line
<1> DEFINE flag == FlagIn(text)
<1>1. buf \in Seq(AnswerType) /\ line \in Seq(AnswerType) /\ text \in Seq(AnswerType)
  BY DEF WatchInv, WatchTypes, KeyInv, TimeTypes
<1>2. lastFlag \in {"none", "0", "1"} /\ FlagIn(buf) \in {"none", lastFlag}
  BY DEF KeyInv, TimeTypes, PollsEnd
<1>3. flag = IF FlagIn(line) = "none" THEN FlagIn(buf) ELSE FlagIn(line)
  BY <1>1, FlagJoined
<1>4. FlagIn(line) \in {"none", "0", "1"} /\ flag \in {"none", "0", "1"}
  <2>1. \A s \in Seq(AnswerType) : FlagIn(s) \in {"none", "0", "1"}
    BY FlagValue
  <2> QED
    BY <1>1, <2>1
<1>5. /\ lastFlag' = IF flag = "none" THEN lastFlag ELSE flag
      /\ buf' = IF flag \notin {"none", lastFlag} THEN AfterLastReport(text)
                ELSE IF flag = "none" THEN <<>> ELSE <<Answer("IF", flag)>>
      /\ line' = <<>>
  BY DEF Loop
<1> HIDE DEF flag, text
<1>6. lastFlag' = Seen
  BY <1>2, <1>3, <1>4, <1>5 DEF Seen
<1>7. Seen' = lastFlag'
  BY <1>5, FlagOfNothing DEF Seen
<1>8. CASE flag \notin {"none", lastFlag}
  <2>1. buf' \in Seq(AnswerType) /\ FlagIn(buf') = "none"
    BY <1>1, <1>5, <1>8, NothingBehind
  <2> QED
    BY <1>2, <1>4, <1>5, <1>6, <1>7, <2>1
<1>9. CASE flag = "none"
  <2>1. buf' = <<>>
    BY <1>5, <1>9
  <2>2. buf' \in Seq(AnswerType) /\ FlagIn(buf') = "none"
    BY <2>1, FlagOfNothing
  <2> QED
    BY <1>2, <1>4, <1>5, <1>6, <1>7, <2>2
<1>10. CASE flag = lastFlag /\ flag # "none"
  <2>1. buf' = <<Answer("IF", flag)>> /\ lastFlag' = flag
    BY <1>5, <1>10
  <2>2. Answer("IF", flag) \in AnswerType
    BY <1>4, <1>10 DEF Answer, AnswerType
  <2>3. buf' \in Seq(AnswerType) /\ EndsWith(buf', Answer("IF", flag))
    BY <2>1, <2>2 DEF EndsWith
  <2>4. FlagIn(buf') = flag
    BY <2>3, LastReportCounts
  <2> QED
    BY <1>2, <1>4, <1>6, <1>7, <2>1, <2>3, <2>4
<1> QED
  BY <1>8, <1>9, <1>10

\* A turn of the loop leaves the tool able to see that the rig transmits.
LEMMA TurnIsSeen ==
    ASSUME opts.prompt, WatchInv, KeyInv, Loop, keyAt # Never, WillSee
    PROVE  WillSee'
<1>1. PICK fires \in BOOLEAN :
             /\ Holds(cmds', "TX") <=> Holds(cmds, "TX") \/ Keying
             /\ \A op : \A limit \in Int : Timely(cmds, overdue, op, Age, limit) /\ ~Keying
                             => Age <= limit /\ Timely(cmds', overdue', op, Age + 1, limit)
             /\ \A age, limit \in Int : age <= limit /\ Polling => Timely(cmds', overdue', "IF", age, limit)
  BY TurnOfLoop
<1>2. ~Keying
  BY DEF Keying
<1>3. now \in Nat /\ keyAt \in Int /\ sentAt \in Nat /\ opts.mode \in PollModes /\ 3 \in Int
  BY DEF KeyInv, TimeTypes
<1>4. /\ now' = now + 1 /\ keyAt' = keyAt /\ sentAt' = IF Polling THEN now ELSE sentAt
      /\ UNCHANGED <<rig, opts>>
  BY <1>2 DEF Loop
<1>5. Age \in Int /\ Age > 0 /\ Age' = Age + 1
  BY <1>3, <1>4 DEF Age, KeyInv, OnceKeyed
<1>6. CASE rig.tx /\ Seen = "1"
  BY <1>4, <1>6, TurnLooks DEF WillSee
<1>7. CASE Timely(cmds, overdue, "IF", Age, 3)
  BY <1>1, <1>2, <1>3, <1>5, <1>7 DEF WillSee
<1>8. CASE sentAt < keyAt /\ Age <= 2 /\ opts.mode # "listen"
  <2>1. CASE Polling
    <3>1. Timely(cmds', overdue', "IF", Age', 3)
      BY <1>1, <1>3, <1>5, <1>8, <2>1
    <3> QED
      BY <3>1 DEF WillSee
  <2>2. CASE ~Polling
    <3>1. pending /\ sentAt' = sentAt
      BY <1>3, <1>4, <1>8, <2>2 DEF Polling, PollModes
    <3>2. now - sentAt <= 2
      BY <3>1 DEF KeyInv, PollsEnd
    <3>3. Age' <= 2
      BY <1>3, <1>5, <1>8, <3>2 DEF Age
    <3> QED
      BY <1>4, <1>8, <3>1, <3>3 DEF WillSee
  <2> QED
    BY <2>1, <2>2
<1>9. CASE opts.mode = "listen" /\ Holds(cmds, "TX") /\ ~rig.tx
  BY <1>1, <1>4, <1>9 DEF WillSee
<1> QED
  BY <1>6, <1>7, <1>8, <1>9 DEF WillSee

\* A turn of the loop keeps the invariant of the key.
LEMMA TurnKeepsKey ==
    ASSUME opts.prompt, WatchInv, KeyInv, Loop PROVE KeyInv'
<1>1. PICK fires \in BOOLEAN :
             /\ fires <=> WatchdogDue(lastFlag', keyAt', now)
             /\ cmds' \in Seq(CmdType) /\ TxFirst(cmds')
             /\ Holds(cmds', "TX") <=> Holds(cmds, "TX") \/ Keying
             /\ Holds(cmds', "RX") => Holds(cmds, "RX") \/ Unkeying \/ fires
             /\ ~Holds(cmds', "AI") /\ ~Holds(cmds', "setAI")
             /\ \A op : \A limit \in Int : Timely(cmds, overdue, op, Age, limit) /\ ~Keying
                             => Age <= limit /\ Timely(cmds', overdue', op, Age + 1, limit)
             /\ \A age, limit \in Int : age <= limit /\ (Unkeying \/ fires) => Timely(cmds', overdue', "RX", age, limit)
             /\ \A age, limit \in Int : age <= limit /\ Polling => Timely(cmds', overdue', "IF", age, limit)
  BY TurnOfLoop
<1>2. /\ buf' \in Seq(AnswerType) /\ lastFlag' \in {"none", "0", "1"}
      /\ FlagIn(buf') \in {"none", lastFlag'} /\ lastFlag' = Seen
  BY TurnLooks
<1>3. /\ opts.mode \in PollModes /\ now \in Nat /\ keyAt \in Int /\ sentAt \in Nat /\ lastRetry \in Nat
      /\ keyed \in Nat /\ Age \in Int /\ KeyTime \in Nat /\ MaxFaults \in Nat /\ faults \in Nat
      /\ cmds \in Seq(CmdType)
  BY WatchAssumption DEF KeyInv, TimeTypes, Age, WatchInv, WatchTypes
<1>4. /\ pc = "loop" /\ overdue = 0 /\ overdue' = Len(cmds) /\ now' = now + 1
      /\ keyAt' = IF Keying THEN now ELSE keyAt
      /\ sentAt' = IF Polling THEN now ELSE sentAt
      /\ keyed' = IF rig.tx /\ keyAt # Never THEN keyed + 1 ELSE keyed
      /\ UNCHANGED <<opts, rig, faults>>
  BY DEF Loop
<1>u. unkeySent' <=> unkeySent \/ Unkeying
  <2>1. unkeySent' = (unkeySent \/ Unkeying)
    BY DEF Loop
  <2> QED
    BY <2>1, Zenon
<1>5. lastRetry' = IF fires THEN now ELSE lastRetry
  BY <1>1 DEF Loop
<1>6. pending' => opts.mode # "timer" /\ (Polling \/ (pending /\ ~TimedOut))
  <2>1. pending' = /\ opts.mode # "timer"
                   /\ Polling \/ (pending /\ ~TimedOut)
                   /\ ~Satisfied(line, buf \o line, IF Polling THEN line ELSE pollBuf \o line)
    BY DEF Loop
  <2> QED
    BY <2>1, Zenon
<1>7. pc' \in {"loop", "aiBack", "ensure"}
  BY <1>4 DEF Loop, Finally
<1>8. TimeTypes'
  <2>1. Len(cmds) \in Nat
    BY <1>3
  <2> QED
    BY <1>2, <1>3, <1>4, <1>5, <2>1 DEF TimeTypes
<1>9. PollsEnd'
  <2>1. sentAt' <= now
    BY <1>3, <1>4 DEF KeyInv, PollsEnd
  <2>2. pending' => opts.mode \in {"paced", "waitall"} /\ now' - sentAt' <= 2
    <3> SUFFICES ASSUME pending' PROVE opts.mode \in {"paced", "waitall"} /\ now' - sentAt' <= 2
      OBVIOUS
    <3>1. CASE Polling
      <4>1. opts.mode \in {"paced", "waitall"}
        BY <1>3, <1>6, <3>1 DEF Polling, PollModes
      <4> QED
        BY <1>3, <1>4, <3>1, <4>1
    <3>2. CASE ~Polling
      <4>1. pending /\ ~TimedOut
        BY <1>6, <3>2
      <4>2. opts.mode \in {"paced", "waitall"}
        BY <4>1 DEF KeyInv, PollsEnd
      <4>3. now - sentAt <= 1
        BY <1>3, <4>1, <4>2 DEF TimedOut, ReplyTimeout
      <4> QED
        BY <1>3, <1>4, <3>2, <4>2, <4>3
    <3> QED
      BY <3>1, <3>2
  <2> QED
    BY <1>2, <1>3, <1>4, <2>1, <2>2 DEF PollsEnd
<1>10. OrdersInLoop'
  BY <1>1, <1>7 DEF OrdersInLoop
<1>11. /\ keyAt = Never => ~unkeySent /\ keyed = 0 /\ lastRetry = 0
                           /\ ~Holds(cmds, "TX") /\ ~Holds(cmds, "RX") /\ (faults = 0 => ~rig.tx)
       /\ keyAt # Never => opts.key /\ keyAt > TxDelay /\ keyAt < now /\ (lastRetry # 0 => Age > KeyTime + 4)
  BY <1>4 DEF KeyInv, NotKeyedYet, OnceKeyed
<1>12. fires => keyAt' # Never /\ lastFlag' = "1" /\ now - keyAt' > KeyTime + 3
  BY <1>1 DEF WatchdogDue, WatchSlack
<1>13. Keying => keyAt = Never /\ opts.key /\ now > TxDelay
  BY DEF Keying
<1>14. Unkeying => keyAt # Never
  BY DEF Unkeying
<1>15. Keying => ~fires
  BY <1>3, <1>4, <1>12
<1>16. keyAt' = Never => keyAt = Never /\ ~Keying /\ ~Unkeying /\ ~fires
  <2>1. Keying => keyAt' # Never
    BY <1>3, <1>4 DEF Never
  <2> QED
    BY <1>4, <1>12, <1>14, <2>1
<1>17. NotKeyedYet'
  <2>1. pc' \notin Early /\ pc' # "drain"
    BY <1>7 DEF Early
  <2>2. keyAt' = Never => ~unkeySent' /\ keyed' = 0 /\ lastRetry' = 0
    BY <1>u, <1>4, <1>5, <1>11, <1>16
  <2>3. keyAt' = Never => ~Holds(cmds', "TX") /\ ~Holds(cmds', "RX") /\ (faults' = 0 => ~rig'.tx)
    BY <1>1, <1>4, <1>11, <1>16
  <2> QED
    BY <2>1, <2>2, <2>3 DEF NotKeyedYet, Early
<1>18. OnceKeyed'
  <2>1. CASE Keying
    BY <1>3, <1>4, <1>5, <1>11, <1>13, <1>15, <2>1 DEF OnceKeyed
  <2>2. CASE ~Keying /\ keyAt # Never
    <3>1. keyAt' = keyAt /\ Age' = Age + 1
      BY <1>3, <1>4, <2>2 DEF Age
    <3>2. fires => Age' > KeyTime + 4
      BY <1>3, <1>12, <3>1 DEF Age
    <3> QED
      BY <1>3, <1>4, <1>5, <1>11, <2>2, <3>1, <3>2 DEF OnceKeyed
  <2>3. CASE ~Keying /\ keyAt = Never
    BY <1>4, <2>3 DEF OnceKeyed
  <2> QED
    BY <2>1, <2>2, <2>3
<1>19. Listens'
  BY <1>4, <1>7 DEF KeyInv, Listens
<1>20. ASSUME keyAt # Never, rig.tx \/ Holds(cmds, "TX")
       PROVE  /\ keyed < Age /\ (faults = 0 => WillSee) /\ (TimeToCome \/ Stopping \/ Ignored \/ Retried)
              /\ Age <= KeyTime + 5 /\ (Stopping => Age <= KeyTime + 2)
  <2>1. keyed < Age /\ (faults = 0 => WillSee) /\ (TimeToCome \/ Stopping \/ Ignored \/ Retried)
    BY <1>4, <1>20 DEF KeyInv, WhileKeyed
  <2>2. \A limit \in Int : Timely(cmds, overdue, "RX", Age, limit) => Age <= limit
    BY <1>1, <1>13, <1>20
  <2>3. TimeToCome => Age <= KeyTime + 5
    BY <1>3 DEF TimeToCome
  <2>4. Stopping => Age <= KeyTime + 2
    BY <1>3, <2>2 DEF Stopping
  <2>5. Retried => Age <= KeyTime + 5
    BY <1>3, <2>2 DEF Retried
  <2>6. Ignored => Age <= KeyTime + 5
    BY <1>3 DEF Ignored
  <2> QED
    BY <1>3, <2>1, <2>3, <2>4, <2>5, <2>6
<1>21. keyed' <= KeyTime + 5
  <2>1. CASE rig.tx /\ keyAt # Never
    BY <1>3, <1>4, <1>20, <2>1
  <2>2. CASE ~(rig.tx /\ keyAt # Never)
    <3>1. keyed' = keyed
      BY <1>4, <2>2
    <3> QED
      BY <3>1 DEF KeyInv
  <2> QED
    BY <2>1, <2>2
<1>22. WhileKeyed'
  <2> SUFFICES ASSUME keyAt' # Never, rig.tx \/ Holds(cmds', "TX")
               PROVE  /\ keyed' < Age'
                      /\ faults = 0 => WillSee'
                      /\ TimeToCome' \/ Stopping' \/ Ignored' \/ Retried'
    BY <1>4 DEF WhileKeyed
  <2>1. CASE Keying
    <3>1. keyAt = Never /\ keyAt' = now /\ Age' = 1 /\ ~unkeySent' /\ keyed' = 0 /\ now > 0
      BY <1>u, <1>3, <1>4, <1>11, <1>13, <1>14, <2>1 DEF Age, TxDelay
    <3>2. TimeToCome'
      BY <3>1 DEF TimeToCome
    <3>3. ASSUME faults = 0 PROVE WillSee'
      <4>1. ~rig'.tx /\ Holds(cmds', "TX")
        BY <1>1, <1>4, <1>11, <2>1, <3>1, <3>3
      <4>2. CASE Polling
        <5>1. Timely(cmds', overdue', "IF", Age', 3)
          BY <1>1, <3>1, <4>2
        <5> QED
          BY <5>1 DEF WillSee
      <4>3. CASE ~Polling /\ opts.mode = "listen"
        BY <1>4, <4>1, <4>3 DEF WillSee
      <4>4. CASE ~Polling /\ opts.mode # "listen"
        <5>1. sentAt' < keyAt'
          BY <1>4, <3>1, <4>4 DEF KeyInv, PollsEnd
        <5> QED
          BY <1>4, <3>1, <4>4, <5>1 DEF WillSee
      <4> QED
        BY <4>2, <4>3, <4>4
    <3> QED
      BY <3>1, <3>2, <3>3
  <2>2. CASE ~Keying
    <3>1. /\ keyAt # Never /\ Age' = Age + 1
          /\ Holds(cmds', "TX") <=> Holds(cmds, "TX")
          /\ rig.tx \/ Holds(cmds, "TX")
      BY <1>1, <1>3, <1>4, <2>2 DEF Age
    <3>2. keyed < Age /\ (faults = 0 => WillSee) /\ (TimeToCome \/ Stopping \/ Ignored \/ Retried)
      BY <1>20, <3>1
    <3>3. keyed' < Age'
      BY <1>3, <1>4, <3>1, <3>2
    <3>4. WillSee => WillSee'
      BY <3>1, TurnIsSeen
    <3>5. CASE TimeToCome
      <4>1. CASE Unkeying
        <5>1. Timely(cmds', overdue', "RX", Age', KeyTime + 2)
          <6>1. Age' <= KeyTime + 2 /\ Age' \in Int /\ KeyTime + 2 \in Int
            BY <1>3, <3>1, <3>5 DEF TimeToCome
          <6> QED
            BY <1>1, <4>1, <6>1
        <5>2. Stopping'
          BY <1>u, <1>4, <4>1, <5>1 DEF Stopping
        <5> QED
          BY <1>4, <3>2, <3>3, <3>4, <5>2
      <4>2. CASE ~Unkeying
        <5>1. ~(now - keyAt >= KeyTime) /\ ~unkeySent
          BY <1>11, <3>1, <3>5, <4>2 DEF Unkeying, TimeToCome
        <5>2. TimeToCome'
          BY <1>u, <1>3, <1>4, <3>1, <4>2, <5>1 DEF TimeToCome, Age
        <5> QED
          BY <3>2, <3>3, <3>4, <5>2
      <4> QED
        BY <4>1, <4>2
    <3>6. CASE Stopping
      <4>1. Timely(cmds', overdue', "RX", Age', KeyTime + 2)
        BY <1>1, <1>3, <2>2, <3>1, <3>6 DEF Stopping
      <4>2. Stopping'
        BY <1>u, <1>4, <3>6, <4>1 DEF Stopping
      <4> QED
        BY <3>2, <3>3, <3>4, <4>2
    <3>7. CASE Ignored
      <4>1. WillSee' /\ ~Holds(cmds', "TX") /\ unkeySent' /\ faults' = MaxFaults
        BY <1>u, <1>4, <3>1, <3>4, <3>7 DEF Ignored
      <4>2. CASE Age <= KeyTime + 3
        <5>1. Ignored'
          BY <1>3, <3>1, <4>1, <4>2 DEF Ignored
        <5> QED
          BY <3>3, <4>1, <5>1
      <4>3. CASE Age > KeyTime + 3
        <5>1. Age = KeyTime + 4
          BY <1>3, <3>7, <4>3 DEF Ignored
        <5>2. Seen = "1"
          <6>1. ~Timely(cmds, overdue, "IF", Age, 3)
            BY <1>1, <1>3, <2>2, <5>1
          <6> QED
            BY <1>3, <3>7, <5>1, <6>1 DEF Ignored, WillSee
        <5>3. fires
          <6>1. lastRetry = 0
            BY <1>3, <1>11, <3>1, <5>1
          <6>2. now - lastRetry > 2 /\ now - keyAt > KeyTime + 3
            BY <1>3, <1>11, <3>1, <5>1, <6>1 DEF Age, TxDelay
          <6>3. keyAt' = keyAt /\ lastFlag' = "1"
            BY <1>2, <1>4, <2>2, <5>2
          <6>4. WatchdogDue(lastFlag', keyAt', now)
            BY <3>1, <6>2, <6>3 DEF WatchdogDue, WatchSlack, RetryGap
          <6> QED
            BY <1>1, <6>4
        <5>4. Timely(cmds', overdue', "RX", Age', KeyTime + 5)
          <6>1. Age' <= KeyTime + 5 /\ Age' \in Int /\ KeyTime + 5 \in Int
            BY <1>3, <3>1, <5>1
          <6> QED
            BY <1>1, <5>3, <6>1
        <5>5. Retried'
          BY <4>1, <5>4 DEF Retried
        <5> QED
          BY <3>3, <4>1, <5>5
      <4> QED
        BY <1>3, <4>2, <4>3
    <3>8. CASE Retried
      <4>1. Timely(cmds', overdue', "RX", Age', KeyTime + 5)
        BY <1>1, <1>3, <2>2, <3>1, <3>8 DEF Retried
      <4>2. Retried'
        BY <1>u, <1>4, <3>1, <3>8, <4>1 DEF Retried
      <4> QED
        BY <3>2, <3>3, <3>4, <4>2
    <3> QED
      BY <3>2, <3>5, <3>6, <3>7, <3>8
  <2> QED
    BY <2>1, <2>2
<1> QED
  BY <1>8, <1>9, <1>10, <1>17, <1>18, <1>19, <1>21, <1>22 DEF KeyInv

\* What the tool does before and after the loop keeps the invariant of the key.
LEMMA AroundLoopKeepsKey ==
    ASSUME opts.prompt, WatchInv, KeyInv,
           \/ Open \/ Drain \/ AiRead \/ AiSet \/ AiCheck \/ Interrupt \/ Abort
           \/ AiBack \/ AiAsk \/ AiBelieve \/ Unkey \/ Ask \/ Look \/ Done \/ UNCHANGED vars
    PROVE  KeyInv'
<1>1. /\ cmds \in Seq(CmdType) /\ overdue \in Nat /\ opts.ai \in Int /\ faults \in Nat
      /\ rig \in RigType
  BY DEF WatchInv, WatchTypes, KeyInv, TimeTypes, RigType
<1>2. /\ UNCHANGED <<opts, rig, now, faults, overdue, keyed>>
      /\ UNCHANGED <<buf, pending, sentAt, lastFlag, keyAt, unkeySent, lastRetry>>
  BY DEF Open, Drain, AiRead, AiSet, AiCheck, Interrupt, Setup, AiBack, AiAsk, AiBelieve, Unkey, Ask, Look, Abort, Done,
         EndUnchanged, loopVars, vars
<1>3. TimeTypes' /\ PollsEnd' /\ OnceKeyed' /\ keyed' <= KeyTime + 5
  BY <1>2 DEF KeyInv, TimeTypes, PollsEnd, OnceKeyed, Age
<1>4. \A x : ~Holds(<<>>, x)
  BY DEF Holds
<1>5. TxFirst(<<>>)
  BY DEF TxFirst
<1>6. CASE UNCHANGED vars
  <2>1. UNCHANGED <<pc, cmds, line>>
    BY <1>6 DEF vars
  <2>2. WillSee' <=> WillSee
    BY <1>2, <2>1 DEF WillSee, Seen, Age
  <2>3. /\ TimeToCome' <=> TimeToCome
        /\ Stopping' <=> Stopping
        /\ Ignored' <=> Ignored
        /\ Retried' <=> Retried
    BY <1>2, <2>1, <2>2 DEF TimeToCome, Stopping, Ignored, Retried, Age
  <2>4. WhileKeyed'
    BY <1>2, <2>1, <2>2, <2>3 DEF KeyInv, WhileKeyed, Age
  <2>5. OrdersInLoop' /\ NotKeyedYet' /\ Listens'
    BY <1>2, <2>1 DEF KeyInv, OrdersInLoop, NotKeyedYet, Listens
  <2> QED
    BY <1>3, <2>4, <2>5 DEF KeyInv
<1>7. CASE Open
  <2>1. cmds' = Append(cmds, Cmd("RX")) /\ pc = "open" /\ pc' = "drain"
    BY <1>7 DEF Open, Go
  <2>2. Holds(cmds', "RX") /\ (~Holds(cmds, "TX") => ~Holds(cmds', "TX"))
    <3>1. Cmd("RX") \in CmdType
      BY OrdersTyped
    <3>2. /\ DOMAIN cmds' = 1 .. Len(cmds) + 1 /\ DOMAIN cmds = 1 .. Len(cmds) /\ Len(cmds) \in Nat
          /\ cmds'[Len(cmds) + 1] = Cmd("RX") /\ \A i \in DOMAIN cmds : cmds'[i] = cmds[i]
      BY <1>1, <2>1, <3>1
    <3>3. \A i \in DOMAIN cmds' : i \in DOMAIN cmds \/ i = Len(cmds) + 1
      BY <3>2
    <3> QED
      BY <3>2, <3>3 DEF Holds, Cmd
  <2>3. OrdersInLoop' /\ NotKeyedYet' /\ Listens' /\ WhileKeyed'
    BY <1>2, <2>1, <2>2 DEF KeyInv, OrdersInLoop, NotKeyedYet, Listens, WhileKeyed, Early
  <2> QED
    BY <1>3, <2>3 DEF KeyInv
<1>8. CASE Drain \/ AiRead \/ AiSet \/ AiCheck
  <2>1. cmds = <<>> /\ pc \in Early /\ pc # "open"
    BY <1>8 DEF Drain, AiRead, AiSet, AiCheck, Setup, Slept, Go, Early
  <2>w. \A w \in {<<>>, <<Cmd("AI")>>, <<SetAi(opts.ai)>>} : cmds \o w = w
    <3>1. Cmd("AI") \in CmdType /\ SetAi(opts.ai) \in CmdType
      BY <1>1, OrdersTyped
    <3> QED
      BY <2>1, <3>1
  <2>2. /\ pc = "drain" => /\ opts.ai = NotAsked => pc' = "loop" /\ cmds' = <<>>
                           /\ opts.ai # NotAsked => pc' = "aiRead" /\ cmds' = <<Cmd("AI")>>
        /\ pc = "aiRead" => pc' = "aiSet" /\ cmds' = <<SetAi(opts.ai)>>
        /\ pc = "aiSet" => pc' = "aiCheck" /\ cmds' = <<Cmd("AI")>>
        /\ pc = "aiCheck" => pc' = "loop" /\ cmds' = <<>>
    BY <1>8, <2>w DEF Drain, AiRead, AiSet, AiCheck, Setup, Go
  <2>3. pc' \in Early \ {"open", "drain"} \/ (pc' = "loop" /\ cmds' = <<>>)
    BY <2>1, <2>2 DEF Early
  <2>4. ~Holds(cmds', "TX") /\ (pc' \in {"aiCheck", "loop"} => ~Holds(cmds', "setAI"))
    <3>1. cmds' \in {<<>>, <<Cmd("AI")>>, <<SetAi(opts.ai)>>} /\ (cmds' = <<SetAi(opts.ai)>> => pc' = "aiSet")
      <4>1. <<SetAi(opts.ai)>> # <<>>
        OBVIOUS
      <4>2. <<SetAi(opts.ai)>> # <<Cmd("AI")>>
        <5>1. <<SetAi(opts.ai)>>[1].op # <<Cmd("AI")>>[1].op
          BY DEF SetAi, Cmd
        <5> QED
          BY <5>1
      <4> QED
        BY <2>1, <2>2, <4>1, <4>2 DEF Early
    <3>2. \A x : Holds(<<Cmd("AI")>>, x) => x = "AI"
      BY DEF Holds, Cmd
    <3>3. \A x : Holds(<<SetAi(opts.ai)>>, x) => x = "setAI"
      BY DEF Holds, SetAi
    <3>4. CASE cmds' = <<>>
      BY <1>4, <3>4
    <3>5. CASE cmds' = <<Cmd("AI")>>
      BY <3>2, <3>5
    <3>6. CASE cmds' = <<SetAi(opts.ai)>>
      BY <3>1, <3>3, <3>6
    <3> QED
      BY <3>1, <3>4, <3>5, <3>6
  <2>5. OrdersInLoop'
    BY <1>4, <1>5, <2>3, <2>4 DEF OrdersInLoop, Early
  <2>6. NotKeyedYet'
    <3>1. /\ keyAt = Never /\ now = 0 /\ buf = <<>> /\ (faults = 0 => ~rig.tx)
          /\ ~unkeySent /\ keyed = 0 /\ lastRetry = 0
      BY <1>1, <1>4, <2>1 DEF KeyInv, NotKeyedYet, Early
    <3>2. pc' # "drain" /\ (pc' = "loop" => ~Holds(cmds', "RX"))
      BY <1>4, <2>3 DEF Early
    <3> QED
      BY <1>2, <2>4, <3>1, <3>2 DEF NotKeyedYet
  <2>7. Listens'
    <3> SUFFICES ASSUME opts.mode = "listen"
                 PROVE  /\ opts.ai > 0
                        /\ pc' = "aiSet" => IF cmds' = <<>> THEN rig.ai = opts.ai
                                            ELSE EndsWith(cmds', SetAi(opts.ai))
                        /\ pc' \in {"aiCheck", "loop"} => rig.ai = opts.ai
      BY <1>2 DEF Listens
    <3>1. /\ opts.ai > 0 /\ (pc = "aiSet" => rig.ai = opts.ai)
          /\ pc \in {"aiCheck", "loop"} => rig.ai = opts.ai
      BY <2>1 DEF KeyInv, Listens
    <3>2. opts.ai # NotAsked
      BY <1>1, <3>1 DEF NotAsked
    <3>3. EndsWith(<<SetAi(opts.ai)>>, SetAi(opts.ai)) /\ <<SetAi(opts.ai)>> # <<>>
      BY DEF EndsWith
    <3> QED
      BY <2>1, <2>2, <3>1, <3>2, <3>3 DEF Early
  <2>8. WhileKeyed'
    <3>1. keyAt' = Never
      BY <1>2, <2>1 DEF KeyInv, NotKeyedYet
    <3> QED
      BY <3>1 DEF WhileKeyed
  <2> QED
    BY <1>3, <2>5, <2>6, <2>7, <2>8 DEF KeyInv
<1>9. CASE \/ Interrupt \/ Abort \/ AiBack \/ AiAsk \/ AiBelieve \/ Unkey \/ Ask \/ Look
  <2>1. pc' \notin Early /\ pc' # "loop"
    BY <1>9 DEF Interrupt, Abort, Finally, AiBack, AiAsk, AiBelieve, Unkey, Ask, Look, Go, Early
  <2>2. OrdersInLoop' /\ WhileKeyed' /\ Listens'
    BY <1>2, <2>1 DEF KeyInv, OrdersInLoop, WhileKeyed, Listens, Early
  <2>3. NotKeyedYet'
    BY <1>2, <2>1 DEF KeyInv, NotKeyedYet, Early
  <2> QED
    BY <1>3, <2>2, <2>3 DEF KeyInv
<1>10. CASE Done
  BY <1>6, <1>10 DEF Done
<1> QED
  BY <1>6, <1>7, <1>8, <1>9, <1>10

\* At the start the rig was not told anything.
LEMMA KeyStarts == Init => KeyInv
<1> SUFFICES ASSUME Init PROVE KeyInv
  OBVIOUS
<1>1. /\ opts.mode \in ModesTried /\ (opts.mode = "listen" => opts.ai > 0)
      /\ cmds = <<>> /\ buf = <<>> /\ pc = "open" /\ now = 0 /\ ~pending /\ sentAt = 0 /\ lastFlag = "none"
      /\ keyAt = Never /\ ~unkeySent /\ lastRetry = 0 /\ overdue = 0 /\ keyed = 0
  BY DEF Init
<1>2. opts.mode \in PollModes /\ KeyTime \in Nat
  BY <1>1, WatchAssumption
<1>3. buf \in Seq(AnswerType)
  BY <1>1
<1>4. FlagIn(buf) = "none"
  BY <1>1, FlagOfNothing
<1>5. \A x : ~Holds(cmds, x)
  BY <1>1 DEF Holds
<1>6. TimeTypes /\ keyed <= KeyTime + 5
  BY <1>1, <1>2, <1>3 DEF TimeTypes, Never
<1>7. PollsEnd /\ OrdersInLoop /\ NotKeyedYet /\ OnceKeyed /\ Listens /\ WhileKeyed
  BY <1>1, <1>4, <1>5 DEF PollsEnd, OrdersInLoop, NotKeyedYet, OnceKeyed, Listens, WhileKeyed, Early
<1> QED
  BY <1>6, <1>7 DEF KeyInv

\* The command line stays, and the rig stays as prompt as it is.
LEMMA OptionsStay == Next \/ UNCHANGED vars => opts' = opts
BY DEF Next, Rig, Handle, IgnoreUnkey, LoseAnswer, RigUnchanged, Tool, Open, Drain, AiRead, AiSet, AiCheck, Setup,
       Loop, Interrupt, AiBack, AiAsk, AiBelieve, Unkey, Ask, Look, EndUnchanged, Abort, Done, vars

\* Every step of the watcher keeps the invariant of the key of a prompt rig.
LEMMA WatchKeepsKey ==
    ASSUME MaxFaults <= 1, opts.prompt, WatchInv, KeyInv, Next \/ UNCHANGED vars PROVE KeyInv'
BY RigKeepsKey, TurnKeepsKey, AroundLoopKeepsKey DEF Next, Tool

------------------------------------------------------------------------------
\* The simulated radio: pushes

\* The fields a push of a head is decided by.
Deps(h) ==
    CASE h = "FA" -> {"a"} [] h = "FB" -> {"b"} [] h = "FR" -> {"rx"} [] h = "FT" -> {"tx"}
      [] h \in {"OM0", "OM1"} -> {"mode", "modeB", "rx"}
      [] h = "RT" -> {"rit"} [] h = "XT" -> {"xit"} [] h = "TX" -> {"ptt"} [] OTHER -> {"split"}

\* The last thing said of a head is so, or is about to be said again, or the
\* next push will find that it changed.
WillBeTold(h, r, last, soon) ==
    \/ heard[h] \in {<<>>, <<S!TS890Told(r, h)>>}
    \/ Contains(soon, h)
    \/ \E f \in Deps(h) : S!Snapshot(r)[f] # last[f]

HasAi(r)   == "ai" \in DOMAIN r /\ r.ai \in Int
SnapFields == {"a", "b", "rx", "tx", "mode", "modeB", "rit", "xit", "ptt", "split"}

\* A push begins with the first AI, and its heads are written before the reader
\* goes on.
PushInv ==
    /\ S!Is890(model) => HasAi(simRig)
    /\ pushed # S!Never => DOMAIN pushed = SnapFields
    /\ DOMAIN heard = S!Heads890
    /\ due \in Seq(S!Heads890) /\ (simAt # "push" => due = <<>>)
    /\ S!Is890(model) /\ simRig.ai > 0 =>
          /\ pushed # S!Never
          /\ ~undone => \A h \in S!Heads890 : WillBeTold(h, simRig, pushed, due)

\* What is said of a head is made of its fields.
LEMMA ToldOfDeps ==
    ASSUME NEW r, NEW n, NEW h \in S!Heads890, \A f \in Deps(h) : S!Snapshot(r)[f] = S!Snapshot(n)[f]
    PROVE  S!TS890Told(r, h) = S!TS890Told(n, h)
<1>1. CASE h \in {"FA", "FB", "FR", "FT"}
  BY <1>1 DEF Deps, S!Snapshot, S!TS890Told
<1>2. CASE h \in {"RT", "XT", "TX", "TB"}
  BY <1>2 DEF Deps, S!Snapshot, S!TS890Told
<1>3. CASE h \in {"OM0", "OM1"}
  <2>1. r.mode = n.mode /\ r.modeB = n.modeB /\ r.rx = n.rx
    BY <1>3 DEF Deps, S!Snapshot
  <2> QED
    BY <1>3, <2>1 DEF S!TS890Told, S!Om, S!ModeOf, S!Physical
<1> QED
  BY <1>1, <1>2, <1>3 DEF S!Heads890

\* A concatenation has what either part has.
LEMMA InConcat ==
    ASSUME NEW T, NEW s \in Seq(T), NEW t \in Seq(T)
    PROVE  s \o t \in Seq(T) /\ \A x : Contains(s, x) \/ Contains(t, x) => Contains(s \o t, x)
<1> SUFFICES ASSUME NEW x, Contains(s, x) \/ Contains(t, x) PROVE Contains(s \o t, x)
  OBVIOUS
<1>1. CASE Contains(s, x)
  <2>1. PICK i \in 1 .. Len(s) : s[i] = x
    BY <1>1 DEF Contains
  <2>2. i \in 1 .. Len(s \o t) /\ (s \o t)[i] = x
    BY <2>1
  <2> QED
    BY <2>2 DEF Contains
<1>2. CASE Contains(t, x)
  <2>1. PICK i \in 1 .. Len(t) : t[i] = x
    BY <1>2 DEF Contains
  <2>2. i + Len(s) \in 1 .. Len(s \o t) /\ (s \o t)[i + Len(s)] = x
    BY <2>1
  <2> QED
    BY <2>2 DEF Contains
<1> QED
  BY <1>1, <1>2

\* What is reported.
LEMMA InReports ==
    ASSUME NEW T, NEW c, NEW x \in T, NEW y \in T
    PROVE  /\ S!Reports(c, <<x>>) \in Seq(T) /\ (c => Contains(S!Reports(c, <<x>>), x))
           /\ S!Reports(c, <<x, y>>) \in Seq(T)
           /\ c => Contains(S!Reports(c, <<x, y>>), x) /\ Contains(S!Reports(c, <<x, y>>), y)
<1>1. <<x>> \in Seq(T) /\ <<x, y>> \in Seq(T) /\ <<>> \in Seq(T)
  OBVIOUS
<1>2. Contains(<<x>>, x) /\ Contains(<<x, y>>, x) /\ Contains(<<x, y>>, y)
  BY DEF Contains
<1> QED
  BY <1>1, <1>2 DEF S!Reports

\* pending() finds every head with a field that is not as it was at the last push.
LEMMA ChangedFinds ==
    ASSUME NEW was, NEW r
    PROVE  /\ S!Changed(was, S!Snapshot(r)) \in Seq(S!Heads890)
           /\ \A h \in S!Heads890 :
                 (\E f \in Deps(h) : S!Snapshot(r)[f] # was[f]) => Contains(S!Changed(was, S!Snapshot(r)), h)
<1> DEFINE nu == S!Snapshot(r)
           H == S!Heads890
           p1 == S!Reports(nu.a # was.a, <<"FA">>)
           p2 == S!Reports(nu.b # was.b, <<"FB">>)
           p3 == S!Reports(nu.rx # was.rx, <<"FR">>)
           p4 == S!Reports(nu.tx # was.tx, <<"FT">>)
           p5 == S!Reports(S!Modes890(nu) # S!Modes890(was) \/ nu.rx # was.rx, <<"OM0", "OM1">>)
           p6 == S!Reports(nu.rit # was.rit, <<"RT">>)
           p7 == S!Reports(nu.xit # was.xit, <<"XT">>)
           p8 == S!Reports(nu.ptt # was.ptt, <<"TX">>)
           p9 == S!Reports(nu.split # was.split, <<"TB">>)
           q2 == p1 \o p2
           q3 == q2 \o p3
           q4 == q3 \o p4
           q5 == q4 \o p5
           q6 == q5 \o p6
           q7 == q6 \o p7
           q8 == q7 \o p8
           q9 == q8 \o p9
<1>1. S!Changed(was, nu) = q9
  BY DEF S!Changed
<1>2. /\ "FA" \in H /\ "FB" \in H /\ "FR" \in H /\ "FT" \in H /\ "OM0" \in H /\ "OM1" \in H
      /\ "RT" \in H /\ "XT" \in H /\ "TX" \in H /\ "TB" \in H
  BY DEF S!Heads890
<1>3. /\ p1 \in Seq(H) /\ p2 \in Seq(H) /\ p3 \in Seq(H) /\ p4 \in Seq(H) /\ p5 \in Seq(H)
      /\ p6 \in Seq(H) /\ p7 \in Seq(H) /\ p8 \in Seq(H) /\ p9 \in Seq(H)
  BY <1>2, InReports
<1>4. /\ nu.a # was.a => Contains(p1, "FA")
      /\ nu.b # was.b => Contains(p2, "FB")
      /\ nu.rx # was.rx => Contains(p3, "FR")
      /\ nu.tx # was.tx => Contains(p4, "FT")
      /\ S!Modes890(nu) # S!Modes890(was) \/ nu.rx # was.rx => Contains(p5, "OM0") /\ Contains(p5, "OM1")
      /\ nu.rit # was.rit => Contains(p6, "RT")
      /\ nu.xit # was.xit => Contains(p7, "XT")
      /\ nu.ptt # was.ptt => Contains(p8, "TX")
      /\ nu.split # was.split => Contains(p9, "TB")
  BY <1>2, InReports
<1>5. nu.mode # was.mode \/ nu.modeB # was.modeB => S!Modes890(nu) # S!Modes890(was)
  BY DEF S!Modes890
<1> HIDE DEF nu, H, p1, p2, p3, p4, p5, p6, p7, p8, p9
<1>6. q2 \in Seq(H) /\ \A x : Contains(p1, x) \/ Contains(p2, x) => Contains(q2, x)
  BY <1>3, InConcat
<1> HIDE DEF q2
<1>7. q3 \in Seq(H) /\ \A x : Contains(q2, x) \/ Contains(p3, x) => Contains(q3, x)
  BY <1>3, <1>6, InConcat
<1> HIDE DEF q3
<1>8. q4 \in Seq(H) /\ \A x : Contains(q3, x) \/ Contains(p4, x) => Contains(q4, x)
  BY <1>3, <1>7, InConcat
<1> HIDE DEF q4
<1>9. q5 \in Seq(H) /\ \A x : Contains(q4, x) \/ Contains(p5, x) => Contains(q5, x)
  BY <1>3, <1>8, InConcat
<1> HIDE DEF q5
<1>10. q6 \in Seq(H) /\ \A x : Contains(q5, x) \/ Contains(p6, x) => Contains(q6, x)
  BY <1>3, <1>9, InConcat
<1> HIDE DEF q6
<1>11. q7 \in Seq(H) /\ \A x : Contains(q6, x) \/ Contains(p7, x) => Contains(q7, x)
  BY <1>3, <1>10, InConcat
<1> HIDE DEF q7
<1>12. q8 \in Seq(H) /\ \A x : Contains(q7, x) \/ Contains(p8, x) => Contains(q8, x)
  BY <1>3, <1>11, InConcat
<1> HIDE DEF q8
<1>13. q9 \in Seq(H) /\ \A x : Contains(q8, x) \/ Contains(p9, x) => Contains(q9, x)
  BY <1>3, <1>12, InConcat
<1> HIDE DEF q9
<1>14. /\ nu.a # was.a => Contains(q9, "FA")
       /\ nu.b # was.b => Contains(q9, "FB")
       /\ nu.rx # was.rx => Contains(q9, "FR")
       /\ nu.tx # was.tx => Contains(q9, "FT")
       /\ nu.mode # was.mode \/ nu.modeB # was.modeB \/ nu.rx # was.rx
              => Contains(q9, "OM0") /\ Contains(q9, "OM1")
       /\ nu.rit # was.rit => Contains(q9, "RT")
       /\ nu.xit # was.xit => Contains(q9, "XT")
       /\ nu.ptt # was.ptt => Contains(q9, "TX")
       /\ nu.split # was.split => Contains(q9, "TB")
  BY <1>4, <1>5, <1>6, <1>7, <1>8, <1>9, <1>10, <1>11, <1>12, <1>13
<1>15. \A h \in S!Heads890 : (\E f \in Deps(h) : nu[f] # was[f]) => Contains(q9, h)
  <2> SUFFICES ASSUME NEW h \in S!Heads890, NEW f \in Deps(h), nu[f] # was[f] PROVE Contains(q9, h)
    OBVIOUS
  <2>1. \/ h = "FA" /\ f = "a"
        \/ h = "FB" /\ f = "b"
        \/ h = "FR" /\ f = "rx"
        \/ h = "FT" /\ f = "tx"
        \/ h \in {"OM0", "OM1"} /\ f \in {"mode", "modeB", "rx"}
        \/ h = "RT" /\ f = "rit"
        \/ h = "XT" /\ f = "xit"
        \/ h = "TX" /\ f = "ptt"
        \/ h = "TB" /\ f = "split"
    BY DEF S!Heads890, Deps
  <2> QED
    BY <1>14, <2>1
<1> QED
  BY <1>1, <1>13, <1>15 DEF H, nu

\* A change that takes nothing back leaves every head to be told.
LEMMA ChangeIsTold ==
    ASSUME NEW next, NEW h \in S!Heads890, S!Is890(model), pushed # S!Never, ~S!TakenBack(simRig, next),
           NEW soon, WillBeTold(h, simRig, pushed, soon), DOMAIN pushed = SnapFields
    PROVE  WillBeTold(h, next, pushed, soon)
<1>1. Deps(h) \subseteq DOMAIN pushed
  BY DEF Deps, SnapFields, S!Heads890
<1>2. \A f \in Deps(h) : S!Snapshot(simRig)[f] # pushed[f] => S!Snapshot(next)[f] # pushed[f]
  BY <1>1 DEF S!TakenBack
<1>3. CASE \A f \in Deps(h) : S!Snapshot(simRig)[f] = S!Snapshot(next)[f]
  BY <1>2, <1>3, ToldOfDeps DEF WillBeTold
<1>4. CASE \E f \in Deps(h) : S!Snapshot(simRig)[f] # S!Snapshot(next)[f]
  BY <1>2, <1>4 DEF WillBeTold
<1> QED
  BY <1>3, <1>4

\* A radio starts with nothing told.
LEMMA PushStarts == S!Init => PushInv
<1> SUFFICES ASSUME S!Init PROVE PushInv
  OBVIOUS
<1>1. simRig.ai = 0 /\ HasAi(simRig)
  BY DEF S!Init, S!NewRig, HasAi
<1>2. due = <<>> /\ heard = S!Untold /\ pushed = S!Never
  BY DEF S!Init
<1> QED
  BY <1>1, <1>2 DEF PushInv, S!Untold

\* A push is not no push.
LEMMA SnapshotPushed == ASSUME NEW r PROVE DOMAIN S!Snapshot(r) = SnapFields /\ S!Snapshot(r) # S!Never
<1>1. DOMAIN S!Snapshot(r) = SnapFields
  BY DEF S!Snapshot, SnapFields
<1>2. "a" \in SnapFields /\ DOMAIN S!Never = {}
  BY DEF SnapFields, S!Never
<1> QED
  BY <1>1, <1>2

\* What the reader thread does with no command.
LEMMA ReaderKeepsPush == PushInv /\ (S!Read \/ S!Push \/ S!Format \/ S!NextRead) => PushInv'
<1> SUFFICES ASSUME PushInv, S!Read \/ S!Push \/ S!Format \/ S!NextRead PROVE PushInv'
  OBVIOUS
<1>1. CASE S!Read \/ S!NextRead
  BY <1>1 DEF S!Read, S!NextRead, PushInv, WillBeTold
<1>2. CASE S!Push
  <2>1. due = <<>> /\ UNCHANGED <<model, simRig, heard, undone>> /\ (due' # <<>> => simAt' = "push")
    BY <1>2 DEF S!Push
  <2>2. CASE ~(S!Is890(model) /\ answering)
    <3>1. due' = <<>> /\ pushed' = pushed
      BY <1>2, <2>2 DEF S!Push
    <3> QED
      BY <2>1, <3>1 DEF PushInv, WillBeTold
  <2>3. CASE S!Is890(model) /\ answering
    <3>1. /\ due' = S!PendingHeads(simRig, pushed)
          /\ pushed' = IF simRig.ai > 0 THEN S!Snapshot(simRig) ELSE pushed
      BY <1>2, <2>3 DEF S!Push
    <3>2. due' \in Seq(S!Heads890)
      BY <3>1, ChangedFinds DEF S!PendingHeads
    <3>3. (simRig.ai > 0 => pushed' # S!Never) /\ (pushed' # S!Never => DOMAIN pushed' = SnapFields)
      BY <3>1, SnapshotPushed DEF PushInv
    <3>4. ASSUME simRig.ai > 0, ~undone, NEW h \in S!Heads890 PROVE WillBeTold(h, simRig, pushed', due')
      <4>1. pushed # S!Never /\ WillBeTold(h, simRig, pushed, due)
        BY <2>3, <3>4 DEF PushInv
      <4>0. ~(simRig.ai < 1)
        BY <2>3, <3>4 DEF PushInv, HasAi
      <4>2. due' = IF S!Snapshot(simRig) = pushed THEN <<>> ELSE S!Changed(pushed, S!Snapshot(simRig))
        BY <3>1, <4>0, <4>1 DEF S!PendingHeads
      <4>3. ~Contains(due, h)
        BY <2>1 DEF Contains
      <4>4. (\E f \in Deps(h) : S!Snapshot(simRig)[f] # pushed[f]) => Contains(due', h)
        BY <4>2, ChangedFinds
      <4> QED
        BY <4>1, <4>3, <4>4 DEF WillBeTold
    <3> QED
      BY <2>1, <3>2, <3>3, <3>4 DEF PushInv, WillBeTold
  <2> QED
    BY <2>2, <2>3
<1>3. CASE S!Format
  <2>1. /\ due # <<>> /\ due \in Seq(S!Heads890) /\ due' = Tail(due)
        /\ heard' = [heard EXCEPT ![Head(due)] = <<S!TS890Told(simRig, Head(due))>>]
        /\ simAt' = IF due' = <<>> THEN "frames" ELSE "push"
        /\ UNCHANGED <<model, simRig, pushed, undone>>
    BY <1>3 DEF S!Format, PushInv
  <2>2. due' \in Seq(S!Heads890) /\ Head(due) \in S!Heads890 /\ DOMAIN heard' = S!Heads890
    BY <2>1 DEF PushInv
  <2>3. ASSUME NEW h \in S!Heads890, WillBeTold(h, simRig, pushed, due) PROVE WillBeTold(h, simRig, pushed, due)'
    <3>1. CASE h = Head(due)
      BY <2>1, <2>2, <3>1 DEF WillBeTold, PushInv
    <3>2. CASE h # Head(due)
      <4>1. heard'[h] = heard[h]
        BY <2>1, <2>2, <3>2 DEF PushInv
      <4>2. Contains(due, h) => Contains(due', h)
        <5> SUFFICES ASSUME NEW i \in 1 .. Len(due), due[i] = h PROVE Contains(due', h)
          BY DEF Contains
        <5>1. i # 1
          BY <2>1, <3>2
        <5>2. i - 1 \in 1 .. Len(Tail(due)) /\ Tail(due)[i - 1] = h
          BY <2>1, <5>1
        <5> QED
          BY <2>1, <5>2 DEF Contains
      <4> QED
        BY <2>1, <2>3, <4>1, <4>2 DEF WillBeTold
    <3> QED
      BY <3>1, <3>2
  <2> QED
    BY <2>1, <2>2, <2>3 DEF PushInv
<1> QED
  BY <1>1, <1>2, <1>3

\* A command that sets anything else leaves the level as it is.
LEMMA SetKeepsAi ==
    ASSUME NEW r, HasAi(r), NEW c, c[1] \in S!Heads890
    PROVE  HasAi(S!TS890Set(r, c)) /\ S!TS890Set(r, c).ai = r.ai
<1> DEFINE n == S!TS890Set(r, c)
<1>0. ASSUME NEW f \in {"a", "b", "rx", "tx", "mode", "modeB", "rit", "xit"}, NEW v, n = [r EXCEPT ![f] = v]
      PROVE  HasAi(n) /\ n.ai = r.ai
  BY <1>0 DEF HasAi
<1>1. CASE c[1] = "FA"
  <2>1. n = [r EXCEPT !["a"] = c[2]]
    BY <1>1 DEF S!TS890Set
  <2> QED
    BY <1>0, <2>1
<1>2. CASE c[1] = "FB"
  <2>1. n = [r EXCEPT !["b"] = c[2]]
    BY <1>2 DEF S!TS890Set
  <2> QED
    BY <1>0, <2>1
<1>3. CASE c[1] = "FR"
  <2>1. n = [r EXCEPT !["rx"] = c[2]]
    BY <1>3 DEF S!TS890Set
  <2> QED
    BY <1>0, <2>1
<1>4. CASE c[1] = "FT"
  <2>1. n = [r EXCEPT !["tx"] = c[2]]
    BY <1>4 DEF S!TS890Set
  <2> QED
    BY <1>0, <2>1
<1>5. CASE c[1] \in {"OM0", "OM1"}
  <2> DEFINE m == S!Coded(S!KenwoodModes, c[2])
  <2>1. n = [r EXCEPT !["mode"] = m] \/ n = [r EXCEPT !["modeB"] = m]
    BY <1>5 DEF S!TS890Set, S!SetModeOf
  <2> QED
    BY <1>0, <2>1
<1>6. CASE c[1] = "RT"
  <2>1. n = [r EXCEPT !["rit"] = c[2] = 1]
    BY <1>6 DEF S!TS890Set
  <2> QED
    BY <1>0, <2>1
<1>7. CASE c[1] = "XT"
  <2>1. n = [r EXCEPT !["xit"] = c[2] = 1]
    BY <1>7 DEF S!TS890Set
  <2> QED
    BY <1>0, <2>1
<1>8. CASE c[1] = "TB"
  <2>1. n = r \/ n = [r EXCEPT !["tx"] = IF S!Split(r) THEN r.rx ELSE 1 - r.rx]
    BY <1>8 DEF S!TS890Set, S!ToggleSplit
  <2> QED
    BY <1>0, <2>1
<1>9. CASE c[1] = "TX"
  BY <1>9 DEF S!TS890Set
<1> QED
  BY <1>1, <1>2, <1>3, <1>4, <1>5, <1>6, <1>7, <1>8, <1>9 DEF S!Heads890

\* Only AI changes the level, and what a query says is so when it is said.
LEMMA TS890Answers ==
    ASSUME NEW legacyIf \in BOOLEAN, NEW r, HasAi(r), NEW c, c[1] = "AI" /\ Len(c) > 1 => c[2] \in Int
    PROVE  LET d == S!TS890(legacyIf, r, c)
           IN  /\ HasAi(d.rig)
               /\ c[1] # "AI" => d.rig.ai = r.ai
               /\ d.reply # <<>> /\ d.reply[1] \in S!Heads890 => d.reply[2] = S!TS890Told(d.rig, d.reply[1])
<1> DEFINE h == c[1]
           d == S!TS890(legacyIf, r, c)
           Fine(n, reply) == /\ HasAi(n) /\ (h # "AI" => n.ai = r.ai)
                             /\ reply # <<>> /\ reply[1] \in S!Heads890 => reply[2] = S!TS890Told(n, reply[1])
<1>0. ASSUME NEW n, NEW reply, d = [rig |-> n, reply |-> reply], Fine(n, reply) PROVE Fine(d.rig, d.reply)
  BY <1>0
<1>1. CASE h \in {"PS", "ID", "KS"}
  <2>1. d.rig = r /\ (d.reply = <<>> \/ d.reply[1] = h)
    BY <1>1 DEF S!TS890, S!Says, S!Heads890, S!Clarifier
  <2> QED
    BY <1>1, <2>1 DEF S!Heads890
<1>2. CASE h = "IF"
  <2> DEFINE told == IF legacyIf THEN S!BuildKenwoodIf(r) ELSE <<"?">>
  <2>1. d = [rig |-> r, reply |-> told]
    BY <1>2 DEF S!TS890, S!Says, S!Heads890, S!Clarifier
  <2>2. told[1] = "IF" \/ told[1] = "?"
    BY DEF S!BuildKenwoodIf
  <2> HIDE DEF told
  <2>3. d.rig = r /\ d.reply = told
    BY <2>1
  <2> QED
    BY <2>2, <2>3 DEF S!Heads890
<1>3. CASE h \in {"TX", "RX"}
  <2> DEFINE n == [r EXCEPT !.ptt = h = "TX"]
  <2>1. d = S!Says(n, <<"TX", n.ptt>>)
    BY <1>3 DEF S!TS890, S!Heads890, S!Clarifier
  <2>2. HasAi(n) /\ n.ai = r.ai
    BY DEF HasAi
  <2>3. S!TS890Told(n, "TX") = n.ptt
    BY DEF S!TS890Told
  <2> HIDE DEF n
  <2>4. d.rig = n /\ d.reply = <<"TX", n.ptt>>
    BY <2>1 DEF S!Says
  <2> QED
    BY <2>2, <2>3, <2>4
<1>4. CASE h \in S!Heads890 /\ h # "TX" /\ Len(c) > 1
  <2>1. d = [rig |-> S!TS890Set(r, c), reply |-> <<>>]
    BY <1>4 DEF S!TS890, S!Quiet, S!Heads890, S!Clarifier
  <2>2. HasAi(S!TS890Set(r, c)) /\ S!TS890Set(r, c).ai = r.ai
    BY <1>4, SetKeepsAi
  <2> QED
    BY <2>1, <2>2
<1>5. CASE h \in S!Heads890 /\ h # "TX" /\ ~(Len(c) > 1)
  <2>1. d = [rig |-> r, reply |-> <<h, S!TS890Told(r, h)>>]
    BY <1>5 DEF S!TS890, S!Says, S!Heads890, S!Clarifier
  <2> QED
    BY <2>1
<1>6. CASE h \in S!Clarifier
  <2>1. d = [rig |-> S!Clarified(r, h), reply |-> <<>>]
    BY <1>6 DEF S!TS890, S!Quiet, S!Heads890, S!Clarifier
  <2>2. HasAi(S!Clarified(r, h)) /\ S!Clarified(r, h).ai = r.ai
    BY DEF S!Clarified, HasAi
  <2> QED
    BY <2>1, <2>2
<1>7. CASE h \in {"UP", "DN"}
  <2>1. d = [rig |-> S!Stepped(r, h), reply |-> <<>>]
    BY <1>7 DEF S!TS890, S!Quiet, S!Heads890, S!Clarifier
  <2>2. HasAi(S!Stepped(r, h)) /\ S!Stepped(r, h).ai = r.ai
    BY DEF S!Stepped, HasAi
  <2> QED
    BY <2>1, <2>2
<1>8. CASE h = "AI"
  <2> DEFINE v == IF Len(c) > 1 THEN c[2] ELSE 0
  <2>1. d = [rig |-> [r EXCEPT !.ai = v], reply |-> <<>>]
    BY <1>8 DEF S!TS890, S!Quiet, S!Heads890, S!Clarifier, S!TS890Set
  <2>2. HasAi([r EXCEPT !.ai = v])
    BY <1>8 DEF HasAi
  <2> QED
    BY <1>8, <2>1, <2>2
<1>9. CASE h \notin {"PS", "ID", "KS", "IF", "TX", "RX", "UP", "DN", "AI"} \cup S!Heads890 \cup S!Clarifier
  <2>1. d.rig = r /\ (d.reply = <<>> \/ d.reply = S!Unknown)
    BY <1>9 DEF S!TS890, S!Quiet, S!Rejects
  <2>2. S!Unknown[1] = "unhandled"
    BY DEF S!Unknown
  <2> QED
    BY <2>1, <2>2 DEF S!Heads890
<1> QED
  BY <1>1, <1>2, <1>3, <1>4, <1>5, <1>6, <1>7, <1>8, <1>9

\* The level a driver asks of a TS-890 is a number.
LEMMA LevelAsked ==
    ASSUME S!Is890(model), NEW c \in S!Commands, c[1] = "AI"
    PROVE  c[2] \in Int
<1>1. model \in {"TS890", "TS990"}
  BY DEF S!Is890
<1>2. S!Others = {<<"AI", 2>>, <<"PS">>, <<"TX">>, <<"RX">>}
  BY <1>1 DEF S!Others, S!Is890
<1>3. S!ReadBacks =
        S!Tunes("FA") \cup S!Tunes("FB") \cup S!Vfos("FR") \cup S!Vfos("FT")
        \cup S!Switches("RT") \cup S!Switches("XT") \cup S!Switches("TB")
        \cup S!Modes("OM0", S!KenwoodModes) \cup S!Modes("OM1", S!KenwoodModes)
  BY <1>1 DEF S!ReadBacks, S!Is890
<1>4. ASSUME NEW x \in S!ReadBacks PROVE x[1][1] # "AI" /\ x[2][1] # "AI"
  <2>1. CASE x \in S!Tunes("FA") \cup S!Tunes("FB")
    BY <2>1 DEF S!Tunes
  <2>2. CASE x \in S!Vfos("FR") \cup S!Vfos("FT")
    BY <2>2 DEF S!Vfos
  <2>3. CASE x \in S!Switches("RT") \cup S!Switches("XT") \cup S!Switches("TB")
    BY <2>3 DEF S!Switches
  <2>4. CASE x \in S!Modes("OM0", S!KenwoodModes) \cup S!Modes("OM1", S!KenwoodModes)
    BY <2>4 DEF S!Modes
  <2> QED
    BY <1>3, <2>1, <2>2, <2>3, <2>4
<1>5. c = <<"AI", 2>>
  BY <1>2, <1>4 DEF S!Commands
<1> QED
  BY <1>5

\* A step of either thread that leaves the push alone and takes nothing back.
LEMMA ChangeKeepsPush ==
    ASSUME PushInv, UNCHANGED <<model, pushed, due>>, simAt' = simAt \/ due = <<>>,
           DOMAIN heard' = S!Heads890,
           S!Is890(model) => /\ HasAi(simRig') /\ simRig'.ai = simRig.ai
                             /\ undone' = (undone \/ S!TakenBack(simRig, simRig'))
                             /\ \A h \in S!Heads890 : heard'[h] \in {heard[h], <<S!TS890Told(simRig', h)>>}
    PROVE  PushInv'
<1>1. ASSUME S!Is890(model), simRig'.ai > 0 PROVE pushed' # S!Never
  BY <1>1 DEF PushInv
<1>2. ASSUME S!Is890(model), simRig'.ai > 0, ~undone', NEW h \in S!Heads890
      PROVE  WillBeTold(h, simRig, pushed, due)'
  <2>1. ~undone /\ ~S!TakenBack(simRig, simRig') /\ simRig.ai > 0
    BY <1>2
  <2>2. WillBeTold(h, simRig, pushed, due) /\ pushed # S!Never /\ DOMAIN pushed = SnapFields
    BY <1>2, <2>1 DEF PushInv
  <2>3. WillBeTold(h, simRig', pushed, due)
    BY <1>2, <2>1, <2>2, ChangeIsTold
  <2>4. heard'[h] = heard[h] \/ heard'[h] = <<S!TS890Told(simRig', h)>>
    BY <1>2
  <2> QED
    BY <2>3, <2>4 DEF WillBeTold
<1> QED
  BY <1>1, <1>2 DEF PushInv, S!Is890

\* What the reader thread does with a command.
LEMMA AnswerKeepsPush == ASSUME NEW c \in S!Commands, PushInv, S!Answer(c) PROVE PushInv'
<1>1. simAt = "frames" /\ due = <<>> /\ UNCHANGED <<model, simAt, due>>
  BY DEF S!Answer, PushInv
<1>2. CASE ~S!Is890(model)
  <2>1. UNCHANGED <<pushed, heard>>
    BY <1>2 DEF S!Answer
  <2> QED
    BY <1>1, <1>2, <2>1 DEF PushInv, S!Is890
<1>3. CASE S!Is890(model)
  <2> DEFINE legacy == model = "TS890"
             done == S!TS890(legacy, simRig, c)
             starts == c[1] = "AI"
  <2>1. model \in {"TS890", "TS990"} /\ HasAi(simRig) /\ DOMAIN heard = S!Heads890
    BY <1>3 DEF PushInv, S!Is890
  <2>2. S!Handle(model, S!Core, c) = done
    BY <2>1 DEF S!Handle, S!Core
  <2>3. /\ simRig' = done.rig
        /\ pushed' = IF starts THEN S!Snapshot(done.rig) ELSE pushed
        /\ undone' = (~starts /\ (undone \/ S!TakenBack(simRig, done.rig)))
        /\ heard' = IF starts THEN S!Untold
                    ELSE IF answering /\ done.reply # <<>> /\ done.reply[1] \in S!Heads890
                    THEN [heard EXCEPT ![done.reply[1]] = <<done.reply[2]>>] ELSE heard
    BY <1>3, <2>1, <2>2 DEF S!Answer
  <2>4. /\ HasAi(done.rig)
        /\ ~starts => done.rig.ai = simRig.ai
        /\ done.reply # <<>> /\ done.reply[1] \in S!Heads890
              => done.reply[2] = S!TS890Told(done.rig, done.reply[1])
    BY <1>3, <2>1, LevelAsked, TS890Answers
  <2> HIDE DEF done
  <2>5. CASE starts
    <3>1. pushed' = S!Snapshot(done.rig) /\ heard' = S!Untold /\ simRig' = done.rig
      BY <2>3, <2>5
    <3>2. \A h \in S!Heads890 : heard'[h] = <<>>
      BY <3>1 DEF S!Untold
    <3>3. DOMAIN heard' = S!Heads890 /\ DOMAIN pushed' = SnapFields /\ pushed' # S!Never
      BY <3>1, SnapshotPushed DEF S!Untold
    <3> QED
      BY <1>1, <2>4, <3>1, <3>2, <3>3 DEF PushInv, WillBeTold
  <2>6. CASE ~starts
    <3>1. /\ simRig' = done.rig /\ pushed' = pushed /\ undone' = (undone \/ S!TakenBack(simRig, simRig'))
          /\ DOMAIN heard' = S!Heads890
      BY <2>1, <2>3, <2>6
    <3>2. ASSUME NEW h \in S!Heads890 PROVE heard'[h] \in {heard[h], <<S!TS890Told(done.rig, h)>>}
      BY <2>1, <2>3, <2>4, <2>6
    <3> QED
      BY <1>1, <2>4, <2>6, <3>1, <3>2, ChangeKeepsPush
  <2> QED
    BY <2>5, <2>6
<1> QED
  BY <1>2, <1>3

\* What the console thread does, between any two steps of the reader.
LEMMA ConsoleKeepsPush ==
    PushInv /\ (S!KeyF \/ S!KeyB \/ S!KeyM \/ S!KeyO \/ S!KeyS \/ S!KeyR \/ S!KeyX \/ S!KeyT \/ S!Link) => PushInv'
<1>1. ASSUME PushInv, NEW next, S!Key(next), HasAi(simRig) => HasAi(next) /\ next.ai = simRig.ai
      PROVE  PushInv'
  <2>1. /\ simRig' = next /\ undone' = (undone \/ S!TakenBack(simRig, simRig'))
        /\ UNCHANGED <<model, pushed, due, simAt, heard>>
    BY <1>1 DEF S!Key, S!reader
  <2>2. DOMAIN heard' = S!Heads890 /\ (S!Is890(model) => HasAi(simRig))
    BY <1>1, <2>1 DEF PushInv
  <2> QED
    BY <1>1, <2>1, <2>2, ChangeKeepsPush
<1>2. ASSUME PushInv, S!KeyF \/ S!KeyB \/ S!KeyM \/ S!KeyO \/ S!KeyR \/ S!KeyX \/ S!KeyT PROVE PushInv'
  <2>1. PICK next : /\ S!Key(next)
                     /\ \E f \in {"a", "b", "mode", "off", "rit", "xit", "ptt"} : \E v : next = [simRig EXCEPT ![f] = v]
    BY <1>2 DEF S!KeyF, S!KeyB, S!KeyM, S!KeyO, S!KeyR, S!KeyX, S!KeyT
  <2>2. HasAi(simRig) => HasAi(next) /\ next.ai = simRig.ai
    BY <2>1 DEF HasAi
  <2> QED
    BY <1>1, <1>2, <2>1, <2>2
<1>3. ASSUME PushInv, S!KeyS PROVE PushInv'
  <2>1. HasAi(simRig) => HasAi(S!ToggleSplit(simRig)) /\ S!ToggleSplit(simRig).ai = simRig.ai
    BY DEF HasAi, S!ToggleSplit
  <2> QED
    BY <1>1, <1>3, <2>1 DEF S!KeyS
<1>4. ASSUME PushInv, S!Link PROVE PushInv'
  BY <1>4 DEF S!Link, S!reader, PushInv, WillBeTold, S!Is890
<1> QED
  BY <1>2, <1>3, <1>4

\* The simulated radio keeps PushInv.
LEMMA RadioKeepsPush == PushInv /\ (S!Next \/ UNCHANGED simVars) => PushInv'
<1> SUFFICES ASSUME PushInv, S!Next \/ UNCHANGED simVars PROVE PushInv'
  OBVIOUS
<1>1. CASE S!Read \/ S!Push \/ S!Format \/ S!NextRead
  BY <1>1, ReaderKeepsPush
<1>2. CASE \E c \in S!Commands : S!Answer(c)
  BY <1>2, AnswerKeepsPush
<1>3. CASE S!KeyF \/ S!KeyB \/ S!KeyM \/ S!KeyO \/ S!KeyS \/ S!KeyR \/ S!KeyX \/ S!KeyT \/ S!Link
  BY <1>3, ConsoleKeepsPush
<1>4. CASE UNCHANGED simVars
  BY <1>4 DEF simVars, PushInv, WillBeTold, S!Is890
<1> QED
  BY <1>1, <1>2, <1>3, <1>4 DEF S!Next

------------------------------------------------------------------------------
\* The simulated radio: what is set is read back

\* The fields of a simulated radio, and those every personality's answers read.
RigFields  == {"a", "b", "rx", "tx", "mode", "modeB", "rit", "xit", "off", "ptt", "ai"}
PortFields == {"a", "b", "rx", "tx", "mode", "modeB", "ptt", "filter", "data", "ant"}
IsRig(r)  == DOMAIN r = RigFields /\ r.rx \in S!Vfo /\ r.tx \in S!Vfo

\* n is r with the field f set to v.
Sets(r, n, f, v) == n = [r EXCEPT ![f] = v]

\* A radio stays a radio when a field is set, the VFOs among two.
LEMMA FieldSet ==
    ASSUME NEW r, IsRig(r), NEW n, NEW f, NEW v, Sets(r, n, f, v), f \in {"rx", "tx"} => v \in S!Vfo
    PROVE  IsRig(n) /\ (f # "rx" => n.rx = r.rx)
BY DEF IsRig, RigFields, Sets

\* Split is between the two VFOs.
LEMMA Toggled == ASSUME NEW r, IsRig(r) PROVE IsRig(S!ToggleSplit(r)) /\ S!ToggleSplit(r).rx = r.rx
<1>1. Sets(r, S!ToggleSplit(r), "tx", IF S!Split(r) THEN r.rx ELSE 1 - r.rx)
  BY DEF S!ToggleSplit, Sets
<1>2. (IF S!Split(r) THEN r.rx ELSE 1 - r.rx) \in S!Vfo
  BY DEF IsRig, S!Vfo
<1> QED
  BY <1>1, <1>2, FieldSet

\* The clarifier and a step of the frequency.
LEMMA Shifted ==
    ASSUME NEW r, IsRig(r), NEW h
    PROVE  /\ IsRig(S!Clarified(r, h)) /\ S!Clarified(r, h).rx = r.rx
           /\ IsRig(S!Stepped(r, h)) /\ S!Stepped(r, h).rx = r.rx
<1>1. Sets(r, S!Clarified(r, h), "off",
           CASE h = "RC" -> 0 [] h = "RU" -> r.off + 1 [] OTHER -> r.off - 1)
  BY DEF S!Clarified, Sets, IsRig, RigFields
<1>2. Sets(r, S!Stepped(r, h), "a", IF h = "UP" THEN r.a + 1 ELSE r.a - 1)
  BY DEF S!Stepped, Sets, IsRig, RigFields
<1> QED
  BY <1>1, <1>2, FieldSet

\* The VFO a command names is one of the two.
NamesVfo(c) == c[1] \in {"FR", "FT"} /\ Len(c) > 1 => c[2] \in S!Vfo

\* A Kenwood stays a radio.
LEMMA KenwoodKeeps ==
    ASSUME NEW r, IsRig(r), NEW c, NamesVfo(c)
    PROVE  IsRig(S!Kenwood(r, c).rig)
<1> DEFINE h == c[1]
           n == S!Kenwood(r, c).rig
<1>1. CASE h \in {"IF", "KS", "ID"}
  <2>1. n = r
    BY <1>1 DEF S!Kenwood, S!Says, S!Quiet, S!Rejects, S!Clarifier
  <2> QED
    BY <2>1
<1>2. CASE h \in {"FA", "FB"}
  <2>1. n = r \/ Sets(r, n, "a", c[2]) \/ Sets(r, n, "b", c[2])
    BY <1>2 DEF S!Kenwood, S!Says, S!Quiet, S!Rejects, S!Clarifier, Sets
  <2> QED
    BY <2>1, FieldSet
<1>3. CASE h = "MD"
  <2>1. n = r \/ Sets(r, n, "mode", S!Decoded(S!KenwoodModes, c[2], r.mode))
    BY <1>3 DEF S!Kenwood, S!Says, S!Quiet, S!Rejects, S!Clarifier, Sets
  <2> QED
    BY <2>1, FieldSet
<1>4. CASE h \in {"FR", "FT"}
  <2>1. n = r \/ (Len(c) > 1 /\ (Sets(r, n, "rx", c[2]) \/ Sets(r, n, "tx", c[2])))
    BY <1>4 DEF S!Kenwood, S!Says, S!Quiet, S!Rejects, S!Clarifier, Sets
  <2> QED
    BY <1>4, <2>1, FieldSet DEF NamesVfo
<1>5. CASE h \in {"RT", "XT"}
  <2>1. PICK v \in BOOLEAN : v <=> (Len(c) > 1 /\ c[2] = 1)
    OBVIOUS
  <2>2. Sets(r, n, "rit", v) \/ Sets(r, n, "xit", v)
    BY <1>5, <2>1 DEF S!Kenwood, S!Says, S!Quiet, S!Rejects, S!Clarifier, Sets
  <2> QED
    BY <2>2, FieldSet
<1>6. CASE h \in {"TX", "RX"}
  <2>1. n = r \/ Sets(r, n, "ptt", h = "TX")
    BY <1>6 DEF S!Kenwood, S!Says, S!Quiet, S!Rejects, S!Clarifier, Sets
  <2> QED
    BY <2>1, FieldSet
<1>7. CASE h \in {"UP", "DN"} \/ h \in S!Clarifier
  <2>1. n \in {S!Stepped(r, h), S!Clarified(r, h)}
    BY <1>7 DEF S!Kenwood, S!Says, S!Quiet, S!Rejects, S!Clarifier
  <2> QED
    BY <2>1, Shifted
<1>8. CASE h \notin {"IF", "KS", "ID", "FA", "FB", "MD", "FR", "FT",
                    "RT", "XT", "TX", "RX", "UP", "DN"} \cup S!Clarifier
  <2>1. n = r
    BY <1>8 DEF S!Kenwood, S!Says, S!Quiet, S!Rejects, S!Clarifier
  <2> QED
    BY <2>1
<1> QED
  BY <1>1, <1>2, <1>3, <1>4, <1>5, <1>6, <1>7, <1>8

\* So does an Elecraft.
LEMMA ElecraftKeeps ==
    ASSUME NEW r, IsRig(r), NEW c, NamesVfo(c)
    PROVE  IsRig(S!Elecraft(r, c).rig)
<1> DEFINE h == c[1]
           n == S!Elecraft(r, c).rig
<1>1. CASE h \in {"IF", "DT", "DT$", "AI", "KS", "ID"}
  <2>1. n = r
    BY <1>1 DEF S!Elecraft, S!Says, S!Quiet, S!Rejects, S!Clarifier
  <2> QED
    BY <2>1
<1>2. CASE h \in {"FA", "FB"}
  <2>1. n = r \/ Sets(r, n, "a", c[2]) \/ Sets(r, n, "b", c[2])
    BY <1>2 DEF S!Elecraft, S!Says, S!Quiet, S!Rejects, S!Clarifier, Sets
  <2> QED
    BY <2>1, FieldSet
<1>3. CASE h \in {"MD", "MD$"}
  <2>1. n = r \/ Sets(r, n, "mode", S!Decoded(S!ElecraftModes, c[2], r.mode))
    BY <1>3 DEF S!Elecraft, S!Says, S!Quiet, S!Rejects, S!Clarifier, Sets
  <2> QED
    BY <2>1, FieldSet
<1>4. CASE h \in {"FR", "FT"}
  <2>1. n = r \/ (Len(c) > 1 /\ (Sets(r, n, "rx", c[2]) \/ Sets(r, n, "tx", c[2])))
    BY <1>4 DEF S!Elecraft, S!Says, S!Quiet, S!Rejects, S!Clarifier, Sets
  <2> QED
    BY <1>4, <2>1, FieldSet DEF NamesVfo
<1>5. CASE h \in {"RT", "XT"}
  <2>1. PICK v \in BOOLEAN : v <=> (Len(c) > 1 /\ c[2] = 1)
    OBVIOUS
  <2>2. Sets(r, n, "rit", v) \/ Sets(r, n, "xit", v)
    BY <1>5, <2>1 DEF S!Elecraft, S!Says, S!Quiet, S!Rejects, S!Clarifier, Sets
  <2> QED
    BY <2>2, FieldSet
<1>6. CASE h \in {"TX", "RX"}
  <2>1. n = r \/ Sets(r, n, "ptt", h = "TX")
    BY <1>6 DEF S!Elecraft, S!Says, S!Quiet, S!Rejects, S!Clarifier, Sets
  <2> QED
    BY <2>1, FieldSet
<1>7. CASE h \in S!Clarifier
  <2>1. n \in {S!Clarified(r, h)}
    BY <1>7 DEF S!Elecraft, S!Says, S!Quiet, S!Rejects, S!Clarifier
  <2> QED
    BY <2>1, Shifted
<1>8. CASE h \notin {"IF", "DT", "DT$", "AI", "KS", "ID", "FA", "FB",
                    "MD", "MD$", "FR", "FT", "RT", "XT", "TX", "RX"} \cup S!Clarifier
  <2>1. n = r
    BY <1>8 DEF S!Elecraft, S!Says, S!Quiet, S!Rejects, S!Clarifier
  <2> QED
    BY <2>1
<1> QED
  BY <1>1, <1>2, <1>3, <1>4, <1>5, <1>6, <1>7, <1>8

\* So does a Yaesu, and none of its commands changes the VFO it receives on.
LEMMA YaesuKeeps ==
    ASSUME NEW modes, NEW r, IsRig(r), NEW c
    PROVE  IsRig(S!Yaesu(modes, r, c).rig) /\ S!Yaesu(modes, r, c).rig.rx = r.rx
<1> DEFINE h == c[1]
           n == S!Yaesu(modes, r, c).rig
<1>1. CASE h \in {"IF", "OI", "KS", "PB"}
  <2>1. n = r
    BY <1>1 DEF S!Yaesu, S!Says, S!Quiet, S!Rejects, S!Clarifier
  <2> QED
    BY <2>1
<1>2. CASE h \in {"FA", "FB"}
  <2>1. n = r \/ Sets(r, n, "a", c[2]) \/ Sets(r, n, "b", c[2])
    BY <1>2 DEF S!Yaesu, S!Says, S!Quiet, S!Rejects, S!Clarifier, Sets
  <2> QED
    BY <2>1, FieldSet
<1>3. CASE h = "MD"
  <2>1. n = r \/ Sets(r, n, "mode", S!Decoded(modes, c[2], r.mode))
    BY <1>3 DEF S!Yaesu, S!Says, S!Quiet, S!Rejects, S!Clarifier, Sets
  <2> QED
    BY <2>1, FieldSet
<1>4. CASE h = "FT"
  <2>1. n = r \/ n = S!ToggleSplit(r)
    BY <1>4 DEF S!Yaesu, S!Says, S!Quiet, S!Rejects, S!Clarifier
  <2> QED
    BY <2>1, Toggled
<1>5. CASE h \in {"RT", "XT"}
  <2>1. PICK v \in BOOLEAN : v <=> (Len(c) > 1 /\ c[2] = 1)
    OBVIOUS
  <2>2. Sets(r, n, "rit", v) \/ Sets(r, n, "xit", v)
    BY <1>5, <2>1 DEF S!Yaesu, S!Says, S!Quiet, S!Rejects, S!Clarifier, Sets
  <2> QED
    BY <2>2, FieldSet
<1>6. CASE h \in {"TX", "RX"}
  <2>1. n = r \/ (\E v \in BOOLEAN : Sets(r, n, "ptt", v))
    BY <1>6 DEF S!Yaesu, S!Says, S!Quiet, S!Rejects, S!Clarifier, Sets
  <2> QED
    BY <2>1, FieldSet
<1>7. CASE h \in {"UP", "DN"} \/ h \in S!Clarifier
  <2>1. n \in {S!Stepped(r, h), S!Clarified(r, h)}
    BY <1>7 DEF S!Yaesu, S!Says, S!Quiet, S!Rejects, S!Clarifier
  <2> QED
    BY <2>1, Shifted
<1>8. CASE h \notin {"IF", "OI", "KS", "PB", "FA", "FB", "MD", "FT",
                    "RT", "XT", "TX", "RX", "UP", "DN"} \cup S!Clarifier
  <2>1. n = r
    BY <1>8 DEF S!Yaesu, S!Says, S!Quiet, S!Rejects, S!Clarifier
  <2> QED
    BY <2>1
<1> QED
  BY <1>1, <1>2, <1>3, <1>4, <1>5, <1>6, <1>7, <1>8

\* So does an Icom.
LEMMA IcomKeeps ==
    ASSUME NEW vfoB \in BOOLEAN, NEW r, IsRig(r), NEW c
    PROVE  IsRig(S!Icom(vfoB, r, c).rig)
<1> DEFINE h == c[2]
           n == S!Icom(vfoB, r, c).rig
<1>1. CASE c[1] \notin {"me", "all"}
  <2>1. n = r
    BY <1>1 DEF S!Icom, S!Says, S!Quiet, S!Rejects, S!ACK, S!NAK
  <2> QED
    BY <2>1
<1>2. CASE c[1] \in {"me", "all"} /\ h \in {"03", "04", "1C", "14", "21"}
  <2>1. n = r
    BY <1>2 DEF S!Icom, S!Says, S!Quiet, S!Rejects, S!ACK, S!NAK
  <2> QED
    BY <2>1
<1>3. CASE c[1] \in {"me", "all"} /\ h \in {"05"}
  <2>1. n = r \/ Sets(r, n, "a", c[3]) \/ Sets(r, n, "b", c[3])
    BY <1>3 DEF S!Icom, S!Says, S!Quiet, S!Rejects, S!ACK, S!NAK, Sets
  <2> QED
    BY <2>1, FieldSet
<1>4. CASE c[1] \in {"me", "all"} /\ h \in {"06"}
  <2>1. n = r \/ Sets(r, n, "mode", S!Decoded(S!IcomModes, c[3], r.mode))
    BY <1>4 DEF S!Icom, S!Says, S!Quiet, S!Rejects, S!ACK, S!NAK, Sets
  <2> QED
    BY <2>1, FieldSet
<1>5. CASE c[1] \in {"me", "all"} /\ h \in {"25"}
  <2>1. n = r \/ Sets(r, n, "a", c[4]) \/ Sets(r, n, "b", c[4])
    BY <1>5 DEF S!Icom, S!Says, S!Quiet, S!Rejects, S!ACK, S!NAK, Sets
  <2> QED
    BY <2>1, FieldSet
<1>6. CASE c[1] \in {"me", "all"} /\ h \in {"26"}
  <2>1. n = r \/ Sets(r, n, "mode", S!Decoded(S!IcomModes, c[4], r.mode))
    BY <1>6 DEF S!Icom, S!Says, S!Quiet, S!Rejects, S!ACK, S!NAK, Sets
  <2> QED
    BY <2>1, FieldSet
<1>7. CASE c[1] \in {"me", "all"} /\ h \in {"0F"}
  <2>1. n = r \/ Sets(r, n, "tx", 1 - r.rx) \/ Sets(r, n, "tx", r.rx)
    BY <1>7 DEF S!Icom, S!Says, S!Quiet, S!Rejects, S!ACK, S!NAK, Sets
  <2>2. 1 - r.rx \in S!Vfo /\ r.rx \in S!Vfo
    BY DEF IsRig, S!Vfo
  <2> QED
    BY <2>1, <2>2, FieldSet
<1>8. CASE c[1] \in {"me", "all"} /\ h \notin {"03", "04", "1C", "14", "21", "05", "06", "25", "26", "0F"}
  <2>1. n = r
    BY <1>8 DEF S!Icom, S!Says, S!Quiet, S!Rejects, S!ACK, S!NAK
  <2> QED
    BY <2>1
<1> QED
  BY <1>1, <1>2, <1>3, <1>4, <1>5, <1>6, <1>7, <1>8

\* So does a TS-890 whose parameter is set.
LEMMA TS890SetKeeps ==
    ASSUME NEW r, IsRig(r), NEW c, c[1] \in {"FR", "FT"} => c[2] \in S!Vfo
    PROVE  IsRig(S!TS890Set(r, c))
<1> DEFINE h == c[1]
           n == S!TS890Set(r, c)
<1>1. CASE h \in {"FA", "FB"}
  <2>1. n = r \/ Sets(r, n, "a", c[2]) \/ Sets(r, n, "b", c[2])
    BY <1>1 DEF S!TS890Set, S!SetModeOf, S!Heads890, Sets
  <2> QED
    BY <2>1, FieldSet
<1>2. CASE h \in {"FR", "FT"}
  <2>1. Sets(r, n, "rx", c[2]) \/ Sets(r, n, "tx", c[2])
    BY <1>2 DEF S!TS890Set, S!SetModeOf, S!Heads890, Sets
  <2> QED
    BY <1>2, <2>1, FieldSet
<1>3. CASE h \in {"OM0", "OM1"}
  <2>1. n = r \/ Sets(r, n, "mode", S!Coded(S!KenwoodModes, c[2])) \/ Sets(r, n, "modeB", S!Coded(S!KenwoodModes, c[2]))
    BY <1>3 DEF S!TS890Set, S!SetModeOf, S!Heads890, Sets
  <2> QED
    BY <2>1, FieldSet
<1>4. CASE h = "RT"
  <2>1. n = r \/ Sets(r, n, "rit", c[2] = 1)
    BY <1>4 DEF S!TS890Set, S!SetModeOf, S!Heads890, Sets
  <2> QED
    BY <2>1, FieldSet
<1>5. CASE h = "XT"
  <2>1. n = r \/ Sets(r, n, "xit", c[2] = 1)
    BY <1>5 DEF S!TS890Set, S!SetModeOf, S!Heads890, Sets
  <2> QED
    BY <2>1, FieldSet
<1>6. CASE h = "TB"
  <2>1. n = r \/ n = S!ToggleSplit(r)
    BY <1>6 DEF S!TS890Set, S!SetModeOf, S!Heads890
  <2> QED
    BY <2>1, Toggled
<1>7. CASE h = "AI"
  <2>1. n = r \/ Sets(r, n, "ai", c[2])
    BY <1>7 DEF S!TS890Set, S!SetModeOf, S!Heads890, Sets
  <2> QED
    BY <2>1, FieldSet
<1>8. CASE h \notin {"FA", "FB", "FR", "FT", "OM0", "OM1", "RT", "XT", "TB", "AI"}
  <2>1. n = r
    BY <1>8 DEF S!TS890Set, S!SetModeOf, S!Heads890
  <2> QED
    BY <2>1
<1> QED
  BY <1>1, <1>2, <1>3, <1>4, <1>5, <1>6, <1>7, <1>8

\* So does a TS-890.
LEMMA TS890Keeps ==
    ASSUME NEW legacyIf \in BOOLEAN, NEW r, IsRig(r), NEW c, NamesVfo(c)
    PROVE  IsRig(S!TS890(legacyIf, r, c).rig)
<1> DEFINE h == c[1]
           n == S!TS890(legacyIf, r, c).rig
<1>1. CASE h \in {"PS", "IF", "ID", "KS", "FL", "KY", "RF", "##"}
  <2>1. n = r
    BY <1>1 DEF S!TS890, S!Says, S!Quiet, S!Rejects, S!Clarifier, S!Heads890
  <2> QED
    BY <2>1
<1>2. CASE h \in {"TX", "RX"}
  <2>1. n = r \/ Sets(r, n, "ptt", h = "TX")
    BY <1>2 DEF S!TS890, S!Says, S!Quiet, S!Rejects, S!Clarifier, S!Heads890, Sets
  <2> QED
    BY <2>1, FieldSet
<1>3. CASE h \in S!Heads890 \ {"TX"}
  <2>1. n = r \/ (Len(c) > 1 /\ n = S!TS890Set(r, c))
    BY <1>3 DEF S!TS890, S!Says, S!Quiet, S!Rejects, S!Clarifier, S!Heads890
  <2> QED
    BY <2>1, TS890SetKeeps DEF NamesVfo
<1>4. CASE h \in {"UP", "DN"} \/ h \in S!Clarifier
  <2>1. n \in {S!Stepped(r, h), S!Clarified(r, h)}
    BY <1>4 DEF S!TS890, S!Says, S!Quiet, S!Rejects, S!Clarifier, S!Heads890
  <2> QED
    BY <2>1, Shifted
<1>5. CASE h = "AI"
  <2>1. n = S!TS890Set(r, c) \/ Sets(r, n, "ai", 0)
    BY <1>5 DEF S!TS890, S!Says, S!Quiet, S!Rejects, S!Clarifier, S!Heads890, Sets
  <2> QED
    BY <1>5, <2>1, TS890SetKeeps, FieldSet
<1>6. CASE h \notin {"PS", "IF", "ID", "KS", "FL", "KY", "RF", "##",
                    "TX", "RX", "UP", "DN", "AI"} \cup S!Heads890 \cup S!Clarifier
  <2>1. n = r
    BY <1>6 DEF S!TS890, S!Says, S!Quiet, S!Rejects, S!Clarifier, S!Heads890
  <2> QED
    BY <2>1
<1> QED
  BY <1>1, <1>2, <1>3, <1>4, <1>5, <1>6

\* What a command sets, a query says, and leaves the radio as it is.
Kept(p, r, set, ask, reply) ==
    S!Handle(p, S!Handle(p, r, set).rig, ask) = [rig |-> S!Handle(p, r, set).rig, reply |-> reply]

\* What the drivers set of a Kenwood is read back.
LEMMA KenwoodReads ==
    ASSUME NEW r, IsRig(r),
           NEW p, \A d, c : S!Handle(p, d, c) = S!Kenwood(d, c)
    PROVE  /\ \A f : Kept(p, r, <<"FA", f>>, <<"FA">>, <<"FA", f>>)
           /\ \A f : Kept(p, r, <<"FB", f>>, <<"FB">>, <<"FB", f>>)
           /\ \A m \in S!KenwoodModes : Kept(p, r, <<"MD", m>>, <<"MD">>, <<"MD", m>>)
<1>1. ASSUME NEW f PROVE Kept(p, r, <<"FA", f>>, <<"FA">>, <<"FA", f>>)
  <2> DEFINE n == [r EXCEPT !.a = f]
  <2>1. S!Kenwood(r, <<"FA", f>>).rig = n
    BY <1>1 DEF S!Kenwood, S!Says, S!Quiet, S!Rejects, S!Clarifier
  <2>2. S!Kenwood(n, <<"FA">>) = [rig |-> n, reply |-> <<"FA", n.a>>]
    <3> HIDE DEF n
    <3> QED
      BY <1>1 DEF S!Kenwood, S!Says, S!Quiet, S!Rejects, S!Clarifier
  <2>3. <<"FA", n.a>> = <<"FA", f>>
    BY <1>1 DEF IsRig, RigFields
  <2> HIDE DEF n
  <2> QED
    BY <2>1, <2>2, <2>3 DEF Kept
<1>2. ASSUME NEW f PROVE Kept(p, r, <<"FB", f>>, <<"FB">>, <<"FB", f>>)
  <2> DEFINE n == [r EXCEPT !.b = f]
  <2>1. S!Kenwood(r, <<"FB", f>>).rig = n
    BY <1>2 DEF S!Kenwood, S!Says, S!Quiet, S!Rejects, S!Clarifier
  <2>2. S!Kenwood(n, <<"FB">>) = [rig |-> n, reply |-> <<"FB", n.b>>]
    <3> HIDE DEF n
    <3> QED
      BY <1>2 DEF S!Kenwood, S!Says, S!Quiet, S!Rejects, S!Clarifier
  <2>3. <<"FB", n.b>> = <<"FB", f>>
    BY <1>2 DEF IsRig, RigFields
  <2> HIDE DEF n
  <2> QED
    BY <2>1, <2>2, <2>3 DEF Kept
<1>3. ASSUME NEW m \in S!KenwoodModes PROVE Kept(p, r, <<"MD", m>>, <<"MD">>, <<"MD", m>>)
  <2> DEFINE n == [r EXCEPT !.mode = m]
  <2>1. S!Kenwood(r, <<"MD", m>>).rig = n
    BY <1>3 DEF S!Kenwood, S!Says, S!Quiet, S!Rejects, S!Clarifier, S!Decoded
  <2>2. S!Kenwood(n, <<"MD">>) = [rig |-> n, reply |-> <<"MD", S!Coded(S!KenwoodModes, n.mode)>>]
    <3> HIDE DEF n
    <3> QED
      BY <1>3 DEF S!Kenwood, S!Says, S!Quiet, S!Rejects, S!Clarifier
  <2>3. <<"MD", S!Coded(S!KenwoodModes, n.mode)>> = <<"MD", m>>
    BY <1>3 DEF IsRig, RigFields, S!Coded
  <2> HIDE DEF n
  <2> QED
    BY <2>1, <2>2, <2>3 DEF Kept
<1> QED
  BY <1>1, <1>2, <1>3

\* Of an Elecraft.
LEMMA ElecraftReads ==
    ASSUME NEW r, IsRig(r),
           NEW p, \A d, c : S!Handle(p, d, c) = S!Elecraft(d, c)
    PROVE  /\ \A f : Kept(p, r, <<"FA", f>>, <<"FA">>, <<"FA", f>>)
           /\ \A f : Kept(p, r, <<"FB", f>>, <<"FB">>, <<"FB", f>>)
           /\ \A m \in S!ElecraftModes : Kept(p, r, <<"MD", m>>, <<"MD">>, <<"MD", m>>)
           /\ \A m \in S!ElecraftModes : Kept(p, r, <<"MD$", m>>, <<"MD$">>, <<"MD$", m>>)
<1>1. ASSUME NEW f PROVE Kept(p, r, <<"FA", f>>, <<"FA">>, <<"FA", f>>)
  <2> DEFINE n == [r EXCEPT !.a = f]
  <2>1. S!Elecraft(r, <<"FA", f>>).rig = n
    BY <1>1 DEF S!Elecraft, S!Says, S!Quiet, S!Rejects, S!Clarifier
  <2>2. S!Elecraft(n, <<"FA">>) = [rig |-> n, reply |-> <<"FA", n.a>>]
    <3> HIDE DEF n
    <3> QED
      BY <1>1 DEF S!Elecraft, S!Says, S!Quiet, S!Rejects, S!Clarifier
  <2>3. <<"FA", n.a>> = <<"FA", f>>
    BY <1>1 DEF IsRig, RigFields
  <2> HIDE DEF n
  <2> QED
    BY <2>1, <2>2, <2>3 DEF Kept
<1>2. ASSUME NEW f PROVE Kept(p, r, <<"FB", f>>, <<"FB">>, <<"FB", f>>)
  <2> DEFINE n == [r EXCEPT !.b = f]
  <2>1. S!Elecraft(r, <<"FB", f>>).rig = n
    BY <1>2 DEF S!Elecraft, S!Says, S!Quiet, S!Rejects, S!Clarifier
  <2>2. S!Elecraft(n, <<"FB">>) = [rig |-> n, reply |-> <<"FB", n.b>>]
    <3> HIDE DEF n
    <3> QED
      BY <1>2 DEF S!Elecraft, S!Says, S!Quiet, S!Rejects, S!Clarifier
  <2>3. <<"FB", n.b>> = <<"FB", f>>
    BY <1>2 DEF IsRig, RigFields
  <2> HIDE DEF n
  <2> QED
    BY <2>1, <2>2, <2>3 DEF Kept
<1>3. ASSUME NEW m \in S!ElecraftModes PROVE Kept(p, r, <<"MD", m>>, <<"MD">>, <<"MD", m>>)
  <2> DEFINE n == [r EXCEPT !.mode = m]
  <2>1. S!Elecraft(r, <<"MD", m>>).rig = n
    BY <1>3 DEF S!Elecraft, S!Says, S!Quiet, S!Rejects, S!Clarifier, S!Decoded
  <2>2. S!Elecraft(n, <<"MD">>) = [rig |-> n, reply |-> <<"MD", S!Coded(S!ElecraftModes, n.mode)>>]
    <3> HIDE DEF n
    <3> QED
      BY <1>3 DEF S!Elecraft, S!Says, S!Quiet, S!Rejects, S!Clarifier
  <2>3. <<"MD", S!Coded(S!ElecraftModes, n.mode)>> = <<"MD", m>>
    BY <1>3 DEF IsRig, RigFields, S!Coded
  <2> HIDE DEF n
  <2> QED
    BY <2>1, <2>2, <2>3 DEF Kept
<1>4. ASSUME NEW m \in S!ElecraftModes PROVE Kept(p, r, <<"MD$", m>>, <<"MD$">>, <<"MD$", m>>)
  <2> DEFINE n == [r EXCEPT !.mode = m]
  <2>1. S!Elecraft(r, <<"MD$", m>>).rig = n
    BY <1>4 DEF S!Elecraft, S!Says, S!Quiet, S!Rejects, S!Clarifier, S!Decoded
  <2>2. S!Elecraft(n, <<"MD$">>) = [rig |-> n, reply |-> <<"MD$", S!Coded(S!ElecraftModes, n.mode)>>]
    <3> HIDE DEF n
    <3> QED
      BY <1>4 DEF S!Elecraft, S!Says, S!Quiet, S!Rejects, S!Clarifier
  <2>3. <<"MD$", S!Coded(S!ElecraftModes, n.mode)>> = <<"MD$", m>>
    BY <1>4 DEF IsRig, RigFields, S!Coded
  <2> HIDE DEF n
  <2> QED
    BY <2>1, <2>2, <2>3 DEF Kept
<1> QED
  BY <1>1, <1>2, <1>3, <1>4

\* Of a Yaesu, which receives on its first VFO.
LEMMA YaesuReads ==
    ASSUME NEW modes, NEW r, IsRig(r), r.rx = 0,
           NEW p, \A d, c : S!Handle(p, d, c) = S!Yaesu(modes, d, c)
    PROVE  /\ \A f : Kept(p, r, <<"FA", f>>, <<"FA">>, <<"FA", f>>)
           /\ \A f : Kept(p, r, <<"FB", f>>, <<"FB">>, <<"FB", f>>)
           /\ \A m \in modes : Kept(p, r, <<"MD", m>>, <<"MD">>, <<"MD", m>>)
           /\ \A k \in {2, 3} : Kept(p, r, <<"FT", k>>, <<"FT">>, <<"FT", IF k = 3 THEN 1 ELSE 0>>)
           /\ \A k \in {0, 1} : Kept(p, r, <<"TX", k>>, <<"TX">>, <<"TX", k = 1>>)
<1>1. ASSUME NEW f PROVE Kept(p, r, <<"FA", f>>, <<"FA">>, <<"FA", f>>)
  <2> DEFINE n == [r EXCEPT !.a = f]
  <2>1. S!Yaesu(modes, r, <<"FA", f>>).rig = n
    BY <1>1 DEF S!Yaesu, S!Says, S!Quiet, S!Rejects, S!Clarifier
  <2>2. S!Yaesu(modes, n, <<"FA">>) = [rig |-> n, reply |-> <<"FA", n.a>>]
    <3> HIDE DEF n
    <3> QED
      BY <1>1 DEF S!Yaesu, S!Says, S!Quiet, S!Rejects, S!Clarifier
  <2>3. <<"FA", n.a>> = <<"FA", f>>
    BY <1>1 DEF IsRig, RigFields
  <2> HIDE DEF n
  <2> QED
    BY <2>1, <2>2, <2>3 DEF Kept
<1>2. ASSUME NEW f PROVE Kept(p, r, <<"FB", f>>, <<"FB">>, <<"FB", f>>)
  <2> DEFINE n == [r EXCEPT !.b = f]
  <2>1. S!Yaesu(modes, r, <<"FB", f>>).rig = n
    BY <1>2 DEF S!Yaesu, S!Says, S!Quiet, S!Rejects, S!Clarifier
  <2>2. S!Yaesu(modes, n, <<"FB">>) = [rig |-> n, reply |-> <<"FB", n.b>>]
    <3> HIDE DEF n
    <3> QED
      BY <1>2 DEF S!Yaesu, S!Says, S!Quiet, S!Rejects, S!Clarifier
  <2>3. <<"FB", n.b>> = <<"FB", f>>
    BY <1>2 DEF IsRig, RigFields
  <2> HIDE DEF n
  <2> QED
    BY <2>1, <2>2, <2>3 DEF Kept
<1>3. ASSUME NEW m \in modes PROVE Kept(p, r, <<"MD", m>>, <<"MD">>, <<"MD", m>>)
  <2> DEFINE n == [r EXCEPT !.mode = m]
  <2>1. S!Yaesu(modes, r, <<"MD", m>>).rig = n
    BY <1>3 DEF S!Yaesu, S!Says, S!Quiet, S!Rejects, S!Clarifier, S!Decoded
  <2>2. S!Yaesu(modes, n, <<"MD">>) = [rig |-> n, reply |-> <<"MD", S!Coded(modes, n.mode)>>]
    <3> HIDE DEF n
    <3> QED
      BY <1>3 DEF S!Yaesu, S!Says, S!Quiet, S!Rejects, S!Clarifier
  <2>3. <<"MD", S!Coded(modes, n.mode)>> = <<"MD", m>>
    BY <1>3 DEF IsRig, RigFields, S!Coded
  <2> HIDE DEF n
  <2> QED
    BY <2>1, <2>2, <2>3 DEF Kept
<1>4. ASSUME NEW k \in {2, 3} PROVE Kept(p, r, <<"FT", k>>, <<"FT">>, <<"FT", IF k = 3 THEN 1 ELSE 0>>)
  <2> DEFINE n == IF (k = 3 /\ ~S!Split(r)) \/ (k = 2 /\ S!Split(r)) THEN S!ToggleSplit(r) ELSE r
  <2>1. S!Yaesu(modes, r, <<"FT", k>>).rig = n
    BY <1>4 DEF S!Yaesu, S!Says, S!Quiet, S!Rejects, S!Clarifier
  <2>2. S!Yaesu(modes, n, <<"FT">>) = [rig |-> n, reply |-> <<"FT", n.tx>>]
    <3> HIDE DEF n
    <3> QED
      BY <1>4 DEF S!Yaesu, S!Says, S!Quiet, S!Rejects, S!Clarifier
  <2>3. <<"FT", n.tx>> = <<"FT", IF k = 3 THEN 1 ELSE 0>>
    BY <1>4 DEF IsRig, RigFields, S!ToggleSplit, S!Split, S!Vfo
  <2> HIDE DEF n
  <2> QED
    BY <2>1, <2>2, <2>3 DEF Kept
<1>5. ASSUME NEW k \in {0, 1} PROVE Kept(p, r, <<"TX", k>>, <<"TX">>, <<"TX", k = 1>>)
  <2> DEFINE n == [r EXCEPT !.ptt = k # 0]
  <2>1. S!Yaesu(modes, r, <<"TX", k>>).rig = n
    BY <1>5 DEF S!Yaesu, S!Says, S!Quiet, S!Rejects, S!Clarifier
  <2>2. S!Yaesu(modes, n, <<"TX">>) = [rig |-> n, reply |-> <<"TX", n.ptt>>]
    <3> HIDE DEF n
    <3> QED
      BY <1>5 DEF S!Yaesu, S!Says, S!Quiet, S!Rejects, S!Clarifier
  <2>3. <<"TX", n.ptt>> = <<"TX", k = 1>>
    BY <1>5 DEF IsRig, RigFields
  <2> HIDE DEF n
  <2> QED
    BY <2>1, <2>2, <2>3 DEF Kept
<1> QED
  BY <1>1, <1>2, <1>3, <1>4, <1>5

\* Of an Icom.
LEMMA IcomReads ==
    ASSUME NEW vfoB \in BOOLEAN, NEW r, IsRig(r),
           NEW p, \A d, c : S!Handle(p, d, c) = S!Icom(vfoB, d, c)
    PROVE  /\ \A f : Kept(p, r, <<"me", "05", f>>, <<"me", "03">>, <<"03", f>>)
           /\ \A m \in S!IcomModes : Kept(p, r, <<"me", "06", m>>, <<"me", "04">>, <<"04", m>>)
           /\ \A k \in {0, 1} : Kept(p, r, <<"me", "0F", k>>, <<"me", "0F">>, <<"0F", k = 1>>)
<1>1. ASSUME NEW f PROVE Kept(p, r, <<"me", "05", f>>, <<"me", "03">>, <<"03", f>>)
  <2> DEFINE n == IF r.rx = 0 THEN [r EXCEPT !.a = f] ELSE [r EXCEPT !.b = f]
  <2>1. S!Icom(vfoB, r, <<"me", "05", f>>).rig = n
    BY <1>1 DEF S!Icom, S!Says, S!Quiet, S!Rejects, S!ACK, S!NAK
  <2>2. S!Icom(vfoB, n, <<"me", "03">>) = [rig |-> n, reply |-> <<"03", S!RxFreq(n)>>]
    <3> HIDE DEF n
    <3> QED
      BY <1>1 DEF S!Icom, S!Says, S!Quiet, S!Rejects, S!ACK, S!NAK
  <2>3. <<"03", S!RxFreq(n)>> = <<"03", f>>
    BY <1>1 DEF IsRig, RigFields, S!RxFreq
  <2> HIDE DEF n
  <2> QED
    BY <2>1, <2>2, <2>3 DEF Kept
<1>2. ASSUME NEW m \in S!IcomModes PROVE Kept(p, r, <<"me", "06", m>>, <<"me", "04">>, <<"04", m>>)
  <2> DEFINE n == [r EXCEPT !.mode = m]
  <2>1. S!Icom(vfoB, r, <<"me", "06", m>>).rig = n
    BY <1>2 DEF S!Icom, S!Says, S!Quiet, S!Rejects, S!ACK, S!NAK, S!Decoded
  <2>2. S!Icom(vfoB, n, <<"me", "04">>) = [rig |-> n, reply |-> <<"04", S!Coded(S!IcomModes, n.mode)>>]
    <3> HIDE DEF n
    <3> QED
      BY <1>2 DEF S!Icom, S!Says, S!Quiet, S!Rejects, S!ACK, S!NAK
  <2>3. <<"04", S!Coded(S!IcomModes, n.mode)>> = <<"04", m>>
    BY <1>2 DEF IsRig, RigFields, S!Coded
  <2> HIDE DEF n
  <2> QED
    BY <2>1, <2>2, <2>3 DEF Kept
<1>3. ASSUME NEW k \in {0, 1} PROVE Kept(p, r, <<"me", "0F", k>>, <<"me", "0F">>, <<"0F", k = 1>>)
  <2> DEFINE n == [r EXCEPT !.tx = IF k = 1 THEN 1 - r.rx ELSE r.rx]
  <2>1. S!Icom(vfoB, r, <<"me", "0F", k>>).rig = n
    BY <1>3 DEF S!Icom, S!Says, S!Quiet, S!Rejects, S!ACK, S!NAK
  <2>2. S!Icom(vfoB, n, <<"me", "0F">>) = [rig |-> n, reply |-> <<"0F", S!Split(n)>>]
    <3> HIDE DEF n
    <3> QED
      BY <1>3 DEF S!Icom, S!Says, S!Quiet, S!Rejects, S!ACK, S!NAK
  <2>3. <<"0F", S!Split(n)>> = <<"0F", k = 1>>
    BY <1>3 DEF IsRig, RigFields, S!ToggleSplit, S!Split, S!Vfo
  <2> HIDE DEF n
  <2> QED
    BY <2>1, <2>2, <2>3 DEF Kept
<1> QED
  BY <1>1, <1>2, <1>3

\* Of an Icom with the extended VFO commands, either VFO.
LEMMA VfoReads ==
    ASSUME NEW r, IsRig(r),
           NEW p, \A d, c : S!Handle(p, d, c) = S!Icom(TRUE, d, c)
    PROVE  /\ \A v \in S!Vfo : \A f : Kept(p, r, <<"me", "25", v, f>>, <<"me", "25", v>>, <<"25", v, f>>)
<1>1. ASSUME NEW v \in S!Vfo, NEW f PROVE Kept(p, r, <<"me", "25", v, f>>, <<"me", "25", v>>, <<"25", v, f>>)
  <2> DEFINE n == IF v = 0 THEN [r EXCEPT !.a = f] ELSE [r EXCEPT !.b = f]
  <2>1. S!Icom(TRUE, r, <<"me", "25", v, f>>).rig = n
    BY <1>1 DEF S!Icom, S!Says, S!Quiet, S!Rejects, S!ACK, S!NAK, S!Vfo
  <2>2. S!Icom(TRUE, n, <<"me", "25", v>>) = [rig |-> n, reply |-> <<"25", v, IF v = 0 THEN n.a ELSE n.b>>]
    <3> HIDE DEF n
    <3> QED
      BY <1>1 DEF S!Icom, S!Says, S!Quiet, S!Rejects, S!ACK, S!NAK, S!Vfo
  <2>3. <<"25", v, IF v = 0 THEN n.a ELSE n.b>> = <<"25", v, f>>
    BY <1>1 DEF IsRig, RigFields, S!Vfo
  <2> HIDE DEF n
  <2> QED
    BY <2>1, <2>2, <2>3 DEF Kept
<1> QED
  BY <1>1

\* Of a TS-890 and its sibling.
LEMMA TS890Reads ==
    ASSUME NEW legacyIf \in BOOLEAN, NEW r, IsRig(r),
           NEW p, \A d, c : S!Handle(p, d, c) = S!TS890(legacyIf, d, c)
    PROVE  /\ \A f : Kept(p, r, <<"FA", f>>, <<"FA">>, <<"FA", f>>)
           /\ \A f : Kept(p, r, <<"FB", f>>, <<"FB">>, <<"FB", f>>)
           /\ \A v : Kept(p, r, <<"FR", v>>, <<"FR">>, <<"FR", v>>)
           /\ \A v : Kept(p, r, <<"FT", v>>, <<"FT">>, <<"FT", v>>)
           /\ \A k \in {0, 1} : Kept(p, r, <<"RT", k>>, <<"RT">>, <<"RT", k = 1>>)
           /\ \A k \in {0, 1} : Kept(p, r, <<"XT", k>>, <<"XT">>, <<"XT", k = 1>>)
           /\ \A k \in {0, 1} : Kept(p, r, <<"TB", k>>, <<"TB">>, <<"TB", k = 1>>)
           /\ \A m \in S!KenwoodModes : Kept(p, r, <<"OM0", m>>, <<"OM0">>, <<"OM0", m>>)
           /\ \A m \in S!KenwoodModes : Kept(p, r, <<"OM1", m>>, <<"OM1">>, <<"OM1", m>>)
<1>1. ASSUME NEW f PROVE Kept(p, r, <<"FA", f>>, <<"FA">>, <<"FA", f>>)
  <2> DEFINE n == [r EXCEPT !.a = f]
  <2>1. S!TS890(legacyIf, r, <<"FA", f>>).rig = n
    BY <1>1 DEF S!TS890, S!TS890Set, S!TS890Told, S!Says, S!Quiet, S!Rejects, S!Clarifier, S!Heads890
  <2>2. S!TS890(legacyIf, n, <<"FA">>) = [rig |-> n, reply |-> <<"FA", n.a>>]
    <3> HIDE DEF n
    <3> QED
      BY <1>1 DEF S!TS890, S!TS890Set, S!TS890Told, S!Says, S!Quiet, S!Rejects, S!Clarifier, S!Heads890
  <2>3. <<"FA", n.a>> = <<"FA", f>>
    BY <1>1 DEF IsRig, RigFields
  <2> HIDE DEF n
  <2> QED
    BY <2>1, <2>2, <2>3 DEF Kept
<1>2. ASSUME NEW f PROVE Kept(p, r, <<"FB", f>>, <<"FB">>, <<"FB", f>>)
  <2> DEFINE n == [r EXCEPT !.b = f]
  <2>1. S!TS890(legacyIf, r, <<"FB", f>>).rig = n
    BY <1>2 DEF S!TS890, S!TS890Set, S!TS890Told, S!Says, S!Quiet, S!Rejects, S!Clarifier, S!Heads890
  <2>2. S!TS890(legacyIf, n, <<"FB">>) = [rig |-> n, reply |-> <<"FB", n.b>>]
    <3> HIDE DEF n
    <3> QED
      BY <1>2 DEF S!TS890, S!TS890Set, S!TS890Told, S!Says, S!Quiet, S!Rejects, S!Clarifier, S!Heads890
  <2>3. <<"FB", n.b>> = <<"FB", f>>
    BY <1>2 DEF IsRig, RigFields
  <2> HIDE DEF n
  <2> QED
    BY <2>1, <2>2, <2>3 DEF Kept
<1>3. ASSUME NEW v PROVE Kept(p, r, <<"FR", v>>, <<"FR">>, <<"FR", v>>)
  <2> DEFINE n == [r EXCEPT !.rx = v]
  <2>1. S!TS890(legacyIf, r, <<"FR", v>>).rig = n
    BY <1>3 DEF S!TS890, S!TS890Set, S!TS890Told, S!Says, S!Quiet, S!Rejects, S!Clarifier, S!Heads890
  <2>2. S!TS890(legacyIf, n, <<"FR">>) = [rig |-> n, reply |-> <<"FR", n.rx>>]
    <3> HIDE DEF n
    <3> QED
      BY <1>3 DEF S!TS890, S!TS890Set, S!TS890Told, S!Says, S!Quiet, S!Rejects, S!Clarifier, S!Heads890
  <2>3. <<"FR", n.rx>> = <<"FR", v>>
    BY <1>3 DEF IsRig, RigFields
  <2> HIDE DEF n
  <2> QED
    BY <2>1, <2>2, <2>3 DEF Kept
<1>4. ASSUME NEW v PROVE Kept(p, r, <<"FT", v>>, <<"FT">>, <<"FT", v>>)
  <2> DEFINE n == [r EXCEPT !.tx = v]
  <2>1. S!TS890(legacyIf, r, <<"FT", v>>).rig = n
    BY <1>4 DEF S!TS890, S!TS890Set, S!TS890Told, S!Says, S!Quiet, S!Rejects, S!Clarifier, S!Heads890
  <2>2. S!TS890(legacyIf, n, <<"FT">>) = [rig |-> n, reply |-> <<"FT", n.tx>>]
    <3> HIDE DEF n
    <3> QED
      BY <1>4 DEF S!TS890, S!TS890Set, S!TS890Told, S!Says, S!Quiet, S!Rejects, S!Clarifier, S!Heads890
  <2>3. <<"FT", n.tx>> = <<"FT", v>>
    BY <1>4 DEF IsRig, RigFields
  <2> HIDE DEF n
  <2> QED
    BY <2>1, <2>2, <2>3 DEF Kept
<1>5. ASSUME NEW k \in {0, 1} PROVE Kept(p, r, <<"RT", k>>, <<"RT">>, <<"RT", k = 1>>)
  <2> DEFINE n == [r EXCEPT !.rit = (k = 1)]
  <2>1. S!TS890(legacyIf, r, <<"RT", k>>).rig = n
    BY <1>5 DEF S!TS890, S!TS890Set, S!TS890Told, S!Says, S!Quiet, S!Rejects, S!Clarifier, S!Heads890
  <2>2. S!TS890(legacyIf, n, <<"RT">>) = [rig |-> n, reply |-> <<"RT", n.rit>>]
    <3> HIDE DEF n
    <3> QED
      BY <1>5 DEF S!TS890, S!TS890Set, S!TS890Told, S!Says, S!Quiet, S!Rejects, S!Clarifier, S!Heads890
  <2>3. <<"RT", n.rit>> = <<"RT", k = 1>>
    BY <1>5 DEF IsRig, RigFields
  <2> HIDE DEF n
  <2> QED
    BY <2>1, <2>2, <2>3 DEF Kept
<1>6. ASSUME NEW k \in {0, 1} PROVE Kept(p, r, <<"XT", k>>, <<"XT">>, <<"XT", k = 1>>)
  <2> DEFINE n == [r EXCEPT !.xit = (k = 1)]
  <2>1. S!TS890(legacyIf, r, <<"XT", k>>).rig = n
    BY <1>6 DEF S!TS890, S!TS890Set, S!TS890Told, S!Says, S!Quiet, S!Rejects, S!Clarifier, S!Heads890
  <2>2. S!TS890(legacyIf, n, <<"XT">>) = [rig |-> n, reply |-> <<"XT", n.xit>>]
    <3> HIDE DEF n
    <3> QED
      BY <1>6 DEF S!TS890, S!TS890Set, S!TS890Told, S!Says, S!Quiet, S!Rejects, S!Clarifier, S!Heads890
  <2>3. <<"XT", n.xit>> = <<"XT", k = 1>>
    BY <1>6 DEF IsRig, RigFields
  <2> HIDE DEF n
  <2> QED
    BY <2>1, <2>2, <2>3 DEF Kept
<1>7. ASSUME NEW k \in {0, 1} PROVE Kept(p, r, <<"TB", k>>, <<"TB">>, <<"TB", k = 1>>)
  <2> DEFINE n == IF (k = 1) # S!Split(r) THEN S!ToggleSplit(r) ELSE r
  <2>1. S!TS890(legacyIf, r, <<"TB", k>>).rig = n
    BY <1>7 DEF S!TS890, S!TS890Set, S!TS890Told, S!Says, S!Quiet, S!Rejects, S!Clarifier, S!Heads890
  <2>2. S!TS890(legacyIf, n, <<"TB">>) = [rig |-> n, reply |-> <<"TB", S!Split(n)>>]
    <3> HIDE DEF n
    <3> QED
      BY <1>7 DEF S!TS890, S!TS890Set, S!TS890Told, S!Says, S!Quiet, S!Rejects, S!Clarifier, S!Heads890
  <2>3. <<"TB", S!Split(n)>> = <<"TB", k = 1>>
    BY <1>7 DEF IsRig, RigFields, S!ToggleSplit, S!Split, S!Vfo
  <2> HIDE DEF n
  <2> QED
    BY <2>1, <2>2, <2>3 DEF Kept
<1>8. ASSUME NEW m \in S!KenwoodModes PROVE Kept(p, r, <<"OM0", m>>, <<"OM0">>, <<"OM0", m>>)
  <2> DEFINE n == IF S!Physical(r, 0) = 0 THEN [r EXCEPT !.mode = m] ELSE [r EXCEPT !.modeB = m]
  <2>1. S!TS890(legacyIf, r, <<"OM0", m>>).rig = n
    BY <1>8 DEF S!TS890, S!TS890Set, S!TS890Told, S!Says, S!Quiet, S!Rejects,
                S!Clarifier, S!Heads890, S!SetModeOf, S!Coded
  <2>2. S!TS890(legacyIf, n, <<"OM0">>) = [rig |-> n, reply |-> <<"OM0", S!Om(n, 0)>>]
    <3> HIDE DEF n
    <3> QED
      BY <1>8 DEF S!TS890, S!TS890Set, S!TS890Told, S!Says, S!Quiet, S!Rejects, S!Clarifier, S!Heads890
  <2>3. <<"OM0", S!Om(n, 0)>> = <<"OM0", m>>
    BY <1>8 DEF IsRig, RigFields, S!Om, S!ModeOf, S!Physical, S!Coded, S!Vfo
  <2> HIDE DEF n
  <2> QED
    BY <2>1, <2>2, <2>3 DEF Kept
<1>9. ASSUME NEW m \in S!KenwoodModes PROVE Kept(p, r, <<"OM1", m>>, <<"OM1">>, <<"OM1", m>>)
  <2> DEFINE n == IF S!Physical(r, 1) = 0 THEN [r EXCEPT !.mode = m] ELSE [r EXCEPT !.modeB = m]
  <2>1. S!TS890(legacyIf, r, <<"OM1", m>>).rig = n
    BY <1>9 DEF S!TS890, S!TS890Set, S!TS890Told, S!Says, S!Quiet, S!Rejects,
                S!Clarifier, S!Heads890, S!SetModeOf, S!Coded
  <2>2. S!TS890(legacyIf, n, <<"OM1">>) = [rig |-> n, reply |-> <<"OM1", S!Om(n, 1)>>]
    <3> HIDE DEF n
    <3> QED
      BY <1>9 DEF S!TS890, S!TS890Set, S!TS890Told, S!Says, S!Quiet, S!Rejects, S!Clarifier, S!Heads890
  <2>3. <<"OM1", S!Om(n, 1)>> = <<"OM1", m>>
    BY <1>9 DEF IsRig, RigFields, S!Om, S!ModeOf, S!Physical, S!Coded, S!Vfo
  <2> HIDE DEF n
  <2> QED
    BY <2>1, <2>2, <2>3 DEF Kept
<1> QED
  BY <1>1, <1>2, <1>3, <1>4, <1>5, <1>6, <1>7, <1>8, <1>9

\* Of the port of simts450.
LEMMA Ts450Reads ==
    ASSUME NEW r, DOMAIN r = PortFields,
           NEW p, \A d, c : S!Handle(p, d, c) = S!Ts450(d, c)
    PROVE  /\ \A f : Kept(p, r, <<"FA", f>>, <<"FA">>, <<"FA", f>>)
           /\ \A f : Kept(p, r, <<"FB", f>>, <<"FB">>, <<"FB", f>>)
           /\ \A v : Kept(p, r, <<"FR", v>>, <<"FR">>, <<"FR", v>>)
           /\ \A v : Kept(p, r, <<"FT", v>>, <<"FT">>, <<"FT", v>>)
           /\ \A m : Kept(p, r, <<"MD", m>>, <<"MD">>, <<"MD", m>>)
<1>1. ASSUME NEW f PROVE Kept(p, r, <<"FA", f>>, <<"FA">>, <<"FA", f>>)
  <2> DEFINE n == [r EXCEPT !.a = f]
  <2>1. S!Ts450(r, <<"FA", f>>).rig = n
    BY <1>1 DEF S!Ts450, S!Says, S!Quiet, S!Ts450Fixed
  <2>2. S!Ts450(n, <<"FA">>) = [rig |-> n, reply |-> <<"FA", n.a>>]
    <3> HIDE DEF n
    <3> QED
      BY <1>1 DEF S!Ts450, S!Says, S!Quiet, S!Ts450Fixed
  <2>3. <<"FA", n.a>> = <<"FA", f>>
    BY <1>1 DEF PortFields
  <2> HIDE DEF n
  <2> QED
    BY <2>1, <2>2, <2>3 DEF Kept
<1>2. ASSUME NEW f PROVE Kept(p, r, <<"FB", f>>, <<"FB">>, <<"FB", f>>)
  <2> DEFINE n == [r EXCEPT !.b = f]
  <2>1. S!Ts450(r, <<"FB", f>>).rig = n
    BY <1>2 DEF S!Ts450, S!Says, S!Quiet, S!Ts450Fixed
  <2>2. S!Ts450(n, <<"FB">>) = [rig |-> n, reply |-> <<"FB", n.b>>]
    <3> HIDE DEF n
    <3> QED
      BY <1>2 DEF S!Ts450, S!Says, S!Quiet, S!Ts450Fixed
  <2>3. <<"FB", n.b>> = <<"FB", f>>
    BY <1>2 DEF PortFields
  <2> HIDE DEF n
  <2> QED
    BY <2>1, <2>2, <2>3 DEF Kept
<1>3. ASSUME NEW v PROVE Kept(p, r, <<"FR", v>>, <<"FR">>, <<"FR", v>>)
  <2> DEFINE n == [r EXCEPT !.rx = v]
  <2>1. S!Ts450(r, <<"FR", v>>).rig = n
    BY <1>3 DEF S!Ts450, S!Says, S!Quiet, S!Ts450Fixed
  <2>2. S!Ts450(n, <<"FR">>) = [rig |-> n, reply |-> <<"FR", n.rx>>]
    <3> HIDE DEF n
    <3> QED
      BY <1>3 DEF S!Ts450, S!Says, S!Quiet, S!Ts450Fixed
  <2>3. <<"FR", n.rx>> = <<"FR", v>>
    BY <1>3 DEF PortFields
  <2> HIDE DEF n
  <2> QED
    BY <2>1, <2>2, <2>3 DEF Kept
<1>4. ASSUME NEW v PROVE Kept(p, r, <<"FT", v>>, <<"FT">>, <<"FT", v>>)
  <2> DEFINE n == [r EXCEPT !.tx = v]
  <2>1. S!Ts450(r, <<"FT", v>>).rig = n
    BY <1>4 DEF S!Ts450, S!Says, S!Quiet, S!Ts450Fixed
  <2>2. S!Ts450(n, <<"FT">>) = [rig |-> n, reply |-> <<"FT", n.tx>>]
    <3> HIDE DEF n
    <3> QED
      BY <1>4 DEF S!Ts450, S!Says, S!Quiet, S!Ts450Fixed
  <2>3. <<"FT", n.tx>> = <<"FT", v>>
    BY <1>4 DEF PortFields
  <2> HIDE DEF n
  <2> QED
    BY <2>1, <2>2, <2>3 DEF Kept
<1>5. ASSUME NEW m PROVE Kept(p, r, <<"MD", m>>, <<"MD">>, <<"MD", m>>)
  <2> DEFINE n == [r EXCEPT !.mode = m]
  <2>1. S!Ts450(r, <<"MD", m>>).rig = n
    BY <1>5 DEF S!Ts450, S!Says, S!Quiet, S!Ts450Fixed
  <2>2. S!Ts450(n, <<"MD">>) = [rig |-> n, reply |-> <<"MD", n.mode>>]
    <3> HIDE DEF n
    <3> QED
      BY <1>5 DEF S!Ts450, S!Says, S!Quiet, S!Ts450Fixed
  <2>3. <<"MD", n.mode>> = <<"MD", m>>
    BY <1>5 DEF PortFields
  <2> HIDE DEF n
  <2> QED
    BY <2>1, <2>2, <2>3 DEF Kept
<1> QED
  BY <1>1, <1>2, <1>3, <1>4, <1>5

\* The port keeps its variables.
LEMMA Ts450Keeps ==
    ASSUME NEW r, DOMAIN r = PortFields, NEW c
    PROVE  DOMAIN S!Ts450(r, c).rig = PortFields
<1> DEFINE h == c[1]
           n == S!Ts450(r, c).rig
<1>1. ASSUME NEW f, NEW v, n = r \/ Sets(r, n, f, v) PROVE DOMAIN n = PortFields
  BY <1>1 DEF Sets
<1>2. CASE h \in {"FA", "FB"}
  <2>1. n = r \/ Sets(r, n, "a", c[2]) \/ Sets(r, n, "b", c[2])
    BY <1>2 DEF S!Ts450, S!Says, S!Quiet, S!Ts450Fixed, Sets
  <2> QED
    BY <1>1, <2>1
<1>3. CASE h = "MD"
  <2>1. n = r \/ Sets(r, n, "mode", c[2])
    BY <1>3 DEF S!Ts450, S!Says, S!Quiet, S!Ts450Fixed, Sets
  <2> QED
    BY <1>1, <2>1
<1>4. CASE h \in {"FL", "DA"}
  <2>1. n = r \/ Sets(r, n, "filter", c[2]) \/ Sets(r, n, "data", c[2])
    BY <1>4 DEF S!Ts450, S!Says, S!Quiet, S!Ts450Fixed, Sets
  <2> QED
    BY <1>1, <2>1
<1>5. CASE h \in {"FR", "FT"}
  <2>1. n = r \/ Sets(r, n, "rx", c[2]) \/ Sets(r, n, "tx", c[2])
    BY <1>5 DEF S!Ts450, S!Says, S!Quiet, S!Ts450Fixed, Sets
  <2> QED
    BY <1>1, <2>1
<1>6. CASE h = "SF"
  <2>1. n = r \/ Sets(r, n, "mode", c[3]) \/ Sets(r, n, "modeB", c[3])
    BY <1>6 DEF S!Ts450, S!Says, S!Quiet, S!Ts450Fixed, Sets
  <2> QED
    BY <1>1, <2>1
<1>7. CASE h = "TX"
  <2>1. PICK v \in BOOLEAN : v <=> ~(Len(c) > 1)
    OBVIOUS
  <2>2. Sets(r, n, "ptt", v)
    BY <1>7, <2>1 DEF S!Ts450, S!Says, S!Quiet, S!Ts450Fixed, Sets
  <2> QED
    BY <1>1, <2>2
<1>8. CASE h = "EX032"
  <2>1. n = r \/ Sets(r, n, "ant", (r.ant + 1) % 3)
    BY <1>8 DEF S!Ts450, S!Says, S!Quiet, S!Ts450Fixed, Sets
  <2> QED
    BY <1>1, <2>1
<1>9. CASE h \notin {"FA", "FB", "MD", "FL", "DA", "FR", "FT", "SF", "TX", "EX032"}
  <2>1. n = r
    BY <1>9 DEF S!Ts450, S!Says, S!Quiet, S!Ts450Fixed
  <2> QED
    BY <2>1
<1> QED
  BY <1>2, <1>3, <1>4, <1>5, <1>6, <1>7, <1>8, <1>9

\* The radio running has its fields, its VFOs are two, and a Yaesu receives on the first.
YaesuNames == {"FT991", "FTDX10"}
RadioInv ==
    /\ model \in S!Personalities
    /\ model # "HL-TS450" => IsRig(simRig)
    /\ model \in YaesuNames => simRig.rx = 0
    /\ DOMAIN port = PortFields

\* A new radio.
LEMMA RadioStarts == S!Init => RadioInv
<1> SUFFICES ASSUME S!Init PROVE RadioInv
  OBVIOUS
<1>1. PICK f \in Freqs : simRig = S!NewRig(f, f, "CW")
  BY DEF S!Init
<1>2. IsRig(simRig) /\ simRig.rx = 0
  BY <1>1 DEF S!NewRig, IsRig, RigFields, S!Vfo
<1>3. DOMAIN port = PortFields
  BY DEF S!Init, S!NewPort, PortFields
<1>4. model \in S!Personalities
  BY RadiosAssumption DEF S!Init
<1> QED
  BY <1>2, <1>3, <1>4 DEF RadioInv

\* The commands sent name one of two VFOs.
LEMMA CommandsNameVfos ==
    ASSUME NEW c \in S!Commands, model \in {"TS590", "K4"} \/ S!Is890(model)
    PROVE  NamesVfo(c)
<1>1. CASE c \in S!Others
  BY <1>1 DEF S!Others, S!Is890, NamesVfo, S!Vfo
<1>2. CASE \E x \in S!ReadBacks : c \in {x[1], x[2]}
  <2>1. PICK x \in S!ReadBacks : c \in {x[1], x[2]}
    BY <1>2
  <2>2. PICK h, v, t : x = <<<<h, v>>, <<h>>, t>> /\ (h \in {"FR", "FT"} => v \in S!Vfo)
    BY <2>1 DEF S!ReadBacks, S!Is890, S!Tunes, S!Modes, S!Switches, S!Vfos
  <2> QED
    BY <2>1, <2>2 DEF NamesVfo
<1> QED
  BY <1>1, <1>2 DEF S!Commands

\* The driver's commands.
LEMMA AnswerKeepsRadio ==
    ASSUME RadioInv, NEW c \in S!Commands, S!Answer(c)
    PROVE  RadioInv'
<1> DEFINE n == S!Handle(model, S!Core, c).rig
<1>1. /\ model' = model
      /\ model = "HL-TS450" => port' = n
      /\ model # "HL-TS450" => port' = port /\ simRig' = n
  BY DEF S!Answer
<1>2. model # "HL-TS450" => S!Core = simRig /\ IsRig(simRig)
  BY DEF S!Core, RadioInv
<1>3. CASE model = "TS590"
  BY <1>1, <1>2, <1>3, CommandsNameVfos, KenwoodKeeps DEF RadioInv, S!Handle, YaesuNames
<1>4. CASE model = "K4"
  BY <1>1, <1>2, <1>4, CommandsNameVfos, ElecraftKeeps DEF RadioInv, S!Handle, YaesuNames
<1>5. CASE model \in YaesuNames
  <2>1. PICK modes : S!Handle(model, S!Core, c) = S!Yaesu(modes, S!Core, c)
    BY <1>5 DEF S!Handle, YaesuNames
  <2>2. IsRig(n) /\ n.rx = simRig.rx
    BY <1>2, <1>5, <2>1, YaesuKeeps DEF YaesuNames
  <2> QED
    BY <1>1, <1>5, <2>2 DEF RadioInv, YaesuNames
<1>6. CASE model \in {"IC7300", "IC7000"}
  BY <1>1, <1>2, <1>6, IcomKeeps DEF RadioInv, S!Handle, YaesuNames
<1>7. CASE S!Is890(model)
  <2>1. model \in {"TS890", "TS990"}
    BY <1>7 DEF S!Is890
  <2>2. n = S!TS890(TRUE, simRig, c) .rig \/ n = S!TS890(FALSE, simRig, c).rig
    BY <1>2, <2>1 DEF S!Handle
  <2>3. IsRig(n)
    BY <1>2, <1>7, <2>1, <2>2, CommandsNameVfos, TS890Keeps
  <2> QED
    BY <1>1, <2>1, <2>3 DEF RadioInv, YaesuNames
<1>8. CASE model = "HL-TS450"
  <2>1. n = S!Ts450(port, c).rig
    BY <1>8 DEF S!Handle, S!Core
  <2> QED
    BY <1>1, <1>8, <2>1, Ts450Keeps DEF RadioInv, YaesuNames
<1> QED
  BY <1>3, <1>4, <1>5, <1>6, <1>7, <1>8 DEF RadioInv, S!Personalities, S!Is890, YaesuNames

\* The console's keys.
LEMMA KeysKeepRadio ==
    ASSUME RadioInv, S!KeyF \/ S!KeyB \/ S!KeyM \/ S!KeyO \/ S!KeyS \/ S!KeyR \/ S!KeyX \/ S!KeyT
    PROVE  RadioInv'
<1>1. ASSUME NEW n, S!Key(n), IsRig(simRig) => IsRig(n) /\ n.rx = simRig.rx
      PROVE  RadioInv'
  BY <1>1 DEF S!Key, RadioInv, YaesuNames
<1>2. ASSUME NEW n, NEW f, NEW v, S!Key(n), Sets(simRig, n, f, v), f \notin {"rx", "tx"} PROVE RadioInv'
  BY <1>1, <1>2, FieldSet
<1>3. CASE S!KeyF
  BY <1>2, <1>3 DEF S!KeyF, Sets
<1>4. CASE S!KeyB
  BY <1>2, <1>4 DEF S!KeyB, Sets
<1>5. CASE S!KeyM
  BY <1>2, <1>5 DEF S!KeyM, Sets
<1>6. CASE S!KeyO
  BY <1>2, <1>6 DEF S!KeyO, Sets
<1>7. CASE S!KeyS
  BY <1>1, <1>7, Toggled DEF S!KeyS
<1>8. CASE S!KeyR
  <2>1. Sets(simRig, [simRig EXCEPT !.rit = ~@], "rit", ~simRig.rit)
    BY DEF Sets
  <2> QED
    BY <1>2, <1>8, <2>1 DEF S!KeyR
<1>9. CASE S!KeyX
  <2>1. Sets(simRig, [simRig EXCEPT !.xit = ~@], "xit", ~simRig.xit)
    BY DEF Sets
  <2> QED
    BY <1>2, <1>9, <2>1 DEF S!KeyX
<1>10. CASE S!KeyT
  BY <1>2, <1>10 DEF S!KeyT, Sets
<1> QED
  BY <1>3, <1>4, <1>5, <1>6, <1>7, <1>8, <1>9, <1>10

\* Every step.
LEMMA RadioKeepsFields == RadioInv /\ (S!Next \/ UNCHANGED simVars) => RadioInv'
<1> SUFFICES ASSUME RadioInv, S!Next \/ UNCHANGED simVars PROVE RadioInv'
  OBVIOUS
<1>1. CASE UNCHANGED <<model, simRig, port>>
  BY <1>1 DEF RadioInv
<1>2. CASE S!Read \/ S!Push \/ S!Format \/ S!NextRead \/ S!Link \/ UNCHANGED simVars
  BY <1>1, <1>2 DEF S!Read, S!Push, S!Format, S!NextRead, S!Link, simVars
<1> QED
  BY <1>2, AnswerKeepsRadio, KeysKeepRadio DEF S!Next

\* Every set of every personality.
LEMMA AllReadBack == ASSUME RadioInv PROVE S!SetsReadBack
<1>1. SUFFICES ASSUME NEW x \in S!ReadBacks PROVE Kept(model, S!Core, x[1], x[2], x[3])
  BY DEF S!SetsReadBack, Kept
<1>2. model # "HL-TS450" => S!Core = simRig /\ IsRig(simRig)
  BY DEF S!Core, RadioInv
<1>3. CASE model = "TS590"
  <2>1. \A r, c : S!Handle(model, r, c) = S!Kenwood(r, c)
    BY <1>3 DEF S!Handle
  <2>2. x \in S!Tunes("FA") \cup S!Tunes("FB") \cup S!Modes("MD", S!KenwoodModes)
    BY <1>3 DEF S!ReadBacks, S!Is890
  <2> QED
    BY <1>2, <1>3, <2>1, <2>2, KenwoodReads DEF S!Tunes, S!Modes
<1>4. CASE model = "K4"
  <2>1. \A r, c : S!Handle(model, r, c) = S!Elecraft(r, c)
    BY <1>4 DEF S!Handle
  <2>2. x \in S!Tunes("FA") \cup S!Tunes("FB") \cup S!Modes("MD", S!ElecraftModes) \cup S!Modes("MD$", S!ElecraftModes)
    BY <1>4 DEF S!ReadBacks, S!Is890
  <2> QED
    BY <1>2, <1>4, <2>1, <2>2, ElecraftReads DEF S!Tunes, S!Modes
<1>5. CASE model \in YaesuNames
  <2> DEFINE modes == IF model = "FT991" THEN S!Type3Modes ELSE S!Type5Modes
  <2>1. \A r, c : S!Handle(model, r, c) = S!Yaesu(modes, r, c)
    BY <1>5 DEF S!Handle, YaesuNames
  <2>2. x \in S!Tunes("FA") \cup S!Tunes("FB") \cup S!Modes("MD", modes)
               \cup {<<<<"FT", 3>>, <<"FT">>, <<"FT", 1>>>>, <<<<"FT", 2>>, <<"FT">>, <<"FT", 0>>>>}
               \cup S!Switches("TX")
    BY <1>5 DEF S!ReadBacks, S!Is890, YaesuNames
  <2>3. simRig.rx = 0
    BY <1>5 DEF RadioInv
  <2> HIDE DEF modes
  <2>4. S!Core = simRig /\ IsRig(simRig)
    BY <1>2, <1>5 DEF YaesuNames
  <2>5. CASE x \in S!Tunes("FA") \cup S!Tunes("FB")
    <3>1. PICK h \in {"FA", "FB"}, f \in Freqs : x = <<<<h, f>>, <<h>>, <<h, f>>>>
      BY <2>5 DEF S!Tunes
    <3>2. /\ Kept(model, simRig, <<"FA", f>>, <<"FA">>, <<"FA", f>>)
          /\ Kept(model, simRig, <<"FB", f>>, <<"FB">>, <<"FB", f>>)
      BY <2>1, <2>3, <2>4, YaesuReads
    <3> QED
      BY <2>4, <3>1, <3>2
  <2>9. CASE x \in S!Modes("MD", modes)
    <3>1. PICK m \in modes : x = <<<<"MD", m>>, <<"MD">>, <<"MD", m>>>>
      BY <2>9 DEF S!Modes
    <3>2. Kept(model, simRig, <<"MD", m>>, <<"MD">>, <<"MD", m>>)
      BY <2>1, <2>3, <2>4, YaesuReads
    <3> QED
      BY <2>4, <3>1, <3>2
  <2>6. CASE x \in S!Switches("TX")
    BY <2>1, <2>3, <2>4, <2>6, YaesuReads DEF S!Switches
  <2>7. CASE x = <<<<"FT", 3>>, <<"FT">>, <<"FT", 1>>>>
    BY <2>1, <2>3, <2>4, <2>7, YaesuReads
  <2>8. CASE x = <<<<"FT", 2>>, <<"FT">>, <<"FT", 0>>>>
    BY <2>1, <2>3, <2>4, <2>8, YaesuReads
  <2> QED
    BY <2>2, <2>5, <2>6, <2>7, <2>8, <2>9
<1>6. CASE model \in {"IC7300", "IC7000"}
  <2> DEFINE plain  == {<<<<"me", "05", f>>, <<"me", "03">>, <<"03", f>>>> : f \in Freqs}
                       \cup {<<<<"me", "06", m>>, <<"me", "04">>, <<"04", m>>>> : m \in ModeNames \cap S!IcomModes}
                       \cup {<<<<"me", "0F", n>>, <<"me", "0F">>, <<"0F", n = 1>>>> : n \in {0, 1}}
             either == {<<<<"me", "25", v, f>>, <<"me", "25", v>>, <<"25", v, f>>>> : v \in S!Vfo, f \in Freqs}
  <2>1. PICK vfoB \in BOOLEAN : vfoB <=> model = "IC7300"
    OBVIOUS
  <2>2. \A r, c : S!Handle(model, r, c) = S!Icom(vfoB, r, c)
    BY <1>6, <2>1 DEF S!Handle
  <2>3. x \in plain
        \/ /\ vfoB = TRUE
           /\ x \in either
    BY <1>6, <2>1 DEF S!ReadBacks, S!Is890
  <2>4. simRig = S!Core /\ IsRig(simRig)
    BY <1>2, <1>6
  <2>5. CASE x \in plain
    BY <2>2, <2>4, <2>5, IcomReads
  <2>6. CASE /\ vfoB = TRUE
             /\ x \in either
    <3>1. PICK v \in S!Vfo, f \in Freqs : x = <<<<"me", "25", v, f>>, <<"me", "25", v>>, <<"25", v, f>>>>
      BY <2>6
    <3>2. \A r, c : S!Handle(model, r, c) = S!Icom(TRUE, r, c)
      BY <2>2, <2>6
    <3>3. Kept(model, simRig, <<"me", "25", v, f>>, <<"me", "25", v>>, <<"25", v, f>>)
      BY <2>4, <3>2, VfoReads
    <3> QED
      BY <2>4, <3>1, <3>3
  <2> HIDE DEF plain, either
  <2> QED
    BY <2>3, <2>5, <2>6
<1>7. CASE S!Is890(model)
  <2>1. PICK legacyIf \in BOOLEAN : legacyIf <=> model = "TS890"
    OBVIOUS
  <2>2. \A r, c : S!Handle(model, r, c) = S!TS890(legacyIf, r, c)
    BY <1>7, <2>1 DEF S!Handle, S!Is890
  <2>3. x \in S!Tunes("FA") \cup S!Tunes("FB") \cup S!Vfos("FR") \cup S!Vfos("FT")
              \cup S!Switches("RT") \cup S!Switches("XT") \cup S!Switches("TB")
              \cup S!Modes("OM0", S!KenwoodModes) \cup S!Modes("OM1", S!KenwoodModes)
    BY <1>7 DEF S!ReadBacks, S!Is890
  <2>4. simRig = S!Core /\ IsRig(simRig)
    BY <1>2, <1>7 DEF S!Is890
  <2> QED
    BY <2>2, <2>3, <2>4, TS890Reads, SMTT(40) DEF S!Tunes, S!Vfos, S!Switches, S!Modes
<1>8. CASE model = "HL-TS450"
  <2>1. \A r, c : S!Handle(model, r, c) = S!Ts450(r, c)
    BY <1>8 DEF S!Handle
  <2>2. x \in S!Tunes("FA") \cup S!Tunes("FB") \cup S!Vfos("FR") \cup S!Vfos("FT") \cup S!Modes("MD", ModeNames)
    BY <1>8 DEF S!ReadBacks, S!Is890
  <2>3. S!Core = port /\ DOMAIN port = PortFields
    BY <1>8 DEF S!Core, RadioInv
  <2> QED
    BY <2>1, <2>2, <2>3, Ts450Reads DEF S!Tunes, S!Vfos, S!Modes
<1> QED
  BY <1>3, <1>4, <1>5, <1>6, <1>7, <1>8 DEF RadioInv, S!Personalities, S!Is890, YaesuNames

------------------------------------------------------------------------------
\* The sum of the tools

\* While the watcher runs its invariant holds.
LEMMA WatchInvariant == MCSpec => [](tool = "watch" => WatchInv)
<1> DEFINE I == tool = "watch" => WatchInv
<1>1. MCInit => I
  BY WatchStarts DEF MCInit
<1>2. I /\ [MCNext]_allVars => I'
  <2> SUFFICES ASSUME I, [MCNext]_allVars, tool' = "watch" PROVE WatchInv'
    OBVIOUS
  <2>1. tool = "watch" /\ (Next \/ UNCHANGED vars)
    BY DEF MCNext, allVars
  <2> QED
    BY <2>1, WatchKeepsInv
<1> QED
  BY <1>1, <1>2, PTL DEF MCSpec

\* While the simulated radio runs its invariant holds.
LEMMA PushInvariant == MCSpec => [](tool = "sim" => PushInv)
<1> DEFINE I == tool = "sim" => PushInv
<1>1. MCInit => I
  BY PushStarts DEF MCInit
<1>2. I /\ [MCNext]_allVars => I'
  <2> SUFFICES ASSUME I, [MCNext]_allVars, tool' = "sim" PROVE PushInv'
    OBVIOUS
  <2>1. tool = "sim" /\ (S!Next \/ UNCHANGED simVars)
    BY DEF MCNext, allVars
  <2> QED
    BY <2>1, RadioKeepsPush
<1> QED
  BY <1>1, <1>2, PTL DEF MCSpec

\* Whatever ends k3watch.py once it has given its RX;, a rig that obeys ends in
\* receive whatever still waits in it; and when it has confirmed that the rig
\* receives, a rig that has handled everything receives unless two things went
\* wrong: for every way to poll, every level and key time, every moment the tool is
\* interrupted, and however late the rig is.
THEOREM ConfirmedMeansReceiveAlways == MCSpec => []ConfirmedMeansReceive
<1>1. (tool = "watch" => WatchInv) => ConfirmedMeansReceive
  <2> SUFFICES ASSUME WatchInv PROVE ConfirmedInReceive
    BY DEF ConfirmedMeansReceive
  <2>1. GotTo({"ask", "look"}) /\ faults = 0 => ReceivesAtRest
    BY DEF WatchInv, UnkeyOnItsWay
  <2>2. said.tx = "confirmed" /\ cmds = <<>> /\ faults <= 1 => ~rig.tx
    BY DEF WatchInv, WatchTypes, ConfirmedAtTheEnd
  <2> QED
    BY <2>1, <2>2 DEF ConfirmedInReceive
<1> QED
  BY <1>1, WatchInvariant, PTL

\* Whatever ends k3watch.py, the rig has the auto-info level it was found with, or
\* will have when it has handled what waits, wherever the tool knew of one; unless
\* a Ctrl-C falls before the try or, a second one, before the level is written back.
\* And what it says was restored is: whatever is ignored, lost or late.
THEOREM AiLevelComesBackAlways == MCSpec => []AiLevelComesBack
<1>1. (tool = "watch" => WatchInv) => AiLevelComesBack
  <2> SUFFICES ASSUME WatchInv, opts.ai # NotAsked, originalAi # Unknown
               PROVE  /\ GotTo(Restored) => LevelAtRest(opts.found)
                      /\ said.ai = "restored" => rig.ai = opts.found
    BY DEF AiLevelComesBack, LevelComesBack, Restored
  <2>1. originalAi = opts.found
    BY DEF WatchInv, WatchTypes
  <2>2. GotTo(Restored) => LevelAtRest(originalAi)
    BY DEF WatchInv, LevelOnItsWay
  <2>3. said.ai = "restored" => rig.ai = originalAi
    BY DEF WatchInv, LevelBelieved, IsBack
  <2> QED
    BY <2>1, <2>2, <2>3
<1> QED
  BY <1>1, WatchInvariant, PTL

\* What a simulated TS-890 has told the driver since AI is the radio's state
\* between two rounds of the reader, however the commands of the driver and the
\* keys of the console fall between its steps, unless a change was taken back.
THEOREM StaleOnlyIfTakenBackAlways == MCSpec => []StaleOnlyIfTakenBack
<1>1. (tool = "sim" => PushInv) => StaleOnlyIfTakenBack
  <2> SUFFICES ASSUME PushInv, S!Is890(model), simRig.ai > 0, simAt = "read", ~undone, pushed = S!Snapshot(simRig),
                      NEW h \in S!Heads890
               PROVE  heard[h] \in {<<>>, <<S!TS890Told(simRig, h)>>}
    BY DEF StaleOnlyIfTakenBack, S!StaleOnlyIfTakenBack
  <2>1. due = <<>> /\ WillBeTold(h, simRig, pushed, due)
    BY DEF PushInv
  <2>2. ~Contains(due, h)
    BY <2>1 DEF Contains
  <2> QED
    BY <2>1, <2>2 DEF WillBeTold
<1> QED
  BY <1>1, PushInvariant, PTL

\* What a driver sets of a simulated radio its query reads back, and a query changes nothing,
\* for all nine personalities, whatever commands and keys have come before.
THEOREM SetsReadBackAlways == MCSpec => []SetsReadBack
<1> DEFINE I == tool = "sim" => RadioInv
<1>1. MCInit => I
  BY RadioStarts DEF MCInit
<1>2. I /\ [MCNext]_allVars => I'
  <2> SUFFICES ASSUME I, [MCNext]_allVars, tool' = "sim" PROVE RadioInv'
    OBVIOUS
  <2>1. tool = "sim" /\ (S!Next \/ UNCHANGED simVars)
    BY DEF MCNext, allVars
  <2> QED
    BY <2>1, RadioKeepsFields
<1>3. I => SetsReadBack
  BY AllReadBack DEF SetsReadBack
<1> QED
  BY <1>1, <1>2, <1>3, PTL DEF MCSpec

\* If no more than one order is ignored or one answer lost, a prompt rig transmits no
\* longer than was asked and a bounded number of turns more: for every way to
\* poll, every key time, and every moment the fault happens.
THEOREM KeyedForABoundedTimeAlways ==
    ASSUME MaxFaults <= 1
    PROVE  MCSpec => []KeyedForABoundedTime
<1> DEFINE I == tool = "watch" => WatchInv /\ (opts.prompt => KeyInv)
<1>1. MCInit => I
  BY WatchStarts, KeyStarts DEF MCInit
<1>2. I /\ [MCNext]_allVars => I'
  <2> SUFFICES ASSUME I, [MCNext]_allVars, tool' = "watch"
               PROVE  WatchInv' /\ (opts'.prompt => KeyInv')
    OBVIOUS
  <2>1. tool = "watch" /\ (Next \/ UNCHANGED vars)
    BY DEF MCNext, allVars
  <2>2. opts' = opts
    BY <2>1, OptionsStay
  <2> QED
    BY <2>1, <2>2, WatchKeepsInv, WatchKeepsKey
<1>3. I => KeyedForABoundedTime
  BY WatchAssumption DEF KeyInv, KeyedForABoundedTime, TransmissionIsBounded, WatchSlack
<1> QED
  BY <1>1, <1>2, <1>3, PTL DEF MCSpec

==============================================================================
