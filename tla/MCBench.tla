------------------------------- MODULE MCBench -------------------------------
(***************************************************************************)
(* The tools that stand beside a rig, a server or a file and test or watch *)
(* it, each on its own: a behaviour is one of TransmitWatch, RadioSim,     *)
(* NetProbe or AdifValidator.  They share no state; the variables of the   *)
(* others stand still.                                                     *)
(***************************************************************************)
EXTENDS TransmitWatch

CONSTANTS Freqs, ModeNames, MaxShown, Models, MaxSent, MaxKeys, Lockout, Cases, Faults, TwoRecords, Lines

VARIABLES tool,
          model, simRig, port, answering, simAt, pushed, due, heard, undone, sent, keys,
          case, script, fault, step, server, written, inbox, eof, open, noted, base, results, early,
          file, meant, sound, at, adifState, adifTag, adifSize, adifType, adifValue, adifLen, inHeader, qso, records,
          unsaid, printed, crashed

S == INSTANCE RadioSim WITH rig <- simRig, at <- simAt
N == INSTANCE NetProbe
A == INSTANCE AdifValidator WITH written <- meant, pending <- unsaid

ASSUME RadiosAssumption == Models \subseteq S!Personalities

simVars   == <<model, simRig, port, answering, simAt, pushed, due, heard, undone, sent, keys>>
probeVars == <<case, script, fault, step, server, written, inbox, eof, open, noted, base, results, early>>
adifVars  == <<file, meant, sound, at, adifState, adifTag, adifSize, adifType, adifValue, adifLen, inHeader, qso, records,
               unsaid, printed, crashed>>
allVars   == <<tool, vars, simVars, probeVars, adifVars>>

Away == "away"
WatchAway ==
    /\ opts = Away /\ rig = Away /\ cmds = Away /\ line = Away /\ pc = Away /\ now = Away /\ buf = Away
    /\ pollBuf = Away /\ pending = Away /\ sentAt = Away /\ lastFlag = Away /\ keyAt = Away
    /\ unkeySent = Away /\ lastRetry = Away /\ originalAi = Away /\ tries = Away /\ said = Away
    /\ why = Away /\ faults = Away /\ overdue = Away /\ keyed = Away
SimAway ==
    /\ model = Away /\ simRig = Away /\ port = Away /\ answering = Away /\ simAt = Away /\ pushed = Away
    /\ due = Away /\ heard = Away /\ undone = Away /\ sent = Away /\ keys = Away
ProbeAway ==
    /\ case = Away /\ script = Away /\ fault = Away /\ step = Away /\ server = Away /\ written = Away /\ inbox = Away
    /\ eof = Away /\ open = Away /\ noted = Away /\ base = Away /\ results = Away /\ early = Away
AdifAway ==
    /\ file = Away /\ meant = Away /\ sound = Away /\ at = Away /\ adifState = Away /\ adifTag = Away
    /\ adifSize = Away /\ adifType = Away /\ adifValue = Away /\ adifLen = Away /\ inHeader = Away
    /\ qso = Away /\ records = Away /\ unsaid = Away /\ printed = Away /\ crashed = Away

MCInit == \/ tool = "watch" /\ Init /\ SimAway /\ ProbeAway /\ AdifAway
          \/ tool = "sim" /\ S!Init /\ WatchAway /\ ProbeAway /\ AdifAway
          \/ tool = "probe" /\ N!Init /\ WatchAway /\ SimAway /\ AdifAway
          \/ tool = "adif" /\ A!Init /\ WatchAway /\ SimAway /\ ProbeAway

MCNext == \/ tool = "watch" /\ Next /\ UNCHANGED <<tool, simVars, probeVars, adifVars>>
          \/ tool = "sim" /\ S!Next /\ UNCHANGED <<tool, vars, probeVars, adifVars>>
          \/ tool = "probe" /\ N!Next /\ UNCHANGED <<tool, vars, simVars, adifVars>>
          \/ tool = "adif" /\ A!Next /\ UNCHANGED <<tool, vars, simVars, probeVars>>

MCSpec == MCInit /\ [][MCNext]_allVars

\* Once k3watch's loop is over neither a step nor a property reads its variables:
\* the VIEW takes states that differ only in them for one.
LoopIsOver == pc \in {"aiBack", "aiAsk", "aiBelieve", "ensure", "ask", "look", "closed", "aborted"}
MCView == << tool, opts, rig, cmds, line, pc, originalAi, tries, said, why, faults, keyed,
             IF LoopIsOver THEN << >> ELSE <<now, overdue, loopVars>>,
             simVars, probeVars, adifVars >>

\* What k3watch confirms is so.
ConfirmedMeansReceive == tool = "watch" => ConfirmedInReceive

\* k3watch bounds the transmission.
KeyedForABoundedTime == tool = "watch" => TransmissionIsBounded

\* k3watch gives the rig its auto-info level back.
AiLevelComesBack == tool = "watch" => LevelComesBack

\* What the TS-890 pushed is out of date only after a change was taken back.
StaleOnlyIfTakenBack == tool = "sim" => S!StaleOnlyIfTakenBack

\* Whatever a driver sets in a simulated radio it reads back.
SetsReadBack == tool = "sim" => S!SetsReadBack

\* netprobe reports no failure of a server that keeps the protocol.
NoFalseAlarm == tool = "probe" => N!NoFalseAlarm

\* A case of netprobe finds the faults it is for.
FaultsAreFound == tool = "probe" => N!FaultsAreFound

\* The ADIF validator reads the records that were written.
RecordsReadBack == tool = "adif" => A!RecordsReadBack
==============================================================================
