------------------------------ MODULE NetProbe ------------------------------
(***************************************************************************)
(* tools/netprobe at work: one case is a script of steps run against a     *)
(* server over several connections, each with its own inbox; the server    *)
(* handles what was written whenever it gets round to it. A wait the tool  *)
(* makes long (its timeout, settle, a sleep before a download) outlasts a  *)
(* server that answers; a short one, made to see that nothing comes, may   *)
(* end before the server has done its part.                                *)
(***************************************************************************)
EXTENDS NetProbeCases

CONSTANTS Cases, Faults      \* cases run, kinds of server they are run against

VARIABLES case,      \* name of the case
          script,    \* its steps
          fault,     \* what is wrong with the server, or "none"
          step,      \* next step of the script
          server,
          written,   \* per connection: writes the server has not read
          inbox,     \* per connection: framed messages in arrival order
          eof,       \* connections the probe saw closed
          open,      \* connections the probe holds open
          noted,     \* a number the case measures others against
          base,      \* the download later ones are compared with
          results,   \* checks made: "PASS", "FAIL", "SKIP" by step
          early      \* a short wait ended with the server still at work

vars == <<case, script, fault, step, server, written, inbox, eof, open, noted, base, results, early>>
probe == <<step, noted, base, results, early>>
wire == <<server, written, inbox, eof, open>>

Probes == {"A", "B", "C", "D", "V1", "Q", "P1", "P3", "I0", "I27"}
OldLogs == {<<>>, << <<1, "W1AW">> >>}

Init ==
    /\ case \in Cases
    /\ script = ScriptOf(case)
    /\ fault \in Faults
    /\ \E log \in OldLogs : server = NewServer(log)
    /\ step = 1
    /\ written = [p \in Probes |-> <<>>]
    /\ inbox = [p \in Probes |-> <<>>]
    /\ eof = {}
    /\ open = {}
    /\ noted = 0
    /\ base = <<>>
    /\ results = <<>>
    /\ early = FALSE

\* Everything written has been handled, every close seen.
Quiet == \A p \in Probes : written[p] = <<>> /\ (p \in DOMAIN server.peers => p \in open)

\* What the server sends reaches every connection still open at both ends.
\* An id of no known size loses the framing: nothing behind it is framed.
Framed(got, m) == IF got # <<>> /\ Last(got).id = "?" THEN got ELSE Append(got, m)
Delivered(sent, to) ==
    [p \in Probes |->
        FoldLeft(LAMBDA got, w : IF w.to = p /\ p \in to THEN Framed(got, w.m) ELSE got, inbox[p], sent)]

Sends(d) ==
    /\ inbox' = Delivered(d.sent, open \ eof)
    /\ server' = d.server

\* The server reads one write of a client; a handler that asks for it has the
\* connection dropped, which the others are told.
ServerReads ==
    \E c \in Probes :
       /\ written[c] # <<>>
       /\ IF c \in DOMAIN server.peers
          THEN LET d == Process(server, c, Head(written[c]), fault)
                   e == IF d.drop THEN Depart(d.server, c, fault) ELSE Did(d.server, <<>>, FALSE)
               IN /\ Sends(Did(e.server, d.sent \o e.sent, FALSE))
                  /\ eof' = IF d.drop THEN eof \cup {c} ELSE eof
                  /\ written' = [written EXCEPT ![c] = IF d.drop THEN <<>> ELSE Tail(@)]
          ELSE /\ written' = [written EXCEPT ![c] = <<>>]
               /\ UNCHANGED <<server, inbox, eof>>
       /\ UNCHANGED <<case, script, fault, open, probe>>

ServerSeesClose ==
    \E c \in DOMAIN server.peers \ open :
       /\ written[c] = <<>>
       /\ Sends(Depart(server, c, fault))
       /\ UNCHANGED <<case, script, fault, written, eof, open, probe>>

(***************************************************************************)
(* The steps of a script.                                                  *)
(***************************************************************************)
Now == script[step]
Running == step <= Len(script)
At(op) == Running /\ Now.op = op
Same == UNCHANGED <<case, script, fault>>
Next1 == step' = step + 1

Record(ok) == results' = [s \in {step} |-> IF ok THEN "PASS" ELSE "FAIL"] @@ results
\* run_case: an exception of the socket or of the probe ends the case.
Error == /\ results' = [s \in {step} |-> "ERROR"] @@ results
         /\ step' = Len(script) + 1
Unmeasured == UNCHANGED <<noted, base>>
LongWait == early' = early
ShortWait == early' = (early \/ ~Quiet)

\* First message of p's inbox the step asks for, or 0.
Wanted(m) ==
    /\ m.id = Now.id
    /\ Now.x # Whatever => m.x = Now.x
    /\ Now.y # Whatever => m.y = Now.y
    /\ Now.text # "" => m.text = Now.text
Found(p) == SelectInSeq(inbox[p], Wanted)
Pop(p, i) == inbox' = [inbox EXCEPT ![p] = IF i = 0 THEN @ ELSE RemoveAt(@, i)]
Dead(p) == p \in eof

\* Probe.__init__, and claim_id when the step says so.
Open ==
    /\ At("open")
    /\ LET p == Now.p
           d == Admit(server, p)
       IN IF fault = "refuses the password"
          THEN /\ Error
               /\ UNCHANGED <<server, written, inbox, open>>
          ELSE /\ open' = open \cup {p}
               /\ server' = d.server
               /\ inbox' = Delivered(d.sent, (open \cup {p}) \ eof)
               /\ written' = [written EXCEPT ![p] = Now.msgs]
               /\ Next1
               /\ UNCHANGED results
    /\ Same /\ Unmeasured /\ UNCHANGED <<eof, early>>

\* settle, and a sleep: long enough for a server that is at work.
Settle ==
    /\ At("settle")
    /\ Quiet
    /\ Next1
    /\ Same /\ Unmeasured /\ UNCHANGED <<wire, results, early>>

\* One write, which the server gets as one read. On a link the server has closed
\* the first is taken by the system and lost, a later one raises: either may be.
Send ==
    /\ At("send")
    /\ \/ /\ Next1
          /\ written' = [written EXCEPT ![Now.p] = IF Dead(Now.p) THEN @ ELSE Append(@, Now.msgs)]
          /\ UNCHANGED results
       \/ /\ Dead(Now.p)
          /\ Error
          /\ UNCHANGED written
    /\ Same /\ Unmeasured /\ UNCHANGED <<server, inbox, eof, open, early>>

Close ==
    /\ At("close")
    /\ Next1
    /\ open' = open \ {Now.p}
    /\ Same /\ Unmeasured /\ UNCHANGED <<server, written, inbox, eof, results, early>>

\* take within the timeout: the message, or none once nothing can come.
Take ==
    /\ At("take")
    /\ LET i == Found(Now.p)
           ok == i # 0 /\ (Now.want = AnyMessage \/ inbox[Now.p][i] = [Now.want EXCEPT !.y = @ + noted])
       IN /\ i # 0 \/ Dead(Now.p) \/ Quiet
          /\ Pop(Now.p, i)
          /\ Record(ok)
    /\ Next1 /\ LongWait
    /\ Same /\ Unmeasured /\ UNCHANGED <<server, written, eof, open>>

\* take for a short time, to see that nothing comes ("none") or to be rid of it.
Glance ==
    /\ Running /\ Now.op \in {"none", "drain"}
    /\ LET i == Found(Now.p)
       IN /\ Pop(Now.p, i)
          /\ IF Now.op = "none" THEN Record(i = 0) ELSE UNCHANGED results
          /\ IF i = 0 THEN ShortWait ELSE LongWait
    /\ Next1
    /\ Same /\ Unmeasured /\ UNCHANGED <<server, written, eof, open>>

\* count: at least, or exactly, so many of the inbox (nothing is popped).
Count ==
    /\ At("count")
    /\ LET have == Cardinality({i \in DOMAIN inbox[Now.p] : Wanted(inbox[Now.p][i])})
       IN /\ have >= Now.n \/ Dead(Now.p) \/ Quiet
          /\ Record(IF Now.exact THEN have = Now.n ELSE have >= Now.n)
    /\ Next1 /\ LongWait
    /\ Same /\ Unmeasured /\ UNCHANGED wire

\* Drop from the inbox what an earlier part of the case left there.
Forget ==
    /\ At("forget")
    /\ inbox' = [inbox EXCEPT ![Now.p] = SelectSeq(@, LAMBDA m : ~Wanted(m))]
    /\ Next1
    /\ Same /\ Unmeasured /\ UNCHANGED <<server, written, eof, open, results, early>>

\* alive: an intercom line is sent, unless the link is known to be closed; the
\* step that follows takes any intercom line for the answer.
Ask ==
    /\ At("ask")
    /\ IF Dead(Now.p)
       THEN /\ Record(FALSE)
            /\ step' = step + 2
            /\ UNCHANGED written
       ELSE /\ written' = [written EXCEPT ![Now.p] = Append(@, Now.msgs)]
            /\ Next1
            /\ UNCHANGED results
    /\ Same /\ Unmeasured /\ UNCHANGED <<server, inbox, eof, open, early>>

\* wait_closed.
Closed ==
    /\ At("closed")
    /\ Dead(Now.p) \/ Quiet
    /\ Record(Dead(Now.p))
    /\ Next1 /\ LongWait
    /\ Same /\ Unmeasured /\ UNCHANGED wire

\* Only these ids in the inbox, or this one among them.
Inspect ==
    /\ Running /\ Now.op \in {"only", "has"}
    /\ LET ids == {m.id : m \in ToSet(inbox[Now.p])}
       IN Record(IF Now.op = "only" THEN ids \subseteq Now.ids ELSE Now.ids \subseteq ids)
    /\ Next1
    /\ Same /\ Unmeasured /\ UNCHANGED <<wire, early>>

\* The first 8310 of the admission: without it the lockout is off, and the
\* rest of the case is skipped.
NoteSerial ==
    /\ At("note")
    /\ LET i == Found(Now.p)
       IN IF i = 0
          THEN /\ step' = Len(script) + 1
               /\ results' = [s \in {step} |-> "SKIP"] @@ results
               /\ UNCHANGED noted
          ELSE Next1 /\ noted' = inbox[Now.p][i].y /\ UNCHANGED results
    /\ Same /\ UNCHANGED <<wire, base, early>>

\* The size the LOGCOMPARE of the admission announced.
Announced ==
    /\ At("announced")
    /\ LET i == Found(Now.p)
       IN Record(i # 0 /\ inbox[Now.p][i].x = Len(base))
    /\ Next1
    /\ Same /\ Unmeasured /\ UNCHANGED <<wire, early>>

\* A download, after a sleep: kept to compare with, or compared with the one
\* kept. One that cannot be read skips the check, or fails and ends the case.
Download ==
    /\ At("log")
    /\ Quiet
    /\ \E log \in {server.log} \cup (IF fault = "no answer on the sync port" THEN {Unread} ELSE {}) :
         LET unread == Unread \in (IF Now.must THEN {log} ELSE {log, base})
         IN /\ base' = IF Now.keep THEN log ELSE base
            /\ results' = IF ~Now.check THEN results
                          ELSE [s \in {step} |->
                                  CASE unread -> IF Now.must THEN "FAIL" ELSE "SKIP"
                                    [] OTHER -> IF Compare(Now, base, log) THEN "PASS" ELSE "FAIL"] @@ results
            /\ step' = IF unread /\ Now.must THEN Len(script) + 1 ELSE step + 1
    /\ Same /\ UNCHANGED <<wire, noted, early>>

Finished == step = Len(script) + 1 /\ Quiet
Done == Finished /\ UNCHANGED vars

Next ==
    \/ ServerReads \/ ServerSeesClose
    \/ Open \/ Settle \/ Send \/ Close \/ Take \/ Glance \/ Count \/ Forget
    \/ Ask \/ Closed \/ Inspect \/ NoteSerial \/ Announced \/ Download
    \/ Done

Spec == Init /\ [][Next]_vars

\* main's exit code for a run of one case.
ExitCode ==
    IF "ERROR" \in Range(results) THEN 2 ELSE IF "FAIL" \in Range(results) THEN 1 ELSE 0

(***************************************************************************)
(* Properties.                                                             *)
(***************************************************************************)

\* Which cases find a faulty server out (the checks each case is written for).
CaughtBy ==
    [f \in Faults |->
       CASE f = "refuses the password" -> Cases
         [] f = "an id of its own" -> {"qso", "burst", "edit", "resend", "hello"}
         [] f \in {"no duplicate check", "relays what it holds"} -> {"resend"}
         [] f = "anonymous ids are a key" -> {"resend"}
         [] f = "a letter in 8260" -> {"disc"}
         [] f = "takes any id" -> {"dup", "hello"}
         [] f = "keeps the id of a station that left" -> {"dup"}
         [] f \in {"replays the first contest", "speaks any protocol", "drops a protocol in silence",
                   "announces a refused station", "echoes a hello", "asks for no hello"} -> {"hello"}
         [] f = "forgets to store" -> {"qso", "burst", "resend", "catchup", "restock"}
         [] f = "no confirmation" -> {"edit", "resend", "restock"}
         [] f = "frames a spot at 98 bytes" -> {"spot"}
         [] f \in {"relays the clock", "frames a time sync wrongly"} -> {"time"}
         [] f = "appends an edit" -> {"edit", "resend", "catchup"}
         [] f = "relays a restock" -> {"restock"}
         [] f = "echoes a QSO" -> {"qso"}
         [] f = "a reserved serial is given again" -> IF Lockout THEN {"serial"} ELSE {}
         [] f = "a cap on the messages of a read" -> {"burst", "resend", "catchup", "restock"}
         [] f = "no answer on the sync port" -> {}
         [] f = "none" -> {}]

\* A run of a case against a server that keeps the protocol reports no failure
\* (exit 0), however its reads fall between the probe's steps.
NoFalseAlarm == fault = "none" => ExitCode = 0

\* A case that ran to its end with every check made, and no short wait cut off
\* before the server was done, has told (exit code) of the fault it is for.
FaultsAreFound ==
    Finished /\ case \in CaughtBy[fault] /\ ~early /\ "SKIP" \notin Range(results) => ExitCode # 0
=============================================================================
