------------------------------ MODULE RadioSim ------------------------------
(***************************************************************************)
(* A simulated radio at work (tools/radiosim/core.py): the reader thread   *)
(* takes what the driver sent, pushes what changed and answers; the        *)
(* console thread changes the same state from the keyboard. The two share  *)
(* the state with no lock.                                                 *)
(***************************************************************************)
EXTENDS RadioPersonalities, SequencesExt

CONSTANTS
    Models,       \* personalities tried
    MaxSent,      \* bound: commands the driver sends
    MaxKeys       \* bound: keys pressed

VARIABLES model,     \* the personality running
          rig,       \* RadioState
          port,      \* the hamlib port's own variables
          answering, \* the console's 'd' and 'u'
          at,        \* where the reader is: "read", "push", "frames"
          pushed,    \* TS-890: _last_push, or Never
          due,       \* heads the push under way has still to write
          heard,     \* what the driver was last told of each head since AI
          undone,    \* a change was taken back before it was pushed
          sent, keys

vars == <<model, rig, port, answering, at, pushed, due, heard, undone, sent, keys>>
reader == <<at, pushed, due>>

Never == <<>>
Untold == [h \in Heads890 |-> <<>>]
Is890(m) == m \in {"TS890", "TS990"}

Personalities ==
    {"TS590", "K4", "FT991", "FTDX10", "IC7300", "IC7000", "TS890", "TS990", "HL-TS450"}
Handle(m, core, c) ==
    CASE m = "TS590" -> Kenwood(core, c)
      [] m = "K4" -> Elecraft(core, c)
      [] m = "FT991" -> Yaesu(Type3Modes, core, c)
      [] m = "FTDX10" -> Yaesu(Type5Modes, core, c)
      [] m = "IC7300" -> Icom(TRUE, core, c)
      [] m = "IC7000" -> Icom(FALSE, core, c)
      [] m = "TS890" -> TS890(TRUE, core, c)
      [] m = "TS990" -> TS890(FALSE, core, c)
      [] m = "HL-TS450" -> Ts450(core, c)

Core == IF model = "HL-TS450" THEN port ELSE rig

(* What the drivers send: sets, and the query each is read back with.        *)
Tunes(h) == {<<<<h, f>>, <<h>>, <<h, f>>>> : f \in Freqs}
Switches(h) == {<<<<h, n>>, <<h>>, <<h, n = 1>>>> : n \in {0, 1}}
Vfos(h) == {<<<<h, n>>, <<h>>, <<h, n>>>> : n \in Vfo}
Modes(h, known) == {<<<<h, m>>, <<h>>, <<h, m>>>> : m \in ModeNames \cap known}
ReadBacks ==
    CASE model = "TS590" -> Tunes("FA") \cup Tunes("FB") \cup Modes("MD", KenwoodModes)
      [] model = "K4" -> Tunes("FA") \cup Tunes("FB") \cup Modes("MD", ElecraftModes)
                         \cup Modes("MD$", ElecraftModes)
      [] model \in {"FT991", "FTDX10"} ->
            Tunes("FA") \cup Tunes("FB")
            \cup Modes("MD", IF model = "FT991" THEN Type3Modes ELSE Type5Modes)
            \cup {<<<<"FT", 3>>, <<"FT">>, <<"FT", 1>>>>, <<<<"FT", 2>>, <<"FT">>, <<"FT", 0>>>>}
            \cup Switches("TX")
      [] model \in {"IC7300", "IC7000"} ->
            {<<<<"me", "05", f>>, <<"me", "03">>, <<"03", f>>>> : f \in Freqs}
            \cup {<<<<"me", "06", m>>, <<"me", "04">>, <<"04", m>>>> :
                    m \in ModeNames \cap IcomModes}
            \cup {<<<<"me", "0F", n>>, <<"me", "0F">>, <<"0F", n = 1>>>> : n \in {0, 1}}
            \cup (IF model = "IC7000" THEN {}
                  ELSE {<<<<"me", "25", v, f>>, <<"me", "25", v>>, <<"25", v, f>>>> :
                          v \in Vfo, f \in Freqs})
      [] Is890(model) ->
            Tunes("FA") \cup Tunes("FB") \cup Vfos("FR") \cup Vfos("FT")
            \cup Switches("RT") \cup Switches("XT") \cup Switches("TB")
            \cup Modes("OM0", KenwoodModes) \cup Modes("OM1", KenwoodModes)
      [] model = "HL-TS450" ->
            Tunes("FA") \cup Tunes("FB") \cup Vfos("FR") \cup Vfos("FT")
            \cup Modes("MD", ModeNames)
Others ==
    CASE model \in {"TS590", "K4"} -> {<<"IF">>, <<"FR", 1>>, <<"FT", 1>>, <<"RU">>, <<"TX">>, <<"RX">>}
      [] model \in {"FT991", "FTDX10"} -> {<<"IF">>, <<"OI">>, <<"UP">>, <<"RD">>, <<"TX", 1>>}
      [] model \in {"IC7300", "IC7000"} -> {<<"other", "05", 0>>, <<"me", "25", 1>>, <<"me", "FF">>}
      [] Is890(model) -> {<<"AI", 2>>, <<"PS">>, <<"TX">>, <<"RX">>}
      [] OTHER -> {<<"SF", 0>>, <<"TX">>, <<"IF">>}
Commands == {x[1] : x \in ReadBacks} \cup {x[2] : x \in ReadBacks} \cup Others

Init ==
    /\ model \in Models
    /\ \E f \in Freqs : rig = NewRig(f, f, "CW")
    /\ port = NewPort
    /\ answering = TRUE
    /\ at = "read"
    /\ pushed = Never /\ due = <<>>
    /\ heard = Untold /\ undone = FALSE
    /\ sent = 0 /\ keys = 0

(* The reader thread: read, push, then the frames that were read, one by one. *)
Read ==
    /\ at = "read"
    /\ at' = "push"
    /\ UNCHANGED <<model, rig, port, answering, pushed, due, heard, undone, sent, keys>>

PendingHeads(r, last) ==
    IF r.ai < 1 \/ last = Never \/ Snapshot(r) = last THEN <<>>
    ELSE Changed(last, Snapshot(r))

Push ==                   \* pending(): the snapshot
    /\ at = "push" /\ due = <<>>
    /\ LET pends == Is890(model) /\ answering
       IN  /\ due' = IF pends THEN PendingHeads(rig, pushed) ELSE <<>>
           /\ pushed' = IF pends /\ rig.ai > 0 THEN Snapshot(rig) ELSE pushed
           /\ at' = IF due' = <<>> THEN "frames" ELSE "push"
    /\ UNCHANGED <<model, rig, port, answering, heard, undone, sent, keys>>

Format ==                 \* and the frames, each from the state as it is by then
    /\ at = "push" /\ due # <<>>
    /\ heard' = [heard EXCEPT ![Head(due)] = <<TS890Told(rig, Head(due))>>]
    /\ due' = Tail(due)
    /\ at' = IF due' = <<>> THEN "frames" ELSE "push"
    /\ UNCHANGED <<model, rig, port, answering, pushed, undone, sent, keys>>

TakenBack(was, now) ==
    /\ Is890(model) /\ pushed # Never
    /\ \E field \in DOMAIN pushed : /\ Snapshot(was)[field] # pushed[field]
                                    /\ Snapshot(now)[field] = pushed[field]

Answer(c) ==
    /\ at = "frames" /\ sent < MaxSent
    /\ sent' = sent + 1
    /\ LET done == Handle(model, Core, c)
           next == IF model = "HL-TS450" THEN Synced(rig, done.rig) ELSE done.rig
           starts == Is890(model) /\ c[1] = "AI"
       IN  /\ port' = IF model = "HL-TS450" THEN done.rig ELSE port
           /\ rig' = next
           /\ pushed' = IF starts THEN Snapshot(next) ELSE pushed
           /\ undone' = (~starts /\ (undone \/ TakenBack(rig, next)))
           /\ heard' = IF starts THEN Untold
                       ELSE IF Is890(model) /\ answering /\ done.reply # <<>>
                               /\ done.reply[1] \in Heads890
                       THEN [heard EXCEPT ![done.reply[1]] = <<done.reply[2]>>]
                       ELSE heard
    /\ UNCHANGED <<model, answering, at, due, keys>>

NextRead ==
    /\ at = "frames"
    /\ at' = "read"
    /\ UNCHANGED <<model, rig, port, answering, pushed, due, heard, undone, sent, keys>>

(* The console thread. *)
Key(next) ==
    /\ keys < MaxKeys
    /\ keys' = keys + 1
    /\ rig' = next
    /\ undone' = (undone \/ TakenBack(rig, next))
    /\ UNCHANGED <<model, port, answering, reader, heard, sent>>

KeyF == \E f \in Freqs : Key([rig EXCEPT !.a = f])
KeyB == \E f \in Freqs : Key([rig EXCEPT !.b = f])
KeyM == \E m \in ModeNames : Key([rig EXCEPT !.mode = m])
KeyO == \E n \in {-1, MaxShown + 1} : Key([rig EXCEPT !.off = n])
KeyS == Key(ToggleSplit(rig))
KeyR == Key([rig EXCEPT !.rit = ~@])
KeyX == Key([rig EXCEPT !.xit = ~@])
KeyT == Key([rig EXCEPT !.ptt = ~@])
Link ==
    /\ keys < MaxKeys
    /\ keys' = keys + 1
    /\ answering' = ~answering
    /\ UNCHANGED <<model, rig, port, reader, heard, undone, sent>>

Next == \/ Read \/ Push \/ Format \/ NextRead
        \/ \E c \in Commands : Answer(c)
        \/ KeyF \/ KeyB \/ KeyM \/ KeyO \/ KeyS \/ KeyR \/ KeyX \/ KeyT \/ Link

Spec == Init /\ [][Next]_vars
-----------------------------------------------------------------------------
(* TS-890 under AI2 (kenwood_ts890.pending): between two rounds of the      *)
(* reader, with nothing left to push, whatever the driver was told of a     *)
(* head since AI is what the radio is at now; it can be out of date only    *)
(* after a change was taken back before a push could carry it.              *)
StaleOnlyIfTakenBack ==
    /\ Is890(model) /\ rig.ai > 0 /\ at = "read" /\ ~undone
    /\ pushed = Snapshot(rig)
    => \A h \in Heads890 : heard[h] \in {<<>>, <<TS890Told(rig, h)>>}

(* Whatever state the radio has come to, a command a driver sets something  *)
(* with is read back by its own query, and a query changes nothing.         *)
SetsReadBack ==
    \A x \in ReadBacks :
        LET after == Handle(model, Core, x[1]).rig
            read == Handle(model, after, x[2])
        IN  read = [rig |-> after, reply |-> x[3]]
=============================================================================
