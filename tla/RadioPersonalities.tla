------------------------- MODULE RadioPersonalities -------------------------
(***************************************************************************)
(* The simulated radios of tools/radiosim: what each answers to a command, *)
(* and what the command does to it. A command is <<head>> or <<head, arg>>; *)
(* an answer is a tuple, <<>> when the command is taken in silence and     *)
(* Unknown when the personality has no such command. A frequency is a      *)
(* small number, one step of UP/DN or of the clarifier is 1.               *)
(***************************************************************************)
EXTENDS Integers, Sequences

CONSTANTS
    Freqs,        \* frequencies a command or the console may set
    ModeNames,    \* mode names the console or a command may set
    MaxShown      \* the largest clarifier offset an IF answer can show

Vfo == {0, 1}
Unknown == <<"unhandled">>

(* RadioState; modeB is the Yaesu's and the TS-890's, ai the latter's.       *)
NewRig(f, g, m) ==
    [a |-> f, b |-> g, rx |-> 0, tx |-> 0, mode |-> m, modeB |-> "USB",
     rit |-> FALSE, xit |-> FALSE, off |-> 0, ptt |-> FALSE, ai |-> 0]

RxFreq(r) == IF r.rx = 0 THEN r.a ELSE r.b
SplitIsB(r) == r.tx = 1                            \* mutant: split is sending on B
Split(r) == r.tx # r.rx
ToggleSplit(r) == [r EXCEPT !.tx = IF Split(r) THEN r.rx ELSE 1 - r.rx]

Abs(n) == IF n < 0 THEN -n ELSE n
Shown(off) == <<off < 0, IF Abs(off) < MaxShown THEN Abs(off) ELSE MaxShown>>

(* A mode the table does not know is reported as CW; one a command does not *)
(* know leaves the mode as it was.                                          *)
Coded(modes, m) == IF m \in modes THEN m ELSE "CW"
Decoded(modes, m, was) == IF m \in modes THEN m ELSE was

KenwoodModes == {"LSB", "USB", "CW", "FM", "AM", "FSK", "CWR", "FSKR"}
ElecraftModes == {"LSB", "USB", "CW", "FM", "AM", "DATA", "CWR", "DATAR"}
YaesuModes == {"LSB", "USB", "CW", "FM", "AM", "RTTY-R", "CW-R", "DATA-R", "RTTY",
               "DATA-FM", "FM-N", "DATA", "AM-N"}
Type3Modes == YaesuModes \cup {"C4FM"}
Type5Modes == YaesuModes \cup {"PSK31"}
IcomModes == {"LSB", "USB", "AM", "CW", "FSK", "FM", "CWR", "FSKR"}

Quiet(r) == [rig |-> r, reply |-> <<>>]
Says(r, reply) == [rig |-> r, reply |-> reply]
Rejects(r) == [rig |-> r, reply |-> Unknown]

(* The commands every ASCII personality takes the same way.                 *)
Clarifier == {"RC", "RU", "RD"}
Clarified(r, head) ==
    [r EXCEPT !.off = CASE head = "RC" -> 0 [] head = "RU" -> @ + 1 [] OTHER -> @ - 1]
Stepped(r, head) == [r EXCEPT !.a = IF head = "UP" THEN @ + 1 ELSE @ - 1]

BuildKenwoodIf(r) ==
    <<"IF", RxFreq(r), Shown(r.off), r.rit, r.xit, r.ptt,
      Coded(KenwoodModes, r.mode), r.rx, Split(r)>>

Kenwood(r, c) ==
    LET head == c[1]
        set == Len(c) > 1
    IN  CASE head = "IF" -> Says(r, BuildKenwoodIf(r))
          [] head = "FA" -> IF set THEN Quiet([r EXCEPT !.a = c[2]]) ELSE Says(r, <<"FA", r.a>>)
          [] head = "FB" -> IF set THEN Quiet([r EXCEPT !.b = c[2]]) ELSE Says(r, <<"FB", r.b>>)
          [] head = "MD" -> IF set THEN Quiet([r EXCEPT !.mode = Decoded(KenwoodModes, c[2], @)])
                            ELSE Says(r, <<"MD", Coded(KenwoodModes, r.mode)>>)
          [] head = "FR" -> Quiet(IF set THEN [r EXCEPT !.rx = c[2]] ELSE r)
          [] head = "FT" -> Quiet(IF set THEN [r EXCEPT !.tx = c[2]] ELSE r)
          [] head = "RT" -> Quiet([r EXCEPT !.rit = set /\ c[2] = 1])
          [] head = "XT" -> Quiet([r EXCEPT !.xit = set /\ c[2] = 1])
          [] head \in Clarifier -> Quiet(Clarified(r, head))
          [] head \in {"TX", "RX"} -> Quiet([r EXCEPT !.ptt = head = "TX"])
          [] head \in {"UP", "DN"} -> Quiet(Stepped(r, head))
          [] head = "KS" -> Says(r, IF set THEN <<>> ELSE <<"KS", 30>>)
          [] head = "ID" -> Says(r, <<"ID", 21>>)
          [] OTHER -> Rejects(r)

BuildElecraftIf(r) ==
    <<"IF", RxFreq(r), Shown(r.off), r.rit, r.xit, r.ptt,
      Coded(ElecraftModes, r.mode), r.rx, Split(r)>>

(* 'MD$' and 'DT$' ask for the other VFO; there is one mode for both.       *)
Elecraft(r, c) ==
    LET head == c[1]
        set == Len(c) > 1
    IN  CASE head = "IF" -> Says(r, BuildElecraftIf(r))
          [] head = "FA" -> IF set THEN Quiet([r EXCEPT !.a = c[2]]) ELSE Says(r, <<"FA", r.a>>)
          [] head = "FB" -> IF set THEN Quiet([r EXCEPT !.b = c[2]]) ELSE Says(r, <<"FB", r.b>>)
          [] head \in {"MD", "MD$"} ->
                IF set THEN Quiet([r EXCEPT !.mode = Decoded(ElecraftModes, c[2], @)])
                ELSE Says(r, <<head, Coded(ElecraftModes, r.mode)>>)
          [] head \in {"DT", "DT$"} -> Says(r, <<head, 0>>)
          [] head = "FR" -> Quiet(IF set THEN [r EXCEPT !.rx = c[2]] ELSE r)
          [] head = "FT" -> Quiet(IF set THEN [r EXCEPT !.tx = c[2]] ELSE r)
          [] head = "RT" -> Quiet([r EXCEPT !.rit = set /\ c[2] = 1])
          [] head = "XT" -> Quiet([r EXCEPT !.xit = set /\ c[2] = 1])
          [] head \in Clarifier -> Quiet(Clarified(r, head))
          [] head \in {"TX", "RX"} -> Quiet([r EXCEPT !.ptt = head = "TX"])
          [] head = "AI" -> Quiet(r)
          [] head = "KS" -> Says(r, IF set THEN <<>> ELSE <<"KS", 30>>)
          [] head = "ID" -> Says(r, <<"ID", 17>>)
          [] OTHER -> Rejects(r)

BuildYaesuIf(head, freq, modes, mode, r) ==
    <<head, freq, Shown(r.off), r.rit, r.xit, Coded(modes, mode)>>

(* FT3 sets split and FT2 clears it; FT asks for the transmitting VFO.      *)
Yaesu(modes, r, c) ==
    LET head == c[1]
        set == Len(c) > 1
    IN  CASE head = "IF" -> Says(r, BuildYaesuIf("IF", r.a, modes, r.mode, r))
          [] head = "OI" -> Says(r, BuildYaesuIf("OI", r.b, modes, r.modeB, r))
          [] head = "FA" -> IF set THEN Quiet([r EXCEPT !.a = c[2]]) ELSE Says(r, <<"FA", r.a>>)
          [] head = "FB" -> IF set THEN Quiet([r EXCEPT !.b = c[2]]) ELSE Says(r, <<"FB", r.b>>)
          [] head = "MD" -> IF set THEN Quiet([r EXCEPT !.mode = Decoded(modes, c[2], @)])
                            ELSE Says(r, <<"MD", Coded(modes, r.mode)>>)
          [] head = "FT" ->
                IF ~set THEN Says(r, <<"FT", r.tx>>)
                ELSE Quiet(IF (c[2] = 3 /\ ~Split(r)) \/ (c[2] = 2 /\ Split(r))
                           THEN ToggleSplit(r) ELSE r)
          [] head = "TX" -> IF set THEN Quiet([r EXCEPT !.ptt = c[2] # 0])
                            ELSE Says(r, <<"TX", r.ptt>>)
          [] head = "RX" -> Quiet([r EXCEPT !.ptt = FALSE])
          [] head = "RT" -> Quiet([r EXCEPT !.rit = set /\ c[2] = 1])
          [] head = "XT" -> Quiet([r EXCEPT !.xit = set /\ c[2] = 1])
          [] head \in Clarifier -> Quiet(Clarified(r, head))
          [] head \in {"UP", "DN"} -> Quiet(Stepped(r, head))
          [] head = "KS" -> Says(r, IF set THEN <<>> ELSE <<"KS", 30>>)
          [] head = "PB" -> Quiet(r)
          [] OTHER -> Rejects(r)

(* CI-V: <<to, command, sub, data ...>>; "me" is this radio's address, "all" *)
(* the broadcast. A radio without the extended VFO commands refuses them.    *)
ACK == <<"ACK">>
NAK == <<"NAK">>
Icom(supportsVfoB, r, c) ==
    LET cmd == c[2]
        sub == c[3]
        set == Len(c) > 3
        which == IF Len(c) < 3 \/ sub = 0 THEN 0 ELSE 1
        Tuned(vfo, f) == IF vfo = 0 THEN [r EXCEPT !.a = f] ELSE [r EXCEPT !.b = f]
    IN  IF c[1] \notin {"me", "all"} THEN Quiet(r) ELSE
        CASE cmd = "03" -> Says(r, <<"03", RxFreq(r)>>)
          [] cmd = "04" -> Says(r, <<"04", Coded(IcomModes, r.mode)>>)
          [] cmd = "05" -> Says(IF Len(c) > 2 THEN Tuned(r.rx, sub) ELSE r, ACK)
          [] cmd = "06" -> Says(IF Len(c) > 2 THEN [r EXCEPT !.mode = Decoded(IcomModes, sub, @)]
                                              ELSE r, ACK)
          [] cmd \in {"25", "26"} /\ ~supportsVfoB -> Says(r, NAK)
          [] cmd = "25" /\ supportsVfoB ->
                           IF set THEN Says(Tuned(which, c[4]), ACK)
                           ELSE Says(r, <<"25", which, IF which = 0 THEN r.a ELSE r.b>>)
          [] cmd = "26" /\ supportsVfoB ->
                           IF set THEN Says([r EXCEPT !.mode = Decoded(IcomModes, c[4], @)], ACK)
                           ELSE Says(r, <<"26", which, Coded(IcomModes, r.mode)>>)
          [] cmd = "0F" -> IF Len(c) < 3 THEN Says(r, <<"0F", Split(r)>>)
                           ELSE Says([r EXCEPT !.tx = IF sub = 1 THEN 1 - r.rx ELSE r.rx], ACK)
          [] cmd = "1C" -> IF which = 0 /\ Len(c) > 2 THEN Says(r, <<"1C", r.ptt>>) ELSE Rejects(r)
          [] cmd = "14" -> Says(r, IF set THEN ACK ELSE <<"14", 128>>)
          [] cmd = "21" -> Says(r, ACK)
          [] OTHER -> Rejects(r)

(* TS-890: no polling; under AI2 it pushes what changed. OM names a VFO      *)
(* relative to the operating one: 0 is the one FR selects.                   *)
ModeOf(r, vfo) == IF vfo = 0 THEN r.mode ELSE r.modeB
SetModeOf(r, vfo, m) == IF vfo = 0 THEN [r EXCEPT !.mode = m] ELSE [r EXCEPT !.modeB = m]
Physical(r, rel) == IF rel = 0 THEN r.rx ELSE 1 - r.rx
Om(r, rel) == Coded(KenwoodModes, ModeOf(r, Physical(r, rel)))

TS890Set(r, c) ==             \* a command that only sets, or sets with an argument
    LET head == c[1]
    IN  CASE head = "FA" -> [r EXCEPT !.a = c[2]]
          [] head = "FB" -> [r EXCEPT !.b = c[2]]
          [] head = "FR" -> [r EXCEPT !.rx = c[2]]
          [] head = "FT" -> [r EXCEPT !.tx = c[2]]
          [] head \in {"OM0", "OM1"} ->
                SetModeOf(r, Physical(r, IF head = "OM0" THEN 0 ELSE 1),
                          Coded(KenwoodModes, c[2]))
          [] head = "RT" -> [r EXCEPT !.rit = c[2] = 1]
          [] head = "XT" -> [r EXCEPT !.xit = c[2] = 1]
          [] head = "TB" -> IF (c[2] = 1) # Split(r) THEN ToggleSplit(r) ELSE r
          [] head = "AI" -> [r EXCEPT !.ai = c[2]]
          [] OTHER -> r

TS890Told(r, head) ==         \* what a query or a push of this head says
    CASE head = "FA" -> r.a
      [] head = "FB" -> r.b
      [] head = "FR" -> r.rx
      [] head = "FT" -> r.tx
      [] head = "OM0" -> Om(r, 0)
      [] head = "OM1" -> Om(r, 1)
      [] head = "RT" -> r.rit
      [] head = "XT" -> r.xit
      [] head = "TX" -> r.ptt
      [] head = "TB" -> Split(r)
Heads890 == {"FA", "FB", "FR", "FT", "OM0", "OM1", "RT", "XT", "TX", "TB"}

TS890(legacyIf, r, c) ==
    LET head == c[1]
        set == Len(c) > 1
        keyed == [r EXCEPT !.ptt = head = "TX"]
    IN  CASE head = "PS" -> Says(r, <<"PS", 1>>)
          [] head = "IF" -> Says(r, IF legacyIf THEN BuildKenwoodIf(r) ELSE <<"?">>)
          [] head = "ID" -> Says(r, <<"ID", 24>>)
          [] head \in {"TX", "RX"} -> Says(keyed, <<"TX", keyed.ptt>>)
          [] head \in Heads890 \ {"TX"} ->
                                  IF set THEN Quiet(TS890Set(r, c))
                                  ELSE Says(r, <<head, TS890Told(r, head)>>)
          [] head \in Clarifier -> Quiet(Clarified(r, head))
          [] head \in {"UP", "DN"} -> Quiet(Stepped(r, head))
          [] head = "AI" -> Quiet(IF set THEN TS890Set(r, c) ELSE [r EXCEPT !.ai = 0])
          [] head = "KS" -> Says(r, IF set THEN <<>> ELSE <<"KS", 30>>)
          [] head \in {"FL", "KY", "RF", "##"} -> Quiet(r)
          [] OTHER -> Rejects(r)

(* pending(): what changed since the last push, in the order it is sent. A   *)
(* change of the operating VFO re-reports both modes.                        *)
Snapshot(r) == [a |-> r.a, b |-> r.b, rx |-> r.rx, tx |-> r.tx, mode |-> r.mode,
                modeB |-> r.modeB, rit |-> r.rit, xit |-> r.xit, ptt |-> r.ptt,
                split |-> Split(r)]
Reports(cond, heads) == IF cond THEN heads ELSE <<>>
Modes890(r) == <<r.mode, r.modeB>>
ChangedModesOnly(was, now) ==   \* mutant: FR alone does not re-report the modes
    Reports(now.a # was.a, <<"FA">>) \o Reports(now.b # was.b, <<"FB">>)
    \o Reports(now.rx # was.rx, <<"FR">>) \o Reports(now.tx # was.tx, <<"FT">>)
    \o Reports(Modes890(now) # Modes890(was), <<"OM0", "OM1">>)
    \o Reports(now.rit # was.rit, <<"RT">>) \o Reports(now.xit # was.xit, <<"XT">>)
    \o Reports(now.ptt # was.ptt, <<"TX">>) \o Reports(now.split # was.split, <<"TB">>)

Changed(was, now) ==
    Reports(now.a # was.a, <<"FA">>) \o Reports(now.b # was.b, <<"FB">>)
    \o Reports(now.rx # was.rx, <<"FR">>) \o Reports(now.tx # was.tx, <<"FT">>)
    \o Reports(Modes890(now) # Modes890(was) \/ now.rx # was.rx, <<"OM0", "OM1">>)
    \o Reports(now.rit # was.rit, <<"RT">>) \o Reports(now.xit # was.xit, <<"XT">>)
    \o Reports(now.ptt # was.ptt, <<"TX">>) \o Reports(now.split # was.split, <<"TB">>)

(* The port of hamlib's simts450 keeps variables of its own: the SF command  *)
(* has frequencies nothing sets, and IF shows the first VFO's and nothing    *)
(* else. Commands it takes and ignores, and those it does not know, are both *)
(* silent.                                                                   *)
NewPort ==
    [a |-> 14, b |-> 140, rx |-> 0, tx |-> 0, mode |-> "LSB", modeB |-> "USB",
     ptt |-> FALSE, filter |-> 7, data |-> 0, ant |-> 0]
Ts450Fixed == {"RM5", "AN0", "NB", "RA", "RG", "MG", "AG", "FV", "IS", "SM", "PC", "FW",
               "ID", "VS", "PS", "SA"}                  \* queries with one answer
Ts450(p, c) ==
    LET head == c[1]
        set == Len(c) > 1
        IsA == IF head = "SF" THEN c[2] = 0 ELSE TRUE
    IN  CASE head \in Ts450Fixed /\ ~set -> Says(p, <<head, "fixed">>)
          [] head = "IF" /\ ~set -> Says(p, <<"IF", p.a>>)
          [] head = "EX032" /\ ~set ->
                LET ant == (p.ant + 1) % 3 IN Says([p EXCEPT !.ant = ant], <<head, ant>>)
          [] head = "FA" -> IF set THEN Quiet([p EXCEPT !.a = c[2]]) ELSE Says(p, <<"FA", p.a>>)
          [] head = "FB" -> IF set THEN Quiet([p EXCEPT !.b = c[2]]) ELSE Says(p, <<"FB", p.b>>)
          [] head = "SF" /\ Len(c) = 2 ->
                Says(p, <<"SF", c[2], IF IsA THEN p.mode ELSE p.modeB>>)
          [] head = "SF" /\ Len(c) # 2 ->
                Quiet(IF IsA THEN [p EXCEPT !.mode = c[3]]
                                         ELSE [p EXCEPT !.modeB = c[3]])
          [] head = "MD" -> IF set THEN Quiet([p EXCEPT !.mode = c[2]]) ELSE Says(p, <<"MD", p.mode>>)
          [] head = "FL" -> IF set THEN Quiet([p EXCEPT !.filter = c[2]]) ELSE Says(p, <<"FL", p.filter>>)
          [] head = "FR" -> IF set THEN Quiet([p EXCEPT !.rx = c[2]]) ELSE Says(p, <<"FR", p.rx>>)
          [] head = "FT" -> IF set THEN Quiet([p EXCEPT !.tx = c[2]]) ELSE Says(p, <<"FT", p.tx>>)
          [] head = "DA" -> IF set THEN Quiet([p EXCEPT !.data = c[2]]) ELSE Says(p, <<"DA", p.data>>)
          [] head = "TX" -> Quiet([p EXCEPT !.ptt = ~set])
          [] OTHER -> Quiet(p)

(* What the console shows of the port; the port never reads it back.         *)
Synced(r, p) == [r EXCEPT !.a = p.a, !.b = p.b, !.rx = p.rx, !.tx = p.tx, !.ptt = p.ptt]
=============================================================================
