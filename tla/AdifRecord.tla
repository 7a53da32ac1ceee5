----------------------------- MODULE AdifRecord -----------------------------
(***************************************************************************)
(* What the ADIF validator (tools/adifvalidator) says of one field and of  *)
(* one record. A value is one symbol that stands for its text; "" is a     *)
(* field with no text. The tables hold the tags and values a file of the   *)
(* runs may use, with the attributes the checks read off their text.       *)
(***************************************************************************)
EXTENDS Integers, Sequences, SequencesExt, TLC

dataTypes == {"B", "N", "D", "T", "S", "M", "E", "L"}
headerTags == {"ADIF_VER", "PROGRAMID", "USERDEF", "EOH"}

qsoTags ==
    [t \in {"CALL", "COUNTRY", "STATE", "CNTY", "USACA_COUNTIES", "GRIDSQUARE", "VUCC_GRIDS", "SUBMODE", "COMMENT",
            "MY_COUNTRY", "MY_STATE", "MY_CNTY", "MY_USACA_COUNTIES", "MY_VUCC_GRIDS", "EOR"} |-> "S"] @@
    [t \in {"QSO_DATE", "QSO_DATE_OFF"} |-> "D"] @@
    [t \in {"TIME_ON", "TIME_OFF"} |-> "T"] @@
    [t \in {"BAND", "BAND_RX", "MODE"} |-> "E"] @@
    [t \in {"FREQ", "FREQ_RX", "DXCC", "MY_DXCC"} |-> "N"] @@
    [t \in {"CQZ", "ITUZ"} |-> "P"] @@
    [t \in {"SILENT_KEY"} |-> "B"] @@ [t \in {"IOTA"} |-> "R"] @@ [t \in {"LAT"} |-> "L"]

Bands == [b \in {"20M"} |-> <<14000, 14350>>] @@ [b \in {"40M"} |-> <<7000, 7300>>]
Modes == [m \in {"CW"} |-> {"PCW"}] @@ [m \in {"SSB"} |-> {"USB", "LSB"}]
enumerations == [t \in {"BAND", "BAND_RX"} |-> DOMAIN Bands] @@ [t \in {"MODE"} |-> DOMAIN Modes]

\* Entities: zone pairs (ITU, CQ) and the years they count from and, if they were
\* deleted, to. 0 is no entity, 1 Canada, 2 Abu Ail, 3 Afghanistan, 6 Alaska,
\* 110 Hawaii, 153 Macquarie Island, 291 the United States.
Always == 9999
Entity(zones, valid, invalid) == [zones |-> zones, valid |-> valid, invalid |-> invalid]
Entities ==
    [e \in {"0"} |-> Entity({}, 1912, Always)] @@
    [e \in {"1"} |-> Entity({<<2, 1>>, <<2, 3>>, <<2, 4>>, <<3, 1>>, <<3, 2>>, <<3, 4>>, <<4, 2>>, <<4, 4>>, <<4, 5>>,
                             <<9, 2>>, <<9, 5>>, <<75, 2>>}, 1945, Always)] @@
    [e \in {"2"} |-> Entity({<<39, 21>>}, 1945, 1991)] @@
    [e \in {"3"} |-> Entity({<<40, 21>>}, 1945, Always)] @@
    [e \in {"6"} |-> Entity({<<1, 1>>, <<2, 1>>}, 1945, Always)] @@
    [e \in {"110"} |-> Entity({<<61, 31>>}, 1945, Always)] @@
    [e \in {"153"} |-> Entity({<<60, 30>>}, 1945, Always)] @@
    [e \in {"291"} |-> Entity({<<8, 5>>, <<8, 4>>, <<7, 4>>, <<7, 3>>, <<6, 4>>, <<6, 3>>}, 1945, Always)]
\* The states of an entity that has any, each with its zones or with none of its own.
pas == [e \in {"1"} |-> [s \in {"ON"} |-> {<<3, 4>>, <<4, 4>>}]] @@
       [e \in {"6"} |-> [s \in {"AK"} |-> {<<1, 1>>, <<2, 1>>}]] @@
       [e \in {"110"} |-> [s \in {"HI"} |-> {<<61, 31>>}]] @@
       [e \in {"153"} |-> [s \in {"MA"} |-> {}]] @@
       [e \in {"291"} |-> [s \in {"MA"} |-> {<<8, 5>>}] @@ [s \in {"HI"} |-> {<<61, 31>>}]
                            @@ [s \in {"AK"} |-> {<<1, 1>>, <<2, 1>>}]]
\* Counties, by the state alone.
sas == [s \in {"MA"} |-> {"ESSEX"}] @@ [s \in {"HI"} |-> {"MAUI"}] @@ [s \in {"AK"} |-> {"NOME"}]
entityMap == [c \in {"UNITED STATES"} |-> "291"] @@ [c \in {"CANADA"} |-> "1"]
ranges == [t \in {"CQZ"} |-> 1..40] @@ [t \in {"ITUZ"} |-> 1..90]

\* A text read as a number (kHz for a frequency), or not one.
NotANumber == -1
Number(v) ==
    CASE v = "14.025" -> 14025 [] v = "7.010" -> 7010
      [] v \in {"5", "05"} -> 5 [] v \in {"8", "08"} -> 8 [] v = "21" -> 21 [] v = "31" -> 31 [] v = "99" -> 99
      [] v = "0" -> 0 [] v = "1" -> 1 [] v = "2" -> 2 [] v = "3" -> 3 [] v = "153" -> 153 [] v = "291" -> 291
      [] v = "999" -> 999
      [] OTHER -> NotANumber
TwoDigits == {"05", "08", "21", "31", "99"}
\* A text read as a date: its year, or what is wrong with it.
Dates == [d \in {"20260101"} |-> 2026] @@ [d \in {"19400101"} |-> 1940]
Times == [t \in {"1200"} |-> 1200] @@ [t \in {"1100"} |-> 1100]
Grids == {"FN42", "FN"}
\* A text that lists several values, and a county with its state before it.
Split(v) == CASE v = "FN42,ZZ" -> {"FN42", "ZZ"} [] v = "MA,ESSEX:X" -> {"MA,ESSEX", "X"} [] OTHER -> {v}
StateOf(v) == CASE v = "MA,ESSEX" -> "MA" [] v = "ON,ESSEX" -> "ON" [] OTHER -> ""
CountyOf(v) == IF v \in {"MA,ESSEX", "ON,ESSEX"} THEN "ESSEX" ELSE v
Locations == {"N042 21.500"}
Islands == {"NA-148"}

(***************************************************************************)
(* Findings: compliance and consistency errors, by what they name, and     *)
(* whether the program stopped on an exception.                            *)
(***************************************************************************)
Clean == [comp |-> {}, cons |-> {}, crash |-> FALSE]
ComplianceError(what) == [Clean EXCEPT !.comp = {what}]
ConsistencyError(what) == [Clean EXCEPT !.cons = {what}]
Crash == [Clean EXCEPT !.crash = TRUE]
If(bad, finding) == IF bad THEN finding ELSE Clean
\* What comes after a crash is not reached.
Then(a, b) ==
    IF a.crash THEN a
    ELSE [comp |-> a.comp \cup b.comp, cons |-> a.cons \cup b.cons, crash |-> b.crash]

All(findings) == FoldLeft(Then, Clean, findings)

verifyTag(tag, value, size, type) ==
    IF tag \notin DOMAIN qsoTags THEN Clean
    ELSE LET is == qsoTags[tag]
             typed == If(type # "" /\ type # is, ComplianceError(<<"type", tag>>))
             wrong(bad) == Then(typed, If(bad, ComplianceError(<<"value", tag>>)))
         IN CASE is \in {"S", "M"} -> typed
              [] is = "B" -> wrong(value \notin {"Y", "N"})
              [] is = "N" -> wrong(Number(value) = NotANumber)
              [] is = "P" -> wrong(Number(value) \notin ranges[tag])
              [] is = "D" -> wrong(value \notin DOMAIN Dates)
              \* The message names a variable that does not exist here.
              [] is = "T" -> IF value \in DOMAIN Times THEN typed ELSE Then(typed, Crash)
              [] is = "L" -> wrong(value \notin Locations)
              [] is = "R" -> wrong(size # 0 /\ value \notin Islands)
              [] is = "E" -> wrong(size # 0 /\ value \notin enumerations[tag])

(***************************************************************************)
(* verifyQSO. A record has two sides: the station worked and, in the MY_    *)
(* tags, the station that logged it. The two are checked much alike.        *)
(***************************************************************************)
Given(qso, tag) == tag \in DOMAIN qso /\ qso[tag] # ""
Text(qso, tag) == IF tag \in DOMAIN qso THEN qso[tag] ELSE ""

\* The tag of one's own square is looked up under a name no file uses.
verifyGrid(tag, grids) == If(\E g \in grids : g \notin Grids, ComplianceError(<<"grid", tag>>))
GridTags == <<"GRIDSQUARE", "MYGRIDSQUARE", "VUCC_GRIDS", "MY_VUCC_GRIDS">>
GridsOf(qso, tag) ==
    IF ~Given(qso, tag) THEN {}
    ELSE IF tag \in {"VUCC_GRIDS", "MY_VUCC_GRIDS"} THEN Split(qso[tag]) ELSE {qso[tag]}
SquaresInUse(qso) == All([i \in DOMAIN GridTags |-> verifyGrid(GridTags[i], GridsOf(qso, GridTags[i]))])

InBand(f, b) == Number(f) \in Bands[b][1]..Bands[b][2]
BandAndFrequency(qso) ==
    LET band == Text(qso, "BAND")
        freq == Text(qso, "FREQ")
        bandok == band \in DOMAIN Bands
        freqok == Given(qso, "FREQ") /\ Number(freq) # NotANumber
        \* BAND_RX is looked up by the text of BAND.
        rx == Given(qso, "BAND_RX")
    IN All(<<If(bandok /\ freqok /\ ~InBand(freq, band), ConsistencyError(<<"frequency">>)),
             If(~bandok /\ ~freqok, ConsistencyError(<<"no band">>)),
             If(rx /\ ~bandok, Crash),
             If(rx /\ bandok /\ Given(qso, "FREQ_RX") /\ Number(qso["FREQ_RX"]) # NotANumber
                  /\ ~InBand(qso["FREQ_RX"], band), ConsistencyError(<<"rx frequency">>))>>)

\* The entity a side claims: by DXCC, else by COUNTRY, else none.
Claimed(qso, side) ==
    LET country == Text(qso, side \o "COUNTRY")
        dxcc == Text(qso, side \o "DXCC")
    IN IF dxcc \in DOMAIN Entities THEN dxcc
       ELSE IF country \in DOMAIN entityMap THEN entityMap[country]
       ELSE ""
CountryAndEntity(qso) ==
    LET At(side) == Given(qso, side \o "DXCC") /\ Text(qso, side \o "COUNTRY") \in DOMAIN entityMap
                    /\ entityMap[qso[side \o "COUNTRY"]] # qso[side \o "DXCC"]
    IN All(<<If(At(""), Crash),          \* the message's line is a variable that does not exist
             If(At("MY_") /\ qso["MY_DXCC"] \in DOMAIN Entities, ConsistencyError(<<"my country">>))>>)

\* Two states tell the entity by themselves.
Assumed(state) == CASE state = "HI" -> "110" [] state = "AK" -> "6" [] OTHER -> ""
DXCC(qso, side) ==
    IF Claimed(qso, side) # "" THEN Claimed(qso, side) ELSE Assumed(Text(qso, side \o "STATE"))
StateOk(qso, side) ==
    /\ Given(qso, side \o "STATE")
    /\ Claimed(qso, side) # "" => Claimed(qso, side) \in DOMAIN pas
    /\ Claimed(qso, side) \in DOMAIN pas => qso[side \o "STATE"] \in DOMAIN pas[Claimed(qso, side)]
State(qso, side) ==
    If(Given(qso, side \o "STATE") /\ (Claimed(qso, side) = "" \/ ~StateOk(qso, side)),
       ConsistencyError(<<"state", side>>))

ModeOk(qso) == Text(qso, "MODE") \in DOMAIN Modes
ModeAndSubmode(qso) ==
    LET mode == Text(qso, "MODE")
    IN All(<<If(~Given(qso, "MODE"), Crash),   \* a message with nothing to format
             If(~ModeOk(qso), ComplianceError(<<"mode">>)),
             If(Given(qso, "SUBMODE"),
                If(~ModeOk(qso) \/ qso["SUBMODE"] \notin Modes[mode], ComplianceError(<<"submode">>)))>>)

verifyCounty(tag, state, county) ==
    All(<<If(StateOf(county) \notin {"", state}, ConsistencyError(<<"state of", tag, county>>)),
          If(state \notin DOMAIN sas \/ CountyOf(county) \notin sas[state], ConsistencyError(<<"county", tag, county>>))>>)
Counties(qso, side, name) ==
    LET tag == side \o name
        each == SetToSeq(IF name = "USACA_COUNTIES" THEN Split(qso[tag]) ELSE {qso[tag]})
    IN If(Given(qso, tag) /\ StateOk(qso, side),
          All([i \in DOMAIN each |-> verifyCounty(tag, qso[side \o "STATE"], each[i])]))

\* Zones of the state when it has its own, else of the entity. One's own zones are
\* looked up under names no file uses, and compared as texts.
Zones(qso, side) ==
    LET e == DXCC(qso, side)
        ofState == IF StateOk(qso, side) THEN pas[e][qso[side \o "STATE"]] ELSE {}
    IN IF ofState # {} THEN ofState ELSE Entities[e].zones
Checked(qso, side, name) == DXCC(qso, side) \notin {"", "0"} /\ Given(qso, side \o name)
\* The message on one's own CQ zone names what an earlier zone was looked up by.
Unnamed(qso, side, name) ==
    /\ side = "MY_" /\ name = "CQZ"
    /\ ~\E z \in {<<"", "ITUZ">>, <<"", "CQZ">>, <<"MY_", "ITUZ">>} : Checked(qso, z[1], z[2])
ZoneIs(side, n, v) == Number(v) = n /\ (side = "MY_" => v \in TwoDigits)
Zone(qso, side, name, i) ==
    LET tag == side \o name
        wrong == \A z \in Zones(qso, side) : ~ZoneIs(side, z[i], qso[tag])
    IN If(Checked(qso, side, name),
          IF (side = "" /\ Number(qso[tag]) = NotANumber) \/ (wrong /\ Unnamed(qso, side, name)) THEN Crash
          ELSE If(wrong, ConsistencyError(<<"zone", tag>>)))

DateAndTime(qso) ==
    LET date == Text(qso, "QSO_DATE")
        off == IF Given(qso, "QSO_DATE_OFF") THEN qso["QSO_DATE_OFF"] ELSE date
    IN All(<<If(~Given(qso, "QSO_DATE") \/ date = "2026", ConsistencyError(<<"date">>)),
             If(~Given(qso, "TIME_ON"), ConsistencyError(<<"time">>)),
             If(Given(qso, "TIME_OFF"),
                Then(If(~Given(qso, "TIME_ON"), ConsistencyError(<<"no time on">>)),
                     If(\/ {off, date} \subseteq DOMAIN Dates /\ Dates[off] < Dates[date]
                        \/ Given(qso, "TIME_ON") /\ off = date /\ Times[qso["TIME_OFF"]] < Times[qso["TIME_ON"]],
                        ConsistencyError(<<"times">>)))),
             If(~ModeOk(qso), ConsistencyError(<<"no valid mode">>)),
             If(date \notin DOMAIN Dates, Crash)>>)       \* getDate raises on what is not a date

\* The QSO was made while its entities counted.
WhileItCounted(qso, side) ==
    LET e == DXCC(qso, side)
        day == Dates[qso["QSO_DATE"]]
    IN If(e # "" /\ (side = "MY_" => e # DXCC(qso, "")),
          All(<<If(day < Entities[e].valid, ConsistencyError(<<"before", side>>)),
                If(day > Entities[e].invalid, ConsistencyError(<<"after", side>>))>>))

verifyQSO(qso) ==
    LET found == All(<<SquaresInUse(qso), BandAndFrequency(qso), CountryAndEntity(qso),
                       State(qso, ""), State(qso, "MY_"), ModeAndSubmode(qso),
                       Counties(qso, "", "CNTY"), Counties(qso, "MY_", "CNTY"),
                       Counties(qso, "", "USACA_COUNTIES"), Counties(qso, "MY_", "USACA_COUNTIES"),
                       Zone(qso, "", "ITUZ", 1), Zone(qso, "", "CQZ", 2),
                       Zone(qso, "MY_", "ITUZ", 1), Zone(qso, "MY_", "CQZ", 2), DateAndTime(qso)>>)
    IN IF found.crash THEN found ELSE All(<<found, WhileItCounted(qso, ""), WhileItCounted(qso, "MY_")>>)
=============================================================================
