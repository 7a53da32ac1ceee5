--------------------------- MODULE AdifValidator ---------------------------
(***************************************************************************)
(* tools/adifvalidator/adifparse.py: the machine that reads an ADIF file   *)
(* one byte at a time, checks each field as it ends and each record at its *)
(* <EOR>. A name, a size and a value are one symbol each; sizes count      *)
(* symbols.                                                                *)
(***************************************************************************)
EXTENDS AdifRecord

CONSTANTS
    TwoRecords,    \* whether a plain record may follow the one varied
    Lines          \* whether a line end may stand between fields

VARIABLES file, written, sound,   \* the file, what its writer meant, and
                                  \* whether it was written without a slip
          at,                     \* bytes read
          adifState, adifTag, adifSize, adifType, adifValue, adifLen,
          inHeader, qso, records, \* the record under way, those verified
          pending, printed, crashed

vars == <<file, written, sound, at, adifState, adifTag, adifSize, adifType, adifValue, adifLen,
          inHeader, qso, records, pending, printed, crashed>>
field == <<adifTag, adifSize, adifType, adifValue, adifLen>>

(***************************************************************************)
(* The files.                                                              *)
(***************************************************************************)
Digit(n) == <<"0", "1", "2", "3", "4">>[n + 1]
SizeOf(c) == CASE c = "0" -> 0 [] c = "1" -> 1 [] c = "2" -> 2 [] c = "3" -> 3 [] c = "4" -> 4
Digits == {"0", "1", "2", "3", "4"}

Field(name, value) == [name |-> name, size |-> Digit(Len(value)), type |-> "", value |-> value]
Spelt(f) ==
    <<"<", f.name, ":", f.size>> \o (IF f.type = "" THEN <<>> ELSE <<":", f.type>>) \o <<">">> \o f.value
Base == <<Field("CALL", <<"K1ABC">>), Field("QSO_DATE", <<"20260101">>), Field("TIME_ON", <<"1200">>),
          Field("BAND", <<"20M">>), Field("MODE", <<"CW">>)>>
Swaps == {<<2, "20261301">>, <<2, "19400101">>, <<3, "12H0">>, <<4, "99X">>, <<5, "DATA">>, <<5, "SSB">>}
Extras ==
    {Field(e[1], <<e[2]>>) : e \in
       {<<"SUBMODE", "USB">>, <<"SUBMODE", "PCW">>, <<"GRIDSQUARE", "ZZ">>, <<"GRIDSQUARE", "FN42">>,
        <<"DXCC", "291">>, <<"DXCC", "3">>, <<"DXCC", "999">>, <<"STATE", "MA">>, <<"STATE", "XX">>,
        <<"CNTY", "ESSEX">>, <<"CNTY", "X">>, <<"COUNTRY", "CANADA">>, <<"CQZ", "5">>, <<"CQZ", "99">>,
        <<"ITUZ", "8">>, <<"FREQ", "14.025">>, <<"FREQ", "7.010">>, <<"TIME_OFF", "1100">>,
        <<"SILENT_KEY", "Q">>, <<"IOTA", "NA-148">>, <<"LAT", "N">>, <<"BAND_RX", "20M">>,
        <<"APP_X", "v">>, <<"JUNK", "v">>, <<"CALL", "K1XYZ">>}}
\* The other station, the logging one, and lists of squares and counties.
Places ==
    {Field(e[1], <<e[2]>>) : e \in
       {<<"STATE", "MA">>, <<"STATE", "HI">>, <<"STATE", "AK">>, <<"DXCC", "2">>, <<"DXCC", "0">>, <<"DXCC", "153">>,
        <<"CNTY", "ON,ESSEX">>, <<"USACA_COUNTIES", "MA,ESSEX:X">>, <<"VUCC_GRIDS", "FN42,ZZ">>, <<"CQZ", "31">>,
        <<"QSO_DATE_OFF", "19400101">>, <<"TIME_OFF", "1200">>,
        <<"MY_DXCC", "291">>, <<"MY_DXCC", "2">>, <<"MY_COUNTRY", "CANADA">>, <<"MY_STATE", "MA">>, <<"MY_STATE", "HI">>,
        <<"MY_CNTY", "ESSEX">>, <<"MY_ITUZ", "8">>, <<"MY_ITUZ", "08">>, <<"MY_CQZ", "21">>}}
\* Values the machine could trip over, and fields whose size is a slip.
Odd == {Field("COMMENT", v) : v \in {<<>>, <<"a", "CR", "LF">>, <<"a", "LF">>, <<"CR", "b">>, <<"<", "EOR", ">">>}}
         \cup {[Field("COMMENT", <<"a">>) EXCEPT !.type = t] : t \in {"S", "N", "Z"}}
Slips == {[Field("COMMENT", <<"a">>) EXCEPT !.size = s] : s \in {"0", "2", "x"}}

EOR == <<"<", "EOR", ">">>
SpeltRecord(fields, sep) == FoldLeft(LAMBDA out, f : out \o Spelt(f) \o sep, <<>>, fields) \o EOR
Meant(fields) == FoldLeft(LAMBDA q, f : [t \in {f.name} |-> f.value] @@ q, <<>>, fields)
Headers == {<<>>, <<"text", "LF", "<", "EOH", ">">>,
            <<"text", "<", "ADIF_VER", ":", "1", ">", "3", "<", "EOH", ">">>}

Varied ==
    {Base \o <<e>> : e \in Extras \cup Odd \cup Slips}
      \cup {[Base EXCEPT ![s[1]].value = <<s[2]>>] \o e : s \in Swaps, e \in {<<>>} \cup {<<x>> : x \in Extras}}
      \cup {Base \o <<e, f>> : e \in Extras \cup Odd, f \in Extras}
      \cup {Base \o <<e, f>> : e \in Places, f \in Places}
      \cup {RemoveAt(Base, i) : i \in DOMAIN Base}

\* A field with no text directly before a "<" is a valid file, and the one
\* valid spelling the machine does not read: see DATA below.
Readable(fields, sep) ==
    \A i \in DOMAIN fields : fields[i] \notin Slips /\ (fields[i].value = <<>> => sep # <<>>)

Separators == {<<>>} \cup (IF Lines THEN {<<"CR", "LF">>} ELSE {})

Init ==
    /\ \E fields \in Varied, sep \in Separators, h \in Headers, more \in {FALSE, TwoRecords} :
         /\ h # <<>> => Len(fields) <= 5
         /\ file = h \o SpeltRecord(fields, sep) \o (IF more THEN SpeltRecord(Base, sep) ELSE <<>>)
         /\ written = <<Meant(fields)>> \o (IF more THEN <<Meant(Base)>> ELSE <<>>)
         /\ sound = Readable(fields, sep)
    \* The first byte tells whether there is a header.
    /\ inHeader = (file[1] # "<")
    /\ at = IF file[1] = "<" THEN 0 ELSE 1
    /\ adifState = "BEGIN"
    /\ adifTag = "" /\ adifSize = "" /\ adifType = "" /\ adifValue = <<>> /\ adifLen = 0
    /\ qso = <<>>
    /\ records = <<>>
    /\ pending = <<>> /\ printed = <<>>
    /\ crashed = FALSE

(***************************************************************************)
(* The machine.                                                            *)
(***************************************************************************)
Same == UNCHANGED <<file, written, sound>>
Joined(text, c) == IF text = "" THEN c ELSE text \o c
TextOf(value) == IF value = <<>> THEN "" ELSE IF Len(value) = 1 THEN value[1] ELSE "lines"

\* getByte, in a state that reads one.
Ahead == IF at < Len(file) THEN {file[at + 1]} ELSE {}
Reads == at' = at + 1
LineEnd(c) == c \in {"CR", "LF"} /\ adifState \notin {"GET_DATA", "GET_NEWLINE"}
In(s) == adifState = s /\ ~crashed
\* What is pending is written at the next record, before it is checked.
spewCompliance(whats) == printed' = printed \o whats
\* complianceError, for as many as there are.
Errors(whats) == pending' = pending \o SetToSeq(whats)
\* Mutant: a field given twice keeps its first value.
SetTagKeepsFirst(tag, value) == qso' = qso @@ [t \in {tag} |-> value]
SetTag(tag, value) == qso' = [t \in {tag} |-> value] @@ qso
Twice(tag) == IF tag \in DOMAIN qso THEN {<<"twice", tag>>} ELSE {}
Outside == UNCHANGED <<inHeader, records, printed, crashed>>

SkipLineEnd ==
    /\ ~crashed /\ adifState # "CHECK"
    /\ \E c \in Ahead :
      /\ LineEnd(c)
      /\ Reads
      /\ Same /\ Outside /\ UNCHANGED <<adifState, field, qso, pending>>

Next1(c) == ~LineEnd(c) /\ Reads /\ Same /\ Outside

Begin ==
    /\ In("BEGIN")
    /\ \E c \in Ahead :
         /\ Next1(c)
         /\ adifState' = IF c = "<" THEN "GET_NAME" ELSE "BEGIN"
    /\ UNCHANGED <<field, qso, pending>>

GetName ==
    /\ In("GET_NAME")
    /\ \E c \in Ahead :
         /\ Next1(c)
         /\ adifState' = (CASE c = ":" -> "GET_SIZE" [] c = ">" -> "CHECK" [] OTHER -> "GET_NAME")
         /\ adifTag' = IF c \in {":", ">"} THEN adifTag ELSE Joined(adifTag, c)
    /\ UNCHANGED <<adifSize, adifType, adifValue, adifLen, qso, pending>>

GetSize ==
    /\ In("GET_SIZE")
    /\ \E c \in Ahead :
         /\ Next1(c)
         /\ adifState' = (CASE c = ":" -> "GET_TYPE" [] c = ">" -> "GET_DATA" [] OTHER -> "GET_SIZE")
         /\ IF c \in {":", ">"} THEN UNCHANGED <<adifSize, adifLen, pending>>
            ELSE /\ adifSize' = Joined(adifSize, c)
                 /\ adifLen' = IF adifSize' \in Digits THEN SizeOf(adifSize') ELSE adifLen
                 /\ Errors(IF adifSize' \in Digits THEN {} ELSE {<<"length", adifTag>>})
    /\ UNCHANGED <<adifTag, adifType, adifValue, qso>>

GetType ==
    /\ In("GET_TYPE")
    /\ \E c \in Ahead :
         /\ Next1(c)
         /\ adifState' = IF c = ">" THEN "GET_DATA" ELSE "GET_TYPE"
         /\ adifType' = IF c = ">" THEN adifType ELSE Joined(adifType, c)
         /\ Errors(IF c = ">" /\ adifType # "" /\ adifType \notin dataTypes THEN {<<"type", adifTag>>} ELSE {})
    /\ UNCHANGED <<adifTag, adifSize, adifValue, adifLen, qso>>

\* The byte read for a field of size 0 is not the field's: it is dropped, a
\* "<" included.
GetData ==
    /\ In("GET_DATA")
    /\ \E c \in Ahead :
         /\ Next1(c)
         /\ LET value == IF adifLen = 0 THEN adifValue ELSE Append(adifValue, c)
                left == IF adifLen = 0 THEN 0 ELSE adifLen - 1
                bare == IF adifLen # 0 /\ c = "LF" THEN {<<"newline", adifTag>>} ELSE {}
            IN /\ adifValue' = value
               /\ adifLen' = left
               /\ adifState' = IF left = 0 THEN "CHECK" ELSE IF c = "CR" THEN "GET_NEWLINE" ELSE "GET_DATA"
               /\ IF left = 0 THEN SetTag(adifTag, value) ELSE UNCHANGED qso
               /\ Errors(bare \cup IF left = 0 THEN Twice(adifTag) ELSE {})
    /\ UNCHANGED <<adifTag, adifSize, adifType>>

GetNewline ==
    /\ In("GET_NEWLINE")
    /\ \E c \in Ahead :
         /\ Next1(c)
         /\ adifValue' = Append(adifValue, c)
         /\ adifLen' = adifLen - 1
         /\ adifState' = IF adifLen = 1 THEN "CHECK" ELSE "GET_DATA"
         /\ IF adifLen = 1 THEN SetTag(adifTag, adifValue') ELSE UNCHANGED qso
         /\ Errors((IF c # "LF" THEN {<<"return", adifTag>>} ELSE {})
                     \cup IF adifLen = 1 THEN Twice(adifTag) ELSE {})
    /\ UNCHANGED <<adifTag, adifSize, adifType>>

\* What the field says of itself and of its place, in that order.
FieldErrors(tag) ==
    LET size == IF adifSize \in Digits THEN SizeOf(adifSize) ELSE 0
        found == IF tag = "EOH" THEN Clean ELSE verifyTag(tag, TextOf(adifValue), size, adifType)
        placed ==
           IF inHeader
           THEN All(<<If(tag \notin headerTags, ComplianceError(<<"not a header tag", tag>>)),
                      If(tag = "EOR", ComplianceError(<<"EOR in the header">>))>>)
           ELSE All(<<If(tag \notin DOMAIN qsoTags, ComplianceError(<<"not a tag", tag>>)),
                      If(tag = "EOH", ComplianceError(<<"EOH in a record">>))>>)
    IN Then(found, placed)

\* The end of a field; at an <EOR>, verifyQSO: first what is pending is
\* written, then the record is checked, and what that finds becomes pending.
Check ==
    /\ In("CHECK")
    /\ LET ignored == adifTag = "APP_X"
           found == IF ignored THEN Clean ELSE FieldErrors(adifTag)
           whole == IF adifTag \in DOMAIN qso THEN qso ELSE [t \in {adifTag} |-> adifValue] @@ qso
           record == [t \in DOMAIN whole \ {"EOR"} |-> whole[t]]
           verdict == verifyQSO([t \in DOMAIN record |-> TextOf(record[t])])
           ends == adifTag = "EOR" /\ ~found.crash
           before == pending \o SetToSeq(found.comp)
       IN /\ inHeader' = (inHeader /\ adifTag # "EOH")
          /\ qso' = IF ends \/ (inHeader /\ adifTag = "EOH") THEN <<>> ELSE IF ignored THEN qso ELSE whole
          /\ records' = IF ends THEN Append(records, record) ELSE records
          /\ IF ends THEN spewCompliance(before) ELSE UNCHANGED printed
          /\ pending' = IF ends THEN SetToSeq(verdict.comp) ELSE before
          /\ crashed' = (found.crash \/ (ends /\ verdict.crash))
    /\ adifState' = "BEGIN"
    /\ adifTag' = "" /\ adifSize' = "" /\ adifType' = "" /\ adifValue' = <<>> /\ adifLen' = 0
    /\ Same /\ UNCHANGED at

Ended == ~crashed /\ at = Len(file) /\ adifState # "CHECK"
Done == (Ended \/ crashed) /\ UNCHANGED vars

Next == SkipLineEnd \/ Begin \/ GetName \/ GetSize \/ GetType \/ GetData \/ GetNewline \/ Check \/ Done

Spec == Init /\ [][Next]_vars

(***************************************************************************)
(* Properties.                                                             *)
(***************************************************************************)

\* A file written without a slip is read as it was meant: the records checked
\* are the records written, whatever bytes their values hold.
RecordsReadBack == Ended /\ sound => records = written

\* A file the validator counts a compliance error in is a file the gate fails:
\* at least one of its errors is written where the gate looks for them ("WHAT
\* FAILS THE RUN: any Compliance error ... a SUBMODE of the wrong MODE").
InvalidFileFailsTheGate == Ended /\ pending # <<>> => printed # <<>>
=============================================================================
