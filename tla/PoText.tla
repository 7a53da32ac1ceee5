------------------------------- MODULE PoText -------------------------------
(***************************************************************************)
(* tools/i18n/pofile.py on the text of a catalogue: how an entry is        *)
(* spelled, read_po, and write_po, which gives every entry that was not    *)
(* changed its own text again.  A character is a string and a text a       *)
(* sequence of them.  A line is what it says it is (kind), its text,       *)
(* whether it is commented out by "#~", and how it ends.                   *)
(***************************************************************************)
EXTENDS Naturals, Sequences, SequencesExt

\* A gettext string is a C string; \r, and the controls without a name.
Named == [c \in {"\\", "\"", "LF", "CR"} |-> CASE c = "LF" -> "n" [] c = "CR" -> "r" [] OTHER -> c]
Octal == [c \in {"SOH", "NUL"} |-> IF c = "SOH" THEN <<"0", "0", "1">> ELSE <<"0", "0", "0">>]
OctalDigits == {"0", "1", "7"}

\* Mutant: a control is written with no leading zeros.
EscapeShort(text) ==
    FlattenSeq([i \in DOMAIN text |-> IF text[i] \in DOMAIN Named THEN <<"\\", Named[text[i]]>>
                                      ELSE IF text[i] \in DOMAIN Octal THEN <<"\\", Octal[text[i]][3]>>
                                      ELSE <<text[i]>>])
Escape(text) ==
    FlattenSeq([i \in DOMAIN text |-> IF text[i] \in DOMAIN Named THEN <<"\\", Named[text[i]]>>
                                      ELSE IF text[i] \in DOMAIN Octal THEN <<"\\">> \o Octal[text[i]]
                                      ELSE <<text[i]>>])

From(s, i) == SubSeq(s, i, Len(s))
Unnamed(c) == CASE c = "n" -> "LF" [] c = "r" -> "CR" [] OTHER -> c
Control(digits) == LET value == FoldLeft(LAMBDA v, d : 8 * v + (CASE d = "0" -> 0 [] d = "1" -> 1 [] d = "7" -> 7),
                                         0, digits)
                   IN CASE value = 0 -> "NUL" [] value = 1 -> "SOH" [] OTHER -> "other"

RECURSIVE Unescape(_)
Unescape(text) ==
    LET run == CHOOSE n \in 0..3 : /\ Len(text) > n
                                   /\ \A i \in 2..(n + 1) : text[i] \in OctalDigits
                                   /\ n = 3 \/ Len(text) = n + 1 \/ text[n + 2] \notin OctalDigits
    IN IF text = <<>> THEN <<>>
       ELSE IF text[1] # "\\" THEN <<text[1]>> \o Unescape(Tail(text))
       ELSE IF Len(text) = 1 THEN <<>>
       ELSE IF run > 0 THEN <<Control(SubSeq(text, 2, run + 1))>> \o Unescape(From(text, run + 2))
       ELSE <<Unnamed(text[2])>> \o Unescape(From(text, 3))

------------------------------------------------------------------------------
\* Lines

Line(kind, text, obs, end) == [kind |-> kind, text |-> text, obs |-> obs, end |-> end]
BlankLine(end) == Line("blank", <<>>, FALSE, end)
Labels == {"msgctxt", "msgid", "msgstr"}

\* _emit_string: a text with line breaks is spread over lines; only the first
\* one carries the mark of an obsolete entry.
RECURSIVE Parts(_)
Parts(text) == LET cut == SelectInSeq(text, LAMBDA c : c = "LF")
               IN IF cut = 0 THEN <<text>> ELSE <<SubSeq(text, 1, cut - 1)>> \o Parts(From(text, cut + 1))
EmitString(label, text, obs, nl) ==
    LET parts == Parts(text)
        body(i) == Escape(parts[i]) \o (IF i = Len(parts) THEN <<>> ELSE <<"\\", "n">>)
        lines == [i \in DOMAIN parts |-> Line("more", body(i), FALSE, nl)]
    IN IF Len(parts) = 1 THEN <<Line(label, Escape(text), obs, nl)>>
       ELSE <<Line(label, <<>>, obs, nl)>> \o (IF Last(parts) = <<>> THEN Front(lines) ELSE lines)

\* The fields of an entry: _state.
Entry(key, source, target, fuzzy) ==
    [key |-> key, source |-> source, target |-> target, fuzzy |-> fuzzy, notes |-> <<>>, refs |-> <<>>,
     obsolete |-> FALSE, comments |-> <<>>, flags |-> <<>>, previous |-> <<>>]

Render(e, nl) ==
    LET lines(kind, texts) == [i \in DOMAIN texts |-> Line(kind, texts[i], FALSE, nl)]
        whole(ls) == [i \in DOMAIN ls |-> [ls[i] EXCEPT !.end = nl]]
        flags == (IF e.fuzzy THEN <<"fuzzy">> ELSE <<>>) \o e.flags
    IN whole(e.comments) \o lines("note", e.notes) \o lines("ref", e.refs)
       \o (IF flags = <<>> THEN <<>> ELSE <<Line("flag", flags, FALSE, nl)>>)
       \o whole(e.previous)
       \o (IF e.key = <<>> THEN <<>> ELSE EmitString("msgctxt", e.key, e.obsolete, nl))
       \o EmitString("msgid", e.source, e.obsolete, nl) \o EmitString("msgstr", e.target, e.obsolete, nl)

------------------------------------------------------------------------------
\* _parse_block

NoBlock == [notes |-> <<>>, refs |-> <<>>, comments |-> <<>>, flags |-> <<>>, previous |-> <<>>, fuzzy |-> FALSE,
            obsolete |-> FALSE, field |-> "", parts |-> [l \in Labels |-> <<>>], named |-> FALSE]
ReadLine(b0, line) ==
    LET b == [b0 EXCEPT !.obsolete = @ \/ line.obs]
        bare == [line EXCEPT !.end = ""]
    IN CASE line.kind = "note" -> [b EXCEPT !.notes = Append(@, line.text)]
         [] line.kind = "ref" -> [b EXCEPT !.refs = Append(@, line.text)]
         [] line.kind = "flag" -> [b EXCEPT !.fuzzy = Contains(line.text, "fuzzy"),
                                            !.flags = @ \o SelectSeq(line.text, LAMBDA f : f # "fuzzy")]
         [] line.kind = "prev" -> [b EXCEPT !.previous = Append(@, bare)]
         [] line.kind = "comment" -> [b EXCEPT !.comments = Append(@, bare)]
         [] line.kind \in Labels -> [b EXCEPT !.field = line.kind, !.parts[line.kind] = line.text,
                                              !.named = @ \/ line.kind # "msgstr"]
         [] line.kind = "more" -> IF b.field = "" THEN b ELSE [b EXCEPT !.parts[b.field] = @ \o line.text]

Block(lines) == FoldLeft(ReadLine, NoBlock, lines)
IsMessage(b) == b.named
IsHeader(b) == b.named /\ b.parts["msgid"] = <<>> /\ b.parts["msgctxt"] = <<>>
EntryOf(b) ==
    [key |-> Unescape(b.parts["msgctxt"]), source |-> Unescape(b.parts["msgid"]), target |-> Unescape(b.parts["msgstr"]),
     fuzzy |-> b.fuzzy, notes |-> b.notes, refs |-> b.refs, obsolete |-> b.obsolete, comments |-> b.comments,
     flags |-> b.flags, previous |-> b.previous]

------------------------------------------------------------------------------
\* read_po: runs of blank and of other lines; a run before an entry that is no
\* entry itself travels with it.

\* What write_po needs of an entry that was read: its place and its own text.
Kept(e, lead, raw) == [e |-> e, lead |-> lead, raw |-> raw, snap |-> e]
\* An entry a caller made.
Made(e) == [e |-> e, lead |-> <<>>, raw |-> <<>>, snap |-> <<>>]

RECURSIVE Runs(_)
Runs(lines) ==
    LET blank(i) == lines[i].kind = "blank"
        n == CHOOSE k \in DOMAIN lines : /\ \A i \in 1..k : blank(i) = blank(1)
                                         /\ k = Len(lines) \/ blank(k + 1) # blank(1)
    IN IF lines = <<>> THEN <<>> ELSE <<SubSeq(lines, 1, n)>> \o Runs(From(lines, n + 1))

ReadRun(r, run) ==
    LET b == Block(run)
        pending == r.pending \o run
    IN IF run[1].kind = "blank" \/ ~IsMessage(b) THEN [r EXCEPT !.pending = pending]
       ELSE IF ~IsHeader(b)
       THEN [r EXCEPT !.entries = Append(@, Kept(EntryOf(b), r.pending, run)), !.pending = <<>>]
       ELSE IF r.header = <<>> /\ r.entries = <<>> THEN [r EXCEPT !.header = pending, !.pending = <<>>]
       ELSE [r EXCEPT !.pending = pending]

Newline(lines) == LET crlf == Len(SelectSeq(lines, LAMBDA l : l.end = "CRLF"))
                      lf == Len(SelectSeq(lines, LAMBDA l : l.end = "LF"))
                  IN IF crlf >= lf THEN "CRLF" ELSE "LF"

ReadPo(file) ==
    LET r == FoldLeft(ReadRun, [header |-> <<>>, entries |-> <<>>, pending |-> <<>>], Runs(file.lines))
    IN [cat |-> [header |-> r.header, tail |-> r.pending, newline |-> Newline(file.lines), bom |-> file.bom],
        entries |-> r.entries]

------------------------------------------------------------------------------
\* write_po.  The catalogue is that of the first entry that was read; a file
\* of new entries alone gets a header of its own.

Template == <<Line("msgid", <<>>, FALSE, "CRLF"), Line("msgstr", <<>>, FALSE, "CRLF"),
              Line("more", <<"Language">>, FALSE, "CRLF")>>
Ended(lines, nl) == IF lines # <<>> /\ Last(lines).end = "" THEN [lines EXCEPT ![Len(lines)].end = nl] ELSE lines

Verbatim(k) == k.raw # <<>> /\ k.e = k.snap
WriteEntry(out, k, nl) ==
    IF Verbatim(k) THEN out \o k.lead \o k.raw
    ELSE IF k.raw # <<>> THEN out \o k.lead \o Render(k.e, nl)
    ELSE Ended(out, nl) \o <<BlankLine(nl)>> \o Render(k.e, nl)

WritePo(cat, entries) ==
    IF \E i \in DOMAIN entries : entries[i].raw # <<>>
    THEN [bom |-> cat.bom,
          lines |-> FoldLeft(LAMBDA out, k : WriteEntry(out, k, cat.newline), cat.header, entries) \o cat.tail]
    ELSE [bom |-> FALSE,
          lines |-> FoldLeft(LAMBDA out, k : WriteEntry(out, k, "CRLF"), Template, entries) \o <<BlankLine("CRLF")>>]

------------------------------------------------------------------------------
\* defuzz of po_defuzz.py: a flag line of "fuzzy" alone goes, another one keeps
\* its other flags.  Every line end is a line feed in the copy.

BareFuzzy(line) == line.kind = "flag" /\ line.text = <<"fuzzy">>
Unflagged(line) == IF line.kind = "flag" THEN [line EXCEPT !.text = SelectSeq(@, LAMBDA f : f # "fuzzy")] ELSE line
Defuzz(file) ==
    LET kept == SelectSeq(file.lines, LAMBDA l : ~BareFuzzy(l))
        end(i) == IF i = Len(kept) /\ Last(file.lines).end = "" THEN "" ELSE "LF"
    IN [file EXCEPT !.lines = [i \in DOMAIN kept |-> [Unflagged(kept[i]) EXCEPT !.end = end(i)]]]
==============================================================================
