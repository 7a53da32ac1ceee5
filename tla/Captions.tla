------------------------------ MODULE Captions ------------------------------
(***************************************************************************)
(* The journey of one English caption, a text of a tr4w_ catalogue, to the *)
(* translation engine and back (tools/i18n/mt_seed.py), and the questions  *)
(* po_lint.py asks of the result.  A text is a sequence of characters, the *)
(* ones outside ASCII and the controls by a name.  The texts of the help   *)
(* catalogue, in which the names of commands are masked too and no "&" is  *)
(* an accelerator, are left out.                                           *)
(***************************************************************************)
EXTENDS Naturals, Sequences, SequencesExt, FiniteSets

LOWER == <<"a", "b", "c", "d", "e", "f", "g", "h", "i", "j", "k", "l", "m",
           "n", "o", "p", "q", "r", "s", "t", "u", "v", "w", "x", "y", "z">>
UPPER == <<"A", "B", "C", "D", "E", "F", "G", "H", "I", "J", "K", "L", "M",
           "N", "O", "P", "Q", "R", "S", "T", "U", "V", "W", "X", "Y", "Z">>
Digits == {"0", "1", "2", "3", "4", "5", "6", "7", "8", "9"}
Letters == ToSet(LOWER) \cup ToSet(UPPER)
AlphaNum == Letters \cup Digits
Upper(c) == IF Contains(LOWER, c) THEN UPPER[CHOOSE i \in DOMAIN LOWER : LOWER[i] = c] ELSE c
Blanks == {" ", "TAB", "CR", "LF"}

At(text, i) == IF i \in DOMAIN text THEN text[i] ELSE ""
CapFrom(text, i) == SubSeq(text, i, Len(text))
\* The first place from i on that holds none of chars.
Past(text, i, chars) == CHOOSE k \in i..(Len(text) + 1) :
                           At(text, k) \notin chars /\ \A m \in i..(k - 1) : text[m] \in chars

\* finditer: what End finds, from left to right, none within another.  End says
\* where the match at i ends, or 0.
Spans(text, End(_, _)) ==
    LET from[i \in 1..(Len(text) + 1)] ==
            IF i > Len(text) THEN <<>>
            ELSE IF End(text, i) = 0 THEN from[i + 1]
            ELSE <<[at |-> i, end |-> End(text, i) - 1]>> \o from[End(text, i)]
    IN from[1]
Found(text, End(_, _)) == LET s == Spans(text, End) IN [k \in DOMAIN s |-> SubSeq(text, s[k].at, s[k].end)]

\* A specifier: flags, a width, a precision after a point, and a type.
Number(text, i, star) == IF star /\ At(text, i) = "*" THEN i + 1 ELSE Past(text, i, Digits)
SpecEnd(text, i, flags, star, types) ==
    LET width == Number(text, Past(text, i + 1, flags), star)
        point == At(text, width) = "." /\ Number(text, width + 1, star) > width + 1
        type == IF point THEN Number(text, width + 1, star) ELSE width
    IN IF At(text, i) = "%" /\ At(text, type) \in types THEN type + 1 ELSE 0

\* wsprintf's, and %% which takes no argument; and po_lint's own.
PlaceholderEnd(text, i) ==
    SpecEnd(text, i, {"-", "#", "0"}, TRUE, {"c", "C", "d", "i", "s", "S", "u", "X", "x", "%"})
LintEnd(text, i) ==
    SpecEnd(text, i, {"-", "+", "#", "0"}, FALSE, {"s", "d", "u", "x", "X", "c", "f", "g", "e", "E", "p"})
SpecifierTypes(text) ==
    LET ps == SelectSeq(Found(text, PlaceholderEnd), LAMBDA p : p # <<"%", "%">>)
    IN [k \in DOMAIN ps |-> Last(ps[k])]
LintSpecifiers(text) == Found(text, LintEnd)

LiteralEnd(text, i) == IF At(text, i) = "&" /\ At(text, i + 1) = "&" THEN i + 2 ELSE 0
LoneAmps(text) == {i \in DOMAIN text : text[i] = "&" /\ At(text, i - 1) # "&" /\ At(text, i + 1) # "&"}

\* str.strip, and what it takes away.
Lead(text) == SubSeq(text, 1, Past(text, 1, Blanks) - 1)
Trail(text) == Reverse(Lead(Reverse(text)))
Stripped(text) == LET t == CapFrom(text, Len(Lead(text)) + 1) IN SubSeq(t, 1, Len(t) - Len(Trail(t)))
MirrorEdgeSpace(src, text) == Lead(src) \o Stripped(text) \o Trail(src)

------------------------------------------------------------------------------
\* mt_seed: what a machine is asked to translate: two letters in a row, and no
\* name that is the same everywhere, address, or name of a control.  The names
\* of function keys and bare numbers have no two letters.

INVARIANT_NAMES == {<<"O", "K">>, <<"Q", "T", "H">>, <<"D", "X">>, <<"C", "W">>, <<"P", "T", "T">>, <<"R", "I", "T">>,
                    <<"X", "I", "T">>, <<"W", "P", "M">>, <<"S", "C", "P">>, <<"C", "T", "Y", ".", "D", "A", "T">>,
                    <<"T", "R", "4", "W">>, <<"M", "M", "T", "T", "Y">>, <<"L", "P", "T">>, <<"S", "H", "/", "5", "0">>,
                    <<"X", "-", "Q", "S", "O">>, <<"I", "O", "T", "A">>, <<"I", "O", "T", "A", ":">>, <<"I", "N", "H">>,
                    <<"S", "&", "P">>}
WIDGETS == {<<"l", "b", "l">>, <<"b", "t", "n">>, <<"c", "h", "k">>, <<"e", "d", "t">>, <<"c", "b", "x">>, <<"c", "b", "o">>,
            <<"l", "s", "t">>, <<"p", "n", "l">>, <<"g", "r", "p">>, <<"r", "a", "d">>, <<"m", "e", "m">>, <<"i", "m", "g">>,
            <<"t", "v">>, <<"l", "a", "y">>, <<"f", "r", "m">>, <<"d", "l", "g">>}
WithoutAmp(text) == LET i == SelectInSeq(text, LAMBDA c : c = "&") IN IF i = 0 THEN text ELSE RemoveAt(text, i)
IsAddress(text) == LET scheme == Past(text, 1, Letters)
                       capital == [i \in DOMAIN text |-> Upper(text[i])]
                   IN \/ scheme > 1 /\ IsPrefix(<<":", "/", "/">>, CapFrom(text, scheme))
                      \/ IsPrefix(<<"W", "W", "W", ".">>, capital)
                      \/ IsPrefix(<<"M", "A", "I", "L", "T", "O", ":">>, capital)
IsControlName(text) == \E prefix \in WIDGETS : /\ IsPrefix(prefix, text)
                                               /\ At(text, Len(prefix) + 1) \in ToSet(UPPER)
                                               /\ ToSet(text) \subseteq AlphaNum
IsTranslatable(source) ==
    LET s == Stripped(source) IN
    /\ {s, WithoutAmp(s)} \cap INVARIANT_NAMES = {}
    /\ ~IsAddress(s)
    /\ \E i \in DOMAIN s : s[i] \in Letters /\ At(s, i + 1) \in Letters
    /\ ~IsControlName(s)

------------------------------------------------------------------------------
\* The accelerator out, and in again.

NoLetter == ""
Plain(text, letter) == [text |-> text, letter |-> letter]
SplitAccelerator(text) ==
    LET i == CHOOSE i \in LoneAmps(text) : TRUE IN
    IF Cardinality(LoneAmps(text)) = 1 /\ At(text, i + 1) \in Letters
    THEN Plain(RemoveAt(text, i), text[i + 1])
    ELSE Plain(text, NoLetter)

\* Before a trailing ellipsis or colon and the blanks around it.
Closings == {<<".", ".", ".">>, <<"ellipsis">>, <<":">>, <<"wide colon">>}
BeforeBlanks(text) == SubSeq(text, 1, Len(text) - Len(Trail(text)))
BeforeTail(text) ==
    LET t == BeforeBlanks(text)
        closing == {c \in Closings : IsSuffix(c, t)}
    IN IF closing = {} THEN t ELSE BeforeBlanks(SubSeq(t, 1, Len(t) - Len(CHOOSE c \in closing : TRUE)))

\* Mutant: a letter of a specifier will do.
BlockedNone(text) == {}
\* Within a specifier or a literal &&, or right after the latter.
Blocked(text) ==
    LET specs == Spans(text, PlaceholderEnd)
        literals == Spans(text, LiteralEnd)
    IN UNION ({specs[k].at..specs[k].end : k \in DOMAIN specs}
              \cup {literals[k].at..(literals[k].end + 1) : k \in DOMAIN literals})
PlaceAccelerator(text, letter, suffix) ==
    LET stem == BeforeTail(text)
        hits == {i \in DOMAIN text : Upper(text[i]) = Upper(letter) /\ i \notin Blocked(text)}
        starts == {i \in hits : At(text, i - 1) \notin AlphaNum}
        from == IF starts # {} THEN starts ELSE hits
    IN IF letter = NoLetter THEN text
       ELSE IF suffix THEN stem \o <<"(", "&", Upper(letter), ")">> \o CapFrom(text, Len(stem) + 1)
       ELSE IF hits = {} THEN text
       ELSE InsertAt(text, CHOOSE i \in from : \A j \in from : i <= j, "&")

------------------------------------------------------------------------------
\* protect: specifiers ("ph") and literal && ("nm") travel as elements with a
\* number, everything else as the character it is ("c").
Is(k, id, text) == [k |-> k, id |-> id, text |-> text]
Protect(text) ==
    LET ph == Spans(text, PlaceholderEnd)
        nm == Spans(text, LiteralEnd)
        within(spans, i) == {n \in DOMAIN spans : i \in spans[n].at..spans[n].end}
        element(k, spans, i) == LET n == CHOOSE n \in within(spans, i) : TRUE
                                IN IF spans[n].at = i THEN <<Is(k, n - 1, SubSeq(text, i, spans[n].end))>> ELSE <<>>
    IN FlattenSeq([i \in DOMAIN text |-> IF within(ph, i) # {} THEN element("ph", ph, i)
                                         ELSE IF within(nm, i) # {} THEN element("nm", nm, i)
                                         ELSE <<Is("c", 0, <<text[i]>>)>>])

\* unprotect: wsprintf takes its arguments by position, so the specifiers must
\* come back complete and in order; the others each once.
Ids(payload, k) == LET es == SelectSeq(payload, LAMBDA e : e.k = k) IN [i \in DOMAIN es |-> es[i].id]
Sound(sent, reply) ==
    /\ Ids(reply, "ph") = Ids(sent, "ph")
    /\ Len(Ids(reply, "nm")) = Len(Ids(sent, "nm")) /\ ToSet(Ids(reply, "nm")) = ToSet(Ids(sent, "nm"))
Unprotect(reply) == FlattenSeq([i \in DOMAIN reply |-> reply[i].text])

------------------------------------------------------------------------------
\* po_lint

\* A line break is one, however it is spelled; any other control is itself.
Breaks == {<<"CR", "LF">>, <<"LF", "CR">>}
OtherControls == {"NUL", "SOH", "TAB"}
BreakEnd(text, i) == IF <<text[i], At(text, i + 1)>> \in Breaks THEN i + 2 ELSE IF text[i] \in {"CR", "LF"} THEN i + 1 ELSE 0
ControlEnd(text, i) == IF text[i] \in OtherControls THEN i + 1 ELSE BreakEnd(text, i)
Controls(text) == LET cs == Found(text, ControlEnd)
                  IN [k \in DOMAIN cs |-> IF cs[k][1] \in OtherControls THEN cs[k][1] ELSE "LF"]

QuoteOrBracket == {"\"", "<", ">", "[", "]", "{", "}", "#", "left guillemet", "right guillemet", "opening quote",
                   "closing quote", "low quote"}
AcceleratorDefects(source, target) ==
    LET src == Cardinality(LoneAmps(source))  tgt == Cardinality(LoneAmps(target))
        literals(t) == Len(Spans(t, LiteralEnd))
    IN (IF tgt > 1 /\ src < 2 THEN {"two"} ELSE {})
       \cup (IF literals(target) < literals(source) /\ tgt > src THEN {"literal"} ELSE {})
       \cup (IF \E i \in LoneAmps(target) : At(target, i + 1) \in Blanks \cup {""} THEN {"spaced"} ELSE {})
       \cup (IF src = 0 /\ tgt > 0 THEN {"added"} ELSE {})
       \cup (IF src = 1 /\ (ToSet(target) \cap QuoteOrBracket) \ ToSet(source) # {} THEN {"quote"} ELSE {})
DraftDefects(source, target) ==
    (IF Controls(source) # Controls(target) THEN {"controls"} ELSE {})
    \cup (IF LintSpecifiers(source) # LintSpecifiers(target) THEN {"specifiers"} ELSE {})
    \cup AcceleratorDefects(source, target)

------------------------------------------------------------------------------
\* seed, for one caption: cut at its #13s, sent part by part, put together, and
\* kept only when nothing is wrong with it.  <<>> is a dropped draft.  No text
\* here spells an HTML entity, which would be resolved on the way.
RECURSIVE CutAt(_)
CutAt(text) == LET i == SelectInSeq(text, LAMBDA c : c = "CR")
               IN IF i = 0 THEN <<text>> ELSE <<SubSeq(text, 1, i - 1)>> \o CutAt(CapFrom(text, i + 1))
Joined(parts) == FoldLeft(LAMBDA t, p : t \o <<"CR">> \o p, parts[1], Tail(parts))

Sent(source) == LET parts == CutAt(SplitAccelerator(source).text) IN [i \in DOMAIN parts |-> Protect(parts[i])]
Draft(source, got, suffix) ==
    LET sent == Sent(source)
        chunk == Joined([i \in DOMAIN got |-> Unprotect(got[i])])
        text == MirrorEdgeSpace(source, chunk)
        final == PlaceAccelerator(text, SplitAccelerator(source).letter, suffix)
    IN IF /\ \A i \in DOMAIN sent : Sound(sent[i], got[i])
          /\ Stripped(chunk) # <<>>
          /\ SpecifierTypes(source) = SpecifierTypes(text)
          /\ DraftDefects(source, final) = {}
       THEN final ELSE <<>>
==============================================================================
