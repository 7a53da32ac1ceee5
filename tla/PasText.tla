------------------------------- MODULE PasText -------------------------------
(***************************************************************************)
(* tools/i18n/pasconsts.py: the string expressions of Pascal, the lines of *)
(* a language table, and the text of a .ts file; and the unit pas2res.py   *)
(* makes of a table.  A character is a string and a text a sequence of     *)
(* them.                                                                   *)
(***************************************************************************)
EXTENDS Naturals, Sequences, SequencesExt, TLC

\* The characters with a name here, by their codes; another is known by its code.
Ord == [c \in {"NUL", "SOH", "TAB", "LF", "CR", " ", "\"", "#", "'", "+", "/", "1", ";", "\\", "a", "b", "n", "o", "DEL"} |->
           CASE c = "NUL" -> 0 [] c = "SOH" -> 1 [] c = "TAB" -> 9 [] c = "LF" -> 10 [] c = "CR" -> 13 [] c = " " -> 32
             [] c = "\"" -> 34 [] c = "#" -> 35 [] c = "'" -> 39 [] c = "+" -> 43 [] c = "/" -> 47 [] c = "1" -> 49
             [] c = ";" -> 59 [] c = "\\" -> 92 [] c = "a" -> 97 [] c = "b" -> 98 [] c = "n" -> 110 [] c = "o" -> 111
             [] c = "DEL" -> 127]
Chr(code) == IF \E c \in DOMAIN Ord : Ord[c] = code THEN CHOOSE c \in DOMAIN Ord : Ord[c] = code
             ELSE "chr " \o ToString(code)
Controls == {c \in DOMAIN Ord : Ord[c] < 32 \/ Ord[c] = 127}

Digits == <<"0", "1", "2", "3", "4", "5", "6", "7", "8", "9">>
HexDigits == Digits \o <<"A", "B", "C", "D", "E", "F", "a", "b", "c", "d", "e", "f">>
DigitValue(d) == LET i == SelectInSeq(HexDigits, LAMBDA x : x = d) - 1 IN IF i < 16 THEN i ELSE i - 6

PasFrom(s, i) == SubSeq(s, i, Len(s))

\* encode_string_expr: quoted runs, and #NN for a control.
RECURSIVE Decimal(_)
Decimal(n) == IF n < 10 THEN <<Digits[n + 1]>> ELSE Append(Decimal(n \div 10), Digits[(n % 10) + 1])
Doubled(run) == FlattenSeq([i \in DOMAIN run |-> IF run[i] = "'" THEN <<"'", "'">> ELSE <<run[i]>>])
Quoted(run) == IF run = <<>> THEN <<>> ELSE <<"'">> \o Doubled(run) \o <<"'">>

EncodeStringExpr(value) ==
    LET r == FoldLeft(LAMBDA s, c : IF c \in Controls
                                    THEN [out |-> s.out \o Quoted(s.run) \o <<"#">> \o Decimal(Ord[c]), run |-> <<>>]
                                    ELSE [s EXCEPT !.run = Append(@, c)],
                      [out |-> <<>>, run |-> <<>>], value)
    IN IF value = <<>> THEN <<"'", "'">> ELSE r.out \o Quoted(r.run)

\* parse_string_expr at a place: the value and the place after the expression;
\* at = 0 when there is none.
Parsed(value, at) == [value |-> value, at |-> at]
NotAString == Parsed(<<>>, 0)

RECURSIVE Literal(_, _)
\* The rest of a literal from i on; at = 0 when it is not closed.
Literal(text, i) ==
    LET rest(n, cs) == LET l == Literal(text, i + n) IN [l EXCEPT !.value = cs \o @]
    IN IF i > Len(text) THEN NotAString
       ELSE IF text[i] # "'" THEN rest(1, <<text[i]>>)
       ELSE IF i < Len(text) /\ text[i + 1] = "'" THEN rest(2, <<"'">>)
       ELSE Parsed(<<>>, i + 1)

\* The number of digits from i on, and what they say.
Run(text, i, digits) == CHOOSE n \in 0..(Len(text) + 1 - i) :
                           /\ \A k \in i..(i + n - 1) : text[k] \in digits
                           /\ i + n > Len(text) \/ text[i + n] \notin digits
Value(digits, base) == FoldLeft(LAMBDA v, d : v * base + DigitValue(d), 0, digits)

\* The character code at i, "#NN" or "#$HH"; at = 0 when there is none.
CharCode(text, i) ==
    LET hex == i < Len(text) /\ text[i + 1] = "$"
        from == IF hex THEN i + 2 ELSE i + 1
        n == Run(text, from, ToSet(IF hex THEN HexDigits ELSE Digits))
    IN IF from > Len(text) \/ n = 0 THEN NotAString
       ELSE Parsed(<<Chr(Value(SubSeq(text, from, from + n - 1), IF hex THEN 16 ELSE 10))>>, from + n)

Separators == {" ", "TAB", "+"}

RECURSIVE Parse(_, _, _, _)
Parse(text, i, value, end) ==
    LET l == Literal(text, i + 1)
        c == CharCode(text, i)
        next == i + Run(text, i, Separators)
    IN IF i > Len(text) THEN Parsed(value, end)
       ELSE CASE text[i] = "'" -> IF l.at = 0 THEN NotAString ELSE Parse(text, l.at, value \o l.value, l.at)
              [] text[i] = "#" -> IF c.at = 0 THEN Parsed(value, end) ELSE Parse(text, c.at, value \o c.value, c.at)
              [] text[i] \in Separators -> IF next <= Len(text) /\ text[next] \in {"'", "#"}
                                           THEN Parse(text, next, value, end) ELSE Parsed(value, end)
              [] OTHER -> Parsed(value, end)
ParseStringExpr(text, pos) == Parse(text, pos, <<>>, 0)

\* split_trailing_comment: after the value, so "//" in it is a comment; one of
\* blanks alone is none.
RECURSIVE PasStrip(_)
PasStrip(s) == IF s = <<>> THEN s
               ELSE IF Head(s) \in {" ", "TAB"} THEN PasStrip(Tail(s))
               ELSE IF Last(s) \in {" ", "TAB"} THEN PasStrip(Front(s)) ELSE s
SplitTrailingComment(suffix) ==
    LET at == {i \in 1..(Len(suffix) - 1) : suffix[i] = "/" /\ suffix[i + 1] = "/"}
    IN IF at = {} THEN <<>> ELSE PasStrip(PasFrom(suffix, 2 + CHOOSE i \in at : \A k \in at : i <= k))

------------------------------------------------------------------------------
\* A line of a table: a banner, which may be a heading or prose
\* (is_section_banner); a comment, a declaration commented out among them; or
\* a name and the code after its "=".  How lines end is told by the file's form.
\* A name has a prefix and a suffix that tools look at.
Name(prefix, stem, suffix) == [prefix |-> prefix, stem |-> stem, suffix |-> suffix]
Banner(label, prose) == [kind |-> "banner", name |-> label, prose |-> prose, code |-> <<>>]
CommentLine == [kind |-> "comment", name |-> "", prose |-> FALSE, code |-> <<>>]
CodeLine(name, code) == [kind |-> "code", name |-> name, prose |-> FALSE, code |-> code]

\* parse_lang_file: the constants with one of the prefixes, in the file's order.
IsDecl(line) == line.kind = "code" /\ ParseStringExpr(line.code, 1).at > 0
DeclOf(line, at, context) ==
    LET p == ParseStringExpr(line.code, 1) IN
    [name |-> line.name, value |-> p.value, context |-> context, lineno |-> at,
     comment |-> SplitTrailingComment(PasFrom(line.code, p.at))]
ReadLine(s, line) ==
    LET r == [s EXCEPT !.lineno = @ + 1] IN
    IF line.kind = "banner" /\ ~line.prose THEN [r EXCEPT !.context = line.name]
    ELSE IF IsDecl(line) THEN [r EXCEPT !.decls = Append(@, DeclOf(line, r.lineno, s.context))]
    ELSE r
Decls(lines) == FoldLeft(ReadLine, [context |-> "General", lineno |-> 0, decls |-> <<>>], lines).decls
WithPrefix(decls, prefix) == SelectSeq(decls, LAMBDA d : d.name.prefix = prefix)

\* Decl.rewrite: the expression alone is replaced.
Rewrite(line, value) ==
    [line EXCEPT !.code = EncodeStringExpr(value) \o PasFrom(line.code, ParseStringExpr(line.code, 1).at)]

\* A file: its mark, the ending of each line, its encoding.  read_lang_file
\* tries UTF-8, then the codepage of the language, then keeps the bytes.
Form(f) == [bom |-> f.bom, newline |-> IF Contains(f.ends, "CRLF") THEN "CRLF" ELSE "LF",
            encoding |-> IF f.bytes = "utf-8" THEN "utf-8" ELSE "codepage", lossy |-> f.bytes = "damaged"]
WriteLangFile(lines, form) ==
    [bom |-> form.bom, lines |-> lines, ends |-> [i \in 1..(Len(lines) - 1) |-> form.newline],
     bytes |-> IF form.lossy THEN "damaged" ELSE form.encoding]

------------------------------------------------------------------------------
\* pas2res.py: the unit of resourcestrings that is made from the English table.

\* build: the constants of Pascal code (TC_), those of the .rc file that Pascal
\* code uses as well, and the captions of the buttons, whose names have neither
\* prefix.
RcKept(decls, used) == SelectSeq(WithPrefix(decls, "RC_"), LAMBDA d : d.name \in used)
Words(decls) == SelectSeq(decls, LAMBDA d : d.name.suffix = "_WORD" /\ d.name.prefix \notin {"TC_", "RC_"})
Groups(lines, used) ==
    LET decls == Decls(lines) IN
    <<[title |-> "TC_", decls |-> WithPrefix(decls, "TC_")], [title |-> "RC_", decls |-> RcKept(decls, used)],
      [title |-> "Unprefixed", decls |-> Words(decls)]>>

\* emit: a context is printed where it changes, and anew in every group.  The
\* lines around the groups are left out.
ContextLine(context) == [CommentLine EXCEPT !.name = context]
ResourceLine(d) == CodeLine(d.name, EncodeStringExpr(d.value) \o <<";">>
                                    \o IF d.comment = <<>> THEN <<>> ELSE <<" ", " ", " ", "/", "/">> \o d.comment)
EmitDecl(s, d) == [last |-> d.context,
                   out |-> s.out \o (IF d.context = s.last THEN <<>> ELSE <<ContextLine(d.context)>>) \o <<ResourceLine(d)>>]
EmitGroup(group) == FoldLeft(EmitDecl, [last |-> "", out |-> <<Banner(group.title, FALSE)>>], group.decls).out
Emit(groups) == FlattenSeq([g \in DOMAIN groups |-> EmitGroup(groups[g])])

\* main: the unit's form is its own, whatever the table's was.  It is opened, and
\* so emptied, before it is written; a constant that holds bytes of a damaged
\* table cannot be written as UTF-8, and the unit stays empty.
UnitForm == [bom |-> FALSE, newline |-> "CRLF", encoding |-> "utf-8", lossy |-> FALSE]
NoUnit == WriteLangFile(<<>>, UnitForm)
Unit(lines, used) == WriteLangFile(Emit(Groups(lines, used)), UnitForm)

------------------------------------------------------------------------------
\* Text in a .ts file: an element for a control XML cannot hold, an entity for a
\* character of its own.  An XML parser gives every line end as a line feed.
XmlEscapeText(value) ==
    [i \in DOMAIN value |-> [tag |-> CASE value[i] \in Controls \ {"TAB", "LF"} -> "byte"
                                       [] value[i] \in {"&", "<", ">"} -> "entity"
                                       [] OTHER -> "char",
                             char |-> value[i]]]
XmlReadText(items) ==
    [i \in DOMAIN items |-> IF items[i].tag = "char" /\ items[i].char = "CR" THEN "LF" ELSE items[i].char]
==============================================================================
