---------------------------- MODULE PascalFormat ----------------------------
(***************************************************************************)
(* The begin/end formatter src/tools/format_pascal_beginend.py as          *)
(* operators.  A text is a sequence of lines; a line has its indent, its   *)
(* words (every word three columns wide) and a note: a comment or a        *)
(* compiler directive on the line, or "frozen" when the line starts inside *)
(* a comment.  An expression is one word.  Pass is one pass of             *)
(* format_text: parse into records, rewrite, render.                       *)
(***************************************************************************)
EXTENDS Integers, Sequences, SequencesExt

CONSTANT SplitExit      \* --split-exit

ASSUME FormatAssumption == SplitExit \in BOOLEAN

INDENT_N == 3
LINT_SKIPPABLE == {"exit", "continue", "break"}
STMT_TERMINATORS == {"end", "else", "until", "finally", "except"}
BLOCK_OPENERS == {"begin", "case", "try", "asm"}
Headed == {"begin", "if", "for", "while", "with", "case", "try", "repeat"}

Line(indent, toks) == [indent |-> indent, toks |-> toks, note |-> ""]

\* The lexer: the words of a text with the line and the column of each.
Lexed(text) ==
    FlattenSeq([n \in DOMAIN text |->
        [k \in DOMAIN text[n].toks |->
            [t |-> text[n].toks[k], line |-> n, col |-> text[n].indent + 3 * (k - 1)]]])

------------------------------------------------------------------------------
\* The parser.  A result says where the statement ends and which records it
\* made, outer ones first; a refusal makes none.

At(T, i) == IF i \in DOMAIN T THEN T[i].t ELSE ""

Parsed(i) == [at |-> i, recs |-> <<>>, bad |-> FALSE]
Refused == [at |-> 0, recs |-> <<>>, bad |-> TRUE]

Then(r, F(_)) ==
    IF r.bad THEN Refused
    ELSE LET s == F(r.at) IN IF s.bad THEN Refused ELSE [s EXCEPT !.recs = r.recs \o @]

Past(r) == IF r.bad THEN r ELSE [r EXCEPT !.at = @ + 1]

RECURSIVE First(_, _, _)
\* The first word from i on that is one of ws, or 0.
First(T, i, ws) == CASE i > Len(T)   -> 0
                     [] At(T, i) \in ws -> i
                     [] OTHER        -> First(T, i + 1, ws)

find_kw(T, i, kw) == LET j == First(T, i, {kw, ";", "begin"}) IN
                     IF At(T, j) = kw THEN j ELSE 0

RECURSIVE SkipSemis(_, _)
SkipSemis(T, i) == IF At(T, i) = ";" THEN SkipSemis(T, i + 1) ELSE i

RECURSIVE skip_block_dumb(_, _, _)
skip_block_dumb(T, i, depth) ==
    IF i > Len(T) THEN i
    ELSE IF At(T, i) \in BLOCK_OPENERS THEN skip_block_dumb(T, i + 1, depth + 1)
    ELSE IF At(T, i) # "end" THEN skip_block_dumb(T, i + 1, depth)
    ELSE IF depth <= 1 THEN i + 1 ELSE skip_block_dumb(T, i + 1, depth - 1)

parse_simple(T, i) ==
    LET j == First(T, i, {";", "begin", "procedure", "function", "asm"} \cup STMT_TERMINATORS)
    IN IF j = 0 \/ At(T, j) \in {"begin", "procedure", "function", "asm"} THEN Refused
       ELSE Parsed(j)

RECURSIVE parse_statement(_, _), parse_stmt_list(_, _, _), parse_body(_, _, _, _)

parse_block(T, i) == Past(parse_stmt_list(T, i + 1, {"end"}))

parse_stmt_list(T, i, terminators) ==
    LET j == SkipSemis(T, i) IN
    CASE At(T, j) \in terminators -> Parsed(j)
      [] j > Len(T) \/ At(T, j) \in STMT_TERMINATORS \ terminators -> Refused
      [] OTHER -> Then(parse_statement(T, j), LAMBDA k : parse_stmt_list(T, k, terminators))

parse_if(T, i) ==
    LET then == find_kw(T, i + 1, "then") IN
    IF then = 0 THEN Refused
    ELSE Then(parse_body(T, i, then, then + 1),
              LAMBDA j : IF At(T, j) = "else" THEN parse_body(T, j, j, j + 1) ELSE Parsed(j))

parse_loop(T, i) ==
    LET do == find_kw(T, i + 1, "do") IN
    IF do = 0 THEN Refused ELSE parse_body(T, i, do, do + 1)

parse_repeat(T, i) ==
    Then(parse_stmt_list(T, i + 1, {"until"}), LAMBDA j : parse_simple(T, j + 1))

RECURSIVE parse_case(_, _)
\* From the first arm on.
parse_case(T, i) ==
    LET j == SkipSemis(T, i)
        c == First(T, j, {":", ";"})
    IN IF j > Len(T) THEN Refused
       ELSE IF At(T, j) = "end" THEN Parsed(j + 1)
       ELSE IF At(T, j) = "else" THEN Past(parse_stmt_list(T, j + 1, {"end"}))
       ELSE IF c = 0 \/ At(T, c) = ";" THEN Refused
       ELSE IF At(T, c + 1) \in {"end", "else"} THEN parse_case(T, c + 1)
       ELSE Then(parse_statement(T, c + 1), LAMBDA k : parse_case(T, k))

RECURSIVE Handlers(_, _)
Handlers(T, i) ==
    LET do == find_kw(T, i + 1, "do") IN
    IF At(T, i) = "on"
    THEN IF do = 0 THEN Refused
         ELSE Then(parse_body(T, i, do, do + 1), LAMBDA j : Handlers(T, SkipSemis(T, j)))
    ELSE IF At(T, i) = "else" THEN Past(parse_stmt_list(T, i + 1, {"end"}))
    ELSE Then(parse_stmt_list(T, i, {"end", "else"}),
              LAMBDA j : IF At(T, j) = "end" THEN Parsed(j + 1)
                         ELSE Past(parse_stmt_list(T, j + 1, {"end"})))

parse_try(T, i) ==
    Then(parse_stmt_list(T, i + 1, {"finally", "except"}),
         LAMBDA j : IF At(T, j) = "except" THEN Handlers(T, j + 1)
                    ELSE Past(parse_stmt_list(T, j + 1, {"end"})))

parse_statement(T, i) ==
    LET w == At(T, i) IN
    CASE w = "begin" -> parse_block(T, i)
      [] w = "if" -> parse_if(T, i)
      [] w \in {"for", "while", "with"} -> parse_loop(T, i)
      [] w = "case" -> LET of == find_kw(T, i + 1, "of") IN
                       IF of = 0 THEN Refused ELSE parse_case(T, of + 1)
      [] w = "try" -> parse_try(T, i)
      [] w = "repeat" -> parse_repeat(T, i)
      [] w = "asm" -> Refused
      [] OTHER -> IF At(T, i + 1) = ":" /\ At(T, i + 2) \in Headed
                  THEN parse_statement(T, i + 2) ELSE parse_simple(T, i)

Rec(kind, ctrl, header, first, last, semi) ==
    [kind |-> kind, ctrl |-> ctrl, header |-> header, first |-> first, last |-> last,
     semi |-> semi]

\* The body of then, do or else: a block to re-indent, a statement to wrap,
\* or nothing to do for an empty statement and for a bare `if`, whose else
\* would be bound anew.
parse_body(T, ctrl, header, i) ==
    LET r == parse_statement(T, i)
        j == r.at
        rec == IF At(T, i) = "begin" THEN Rec("block", ctrl, header, i, j - 1, FALSE)
               ELSE Rec("wrap", ctrl, header, i, j - 1, At(T, j) = ";")
    IN IF i > Len(T) \/ r.bad THEN Refused
       ELSE IF j <= i THEN Parsed(j)
       ELSE IF At(T, i) = "if" THEN r
       ELSE [r EXCEPT !.recs = <<rec>> \o @]

RECURSIVE parse_file(_, _)
parse_file(T, i) ==
    LET b == First(T, i, {"begin"})
        r == parse_block(T, b)
    IN IF b = 0 THEN <<>>
       ELSE IF r.bad THEN parse_file(T, skip_block_dumb(T, b, 0))
       ELSE r.recs \o parse_file(T, r.at)

------------------------------------------------------------------------------
\* The rewriter.  Its state: the indent each line has now, the lines to put
\* before or after a line or in its place, and the lines already rewritten.

Start(text) ==
    LET none == [n \in DOMAIN text |-> <<>>] IN
    [indent |-> [n \in DOMAIN text |-> text[n].indent],
     before |-> none, after |-> none, replace |-> none, touched |-> {}]

is_first_on_line(T, i) == i = 1 \/ T[i - 1].line # T[i].line
is_last_on_line(T, i) == i = Len(T) \/ T[i + 1].line # T[i].line
Blank(l) == l.toks = <<>> /\ l.note \notin {"comment", "directive"}
Shiftable(l) == ~Blank(l) /\ l.note # "frozen"

span_clear(text, s, from, to) ==
    \A n \in from..to : text[n].note # "directive" /\ n \notin s.touched

NoAnchor == -1

RECURSIVE ChainHead(_, _)
\* `else if` is one unit: the anchor is the head of the chain.
ChainHead(T, i) == IF i > 1 /\ At(T, i - 1) = "else" /\ T[i - 1].line = T[i].line
                   THEN ChainHead(T, i - 1) ELSE i

anchor_indent(text, T, s, ctrl) ==
    LET i == ChainHead(T, ctrl)
        n == T[i].line
    IN IF is_first_on_line(T, i) THEN s.indent[n]
       ELSE IF At(T, i - 1) = "end" THEN NoAnchor
       ELSE T[i].col + s.indent[n] - text[n].indent

Shifted(s, lines, by) ==
    [s EXCEPT !.indent = [n \in DOMAIN @ |-> IF n \in lines THEN @[n] + by ELSE @[n]]]

Lowest(S) == CHOOSE n \in S : \A k \in S : n <= k

\* Mutant: the body lines keep their own columns.
BlockOnly(text, T, s, rec) ==
    LET target == anchor_indent(text, T, s, rec.ctrl) + INDENT_N IN
    IF target = NoAnchor + INDENT_N \/ T[rec.first].line = T[rec.ctrl].line THEN s
    ELSE [s EXCEPT !.indent[T[rec.first].line] = target, !.indent[T[rec.last].line] = target]

\* begin and end go to the anchor plus three; the body moves as one group so
\* that its first line is there too.
do_block(text, T, s, rec) ==
    LET bl == T[rec.first].line
        el == T[rec.last].line
        cl == T[rec.ctrl].line
        anchor == anchor_indent(text, T, s, rec.ctrl)
        target == anchor + INDENT_N
        shares == bl = cl
        words == text[bl].toks
        begun == IF shares
                 THEN [s EXCEPT !.replace[bl] = <<[text[bl] EXCEPT !.indent = s.indent[bl],
                                                                 !.toks = Front(words)],
                                                  Line(target, <<"begin">>)>>,
                                !.touched = @ \cup {bl}]
                 ELSE [s EXCEPT !.indent[bl] = target]
        body == {n \in bl + 1 .. el - 1 : Shiftable(text[n])}
        shift == IF body = {} THEN 0 ELSE target - s.indent[Lowest(body)]
    IN IF \/ ~span_clear(text, s, cl, el)
          \/ ~is_last_on_line(T, rec.first) \/ ~is_first_on_line(T, rec.last)
          \/ anchor = NoAnchor
          \/ shares /\ (~is_first_on_line(T, rec.ctrl) \/ text[bl].note = "comment")
       THEN s
       ELSE IF shift # 0 /\ \E n \in body : s.indent[n] + shift < 0 THEN begun
       ELSE LET moved == Shifted(begun, body, shift) IN
            [moved EXCEPT !.indent[el] = target]

\* Mutant: every wrapped body ends in a semicolon.
SemiAlways(rec) == <<";">>

Semi(rec) == IF rec.semi THEN <<";">> ELSE <<>>
LastOf(rec) == IF rec.semi THEN rec.last + 1 ELSE rec.last

wrap_multi_line(text, T, s, rec, target) ==
    LET sl == T[rec.first].line
        xl == T[LastOf(rec)].line
        lines == {n \in sl..xl : ~Blank(text[n])}
        shift == target - s.indent[sl]
        moved == Shifted(s, lines, shift)
    IN IF \/ ~is_last_on_line(T, rec.header) \/ ~is_first_on_line(T, rec.first)
          \/ ~is_last_on_line(T, LastOf(rec))
          \/ \E n \in sl..xl : text[n].note = "frozen"
          \/ \E n \in lines : s.indent[n] + shift < 0
       THEN s
       ELSE [moved EXCEPT !.before[sl] = Append(@, Line(target, <<"begin">>)),
                          !.after[xl] = Append(@, Line(target, <<"end">> \o Semi(rec))),
                          !.touched = @ \cup sl..xl]

\* `if X then DoSomething;` becomes four lines.
wrap_single_line(text, T, s, rec, target) ==
    LET n == T[rec.header].line
        start == T[rec.ctrl].line
        words(a, b) == [k \in 1 .. b - a + 1 |-> T[a + k - 1].t]
    IN IF \/ T[LastOf(rec)].line # n \/ start # n
          \/ text[n].note = "comment"
          \/ ~SplitExit /\ At(T, rec.first) \in LINT_SKIPPABLE
          \/ ~is_last_on_line(T, LastOf(rec)) \/ ~is_first_on_line(T, rec.ctrl)
       THEN s
       ELSE [s EXCEPT !.replace[n] =
                          <<[text[n] EXCEPT !.indent = s.indent[n],
                                            !.toks = words(rec.ctrl, rec.header)],
                            Line(target, <<"begin">>),
                            Line(target, words(rec.first, rec.last) \o Semi(rec)),
                            Line(target, <<"end">> \o Semi(rec))>>,
                      !.touched = @ \cup {n}]

do_wrap(text, T, s, rec) ==
    LET anchor == anchor_indent(text, T, s, rec.ctrl) IN
    IF ~span_clear(text, s, T[rec.ctrl].line, T[LastOf(rec)].line) \/ anchor = NoAnchor THEN s
    ELSE IF T[rec.header].line = T[rec.first].line
    THEN wrap_single_line(text, T, s, rec, anchor + INDENT_N)
    ELSE wrap_multi_line(text, T, s, rec, anchor + INDENT_N)

render(text, s) ==
    FlattenSeq([n \in DOMAIN text |->
        s.before[n]
        \o (IF s.replace[n] # <<>> THEN s.replace[n]
            ELSE <<[text[n] EXCEPT !.indent = IF Shiftable(text[n]) THEN s.indent[n] ELSE @]>>)
        \o s.after[n]])

Pass(text) ==
    LET T == Lexed(text) IN
    render(text, FoldLeft(LAMBDA s, rec : IF rec.kind = "block" THEN do_block(text, T, s, rec)
                                          ELSE do_wrap(text, T, s, rec),
                          Start(text), parse_file(T, 1)))

------------------------------------------------------------------------------
\* token_signature: what the formatter may not change.
RECURSIVE NoDoubleSemi(_)
NoDoubleSemi(ws) ==
    IF Len(ws) < 2 THEN ws
    ELSE LET rest == NoDoubleSemi(Tail(ws)) IN
         IF Head(ws) = ";" /\ Head(rest) = ";" THEN rest ELSE <<Head(ws)>> \o rest

token_signature(text) ==
    NoDoubleSemi(SelectSeq([i \in DOMAIN Lexed(text) |-> Lexed(text)[i].t],
                           LAMBDA w : w \notin {"begin", "end"}))

------------------------------------------------------------------------------
\* format_text, the passes done so far given: until nothing changes, at most
\* MAX_PASSES; then the check of the words, of the text as it first was.
MAX_PASSES == 8
format_text(original, text, passes) ==
    LET new == Pass(text)
        ended == new = text
        refused == IF ended THEN token_signature(text) # token_signature(original)
                   ELSE passes + 1 = MAX_PASSES
    IN [text |-> new, outcome |-> IF refused THEN "skipped" ELSE IF ended THEN "written" ELSE ""]

\* main, with --apply: of a file that is refused it says so and leaves it.
FileAfter(original, result) == IF result.outcome = "skipped" THEN original ELSE result.text
==============================================================================
