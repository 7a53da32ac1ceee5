--------------------------- MODULE PascalPrograms ---------------------------
(***************************************************************************)
(* The inputs and the reference for the formatter: small programs as trees *)
(* of statements, their texts in several layouts, the tree a compiler      *)
(* reads in a text, and the text the house style asks for.                 *)
(***************************************************************************)
EXTENDS PascalFormat

Node(op, kids) == [op |-> op, kids |-> kids]
X == Node("x", <<>>)
Empty == Node("", <<>>)

\* Statements over given statements.
Over(S) == {Node(op, <<a>>) : op \in {"if", "while", "blk", "case", "repeat", "try"}, a \in S}
           \cup {Node(op, <<a, b>>) : op \in {"ifelse", "blk"}, a \in S, b \in S}

\* The text of a statement at depth d: words with their depth, and whether a
\* line starts at the word.
Word(w, d, nl) == [w |-> w, d |-> d, nl |-> nl]

RECURSIVE Words(_, _, _, _), ListWords(_, _, _)
BodyWords(a, d, sty) == Words(a, d + 1, IF a.op = "blk" THEN sty.begin ELSE sty.body, sty)

Words(a, d, nl, sty) ==
    LET kw(w)   == <<Word(w, d, FALSE)>>
        on(w)   == <<Word(w, d, nl)>>
        stop(w) == <<Word(w, d, sty.stmt)>>
    IN CASE a = Empty -> <<>>
         [] a.op \in {"x", "exit"} -> on(a.op)
         [] a.op = "if" -> on("if") \o kw("a") \o kw("then") \o BodyWords(a.kids[1], d, sty)
         [] a.op = "ifelse" -> on("if") \o kw("a") \o kw("then") \o BodyWords(a.kids[1], d, sty)
                               \o <<Word("else", d, sty.else)>> \o BodyWords(a.kids[2], d, sty)
         [] a.op = "while" -> on("while") \o kw("a") \o kw("do") \o BodyWords(a.kids[1], d, sty)
         [] a.op = "blk" -> on("begin") \o ListWords(a.kids, d + sty.inner, sty) \o stop("end")
         [] a.op = "case" -> on("case") \o kw("a") \o kw("of") \o <<Word("1", d + 1, sty.stmt)>>
                             \o kw(":") \o Words(a.kids[1], d + 2, sty.body, sty) \o kw(";")
                             \o stop("end")
         [] a.op = "repeat" -> on("repeat") \o ListWords(a.kids, d + 1, sty) \o stop("until") \o kw("a")
         [] a.op = "try" -> on("try") \o ListWords(a.kids, d + 1, sty) \o stop("except")
                            \o <<Word("on", d + 1, sty.stmt)>> \o kw("e") \o kw("do")
                            \o BodyWords(X, d + 1, sty) \o kw(";") \o stop("end")

ListWords(kids, d, sty) ==
    FlattenSeq([i \in DOMAIN kids |-> Words(kids[i], d, sty.stmt, sty) \o <<Word(";", d, FALSE)>>])

\* Lines: a new one at every word that starts one; one line may stand at an
\* odd column, and one may carry a note.
Lay(ws, sty) ==
    FoldLeft(LAMBDA lines, w :
                 IF w.nl \/ lines = <<>> THEN Append(lines, Line(w.d * sty.width, <<w.w>>))
                 ELSE [lines EXCEPT ![Len(lines)].toks = Append(@, w.w)],
             <<>>, ws)

Text(a, sty) ==
    LET lines == Lay(<<Word("begin", 0, TRUE)>> \o ListWords(<<a>>, 1, sty)
                     \o <<Word("end", 0, TRUE), Word(".", 0, FALSE)>>, sty)
    IN [n \in DOMAIN lines |->
            [lines[n] EXCEPT !.indent = IF n = sty.odd THEN 1 ELSE @,
                             !.note = IF n = sty.at THEN sty.note ELSE ""]]

------------------------------------------------------------------------------
\* The tree a compiler reads: an else belongs to the nearest open if, and a
\* block of one statement is that statement.

Read(tree, at) == [tree |-> tree, at |-> at]

RECURSIVE Stmt(_, _), Stmts(_, _)
Stmts(T, i) ==
    IF At(T, i) = ";" THEN Stmts(T, i + 1)
    ELSE IF At(T, i) \in STMT_TERMINATORS THEN Read(<<>>, i)
    ELSE LET s == Stmt(T, i)
             rest == Stmts(T, s.at)
         IN Read(<<s.tree>> \o rest.tree, rest.at)

Group(trees) == IF Len(trees) = 1 THEN trees[1] ELSE Node("blk", trees)

Stmt(T, i) ==
    LET w == At(T, i)
        body == Stmt(T, i + 3)
        list == Stmts(T, i + 1)
    IN CASE w = "if" -> LET other == Stmt(T, body.at + 1) IN
                        IF At(T, body.at) = "else"
                        THEN Read(Node("ifelse", <<body.tree, other.tree>>), other.at)
                        ELSE Read(Node("if", <<body.tree>>), body.at)
         [] w = "while" -> Read(Node("while", <<body.tree>>), body.at)
         [] w = "begin" -> Read(Group(list.tree), list.at + 1)
         [] w = "case" -> LET arm == Stmt(T, i + 5) IN
                          Read(Node("case", <<arm.tree>>), SkipSemis(T, arm.at) + 1)
         [] w = "repeat" -> Read(Node("repeat", list.tree), list.at + 2)
         [] w = "try" -> LET handler == Stmt(T, list.at + 4) IN
                         Read(Node("try", list.tree \o <<handler.tree>>), SkipSemis(T, handler.at) + 1)
         [] w = ";" \/ w \in STMT_TERMINATORS -> Read(Empty, i)
         [] OTHER -> Read(Node(w, <<>>), i + 1)

Tree(text) == Stmt(Lexed(text), 1).tree

------------------------------------------------------------------------------
\* The house style: begin on its own line three columns in from its header,
\* the body on the column of its begin, for one statement too.

Semi1(lines, semi) == IF semi THEN [lines EXCEPT ![Len(lines)].toks = Append(@, ";")] ELSE lines

RECURSIVE House(_, _, _)
HouseBody(a, col, semi) ==
    <<Line(col, <<"begin">>)>>
    \o (IF a.op = "blk"
        THEN FlattenSeq([i \in DOMAIN a.kids |-> House(a.kids[i], col, TRUE)])
        ELSE House(a, col, semi))
    \o Semi1(<<Line(col, <<"end">>)>>, semi)

House(a, col, semi) ==
    LET body(k, last) == HouseBody(a.kids[k], col + INDENT_N, last) IN
    CASE a.op = "if" -> <<Line(col, <<"if", "a", "then">>)>> \o body(1, semi)
      [] a.op = "ifelse" -> <<Line(col, <<"if", "a", "then">>)>> \o body(1, FALSE)
                            \o <<Line(col, <<"else">>)>> \o body(2, semi)
      [] a.op = "while" -> <<Line(col, <<"while", "a", "do">>)>> \o body(1, semi)
      [] OTHER -> Semi1(<<Line(col, <<a.op>>)>>, semi)

HouseText(a, sty) ==
    <<Line(0, <<"begin">>)>> \o House(a, sty.width, TRUE) \o <<Line(0, <<"end", ".">>)>>

RECURSIVE Plain(_)
\* What the style settles alone: no bare if as a body, no other statements.
Plain(a) == /\ a.op \in {"x", "if", "ifelse", "while", "blk"}
            /\ \A i \in DOMAIN a.kids :
                  /\ Plain(a.kids[i])
                  /\ a.op # "blk" => a.kids[i].op \notin {"if", "ifelse"}
                  /\ a.op = "blk" => a.kids[i].op # "blk"
==============================================================================
