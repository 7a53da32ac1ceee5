---------------------------- MODULE MCTextTools ----------------------------
(***************************************************************************)
(* The tools that work on texts and streams, each on the jobs of TextTools *)
(* that are given here.                                                    *)
(***************************************************************************)
EXTENDS TextTools

\* Programs: every statement over the smaller ones, and nests of loops.
D1 == {X, Node("ifelse", <<X, Empty>>), Node("while", <<Empty>>)} \cup Over({X})
D2 == Over(D1)

RECURSIVE Nest(_)
Nest(n) == IF n = 0 THEN X ELSE Node("while", <<Nest(n - 1)>>)

Programs == D2 \cup {Node("if", <<Node("exit", <<>>)>>)} \cup {Nest(n) : n \in 3..5}

\* The layouts: every choice of line breaks; other columns, one line at an odd
\* one; a comment or a directive on a line.
Sty(stmts, elses, inners, widths, odds, ats, notes) ==
    [begin : BOOLEAN, body : BOOLEAN, stmt : stmts, else : elses, inner : inners, width : widths,
     odd : odds, at : ats, note : notes]

Styles == Sty(BOOLEAN, BOOLEAN, {0}, {2}, {0}, {3}, {""})
          \cup Sty({TRUE}, {TRUE}, {1}, {4}, {0, 3}, {3}, {""})
          \cup Sty({TRUE}, {TRUE}, {0}, {3}, {4}, {2, 4}, {"", "comment", "directive", "frozen"})

PascalJobs == [tool : {"pascal"}, program : Programs, style : Styles]

------------------------------------------------------------------------------
\* Streams, part by part: a message, what stands between messages, what was cut.
Message(bytes) == [bytes |-> bytes, msgs |-> <<bytes>>, lost |-> FALSE]
As(bytes, message) == [bytes |-> bytes, msgs |-> <<message>>, lost |-> FALSE]
Noise(bytes) == [bytes |-> bytes, msgs |-> <<>>, lost |-> FALSE]
Lost(bytes) == [bytes |-> bytes, msgs |-> <<>>, lost |-> TRUE]
Stream(format, pieces) == [tool |-> "stream", kind |-> format, parts |-> pieces]

\* No byte of a frame is its terminator.
Cat == Stream("cat", <<As(<<"I", "F", " ", ";">>, <<"I", "F">>), Noise(<<" ", ";">>), Noise(<<";">>),
                       As(<<" ", "F", "A", ";">>, <<"F", "A">>), Noise(<<"M">>)>>)
\* Two values of one setting, and the same setting of the second receiver.
K4 == Stream("k4", <<As(<<"#", "R", "-", "1", ";">>, <<"#", "R", "-", "1">>), As(<<"F", "1", ";">>, <<"F", "1">>),
                     As(<<" ", "#", "R", "$", "0", ";">>, <<"#", "R", "$", "0">>), Noise(<<";">>),
                     As(<<"#", "M", ";">>, <<"#", "M">>), As(<<"#", "R", "+", "0", ";">>, <<"#", "R", "+", "0">>),
                     Noise(<<"#", "A">>)>>)
Civ == {Stream("civ", <<Noise(n), Message(<<"FE", "FE", "E0", "03", "FD">>), Noise(n),
                        Message(<<"FE", "FE", "00", "FE", "E0", "FD">>), Noise(<<"FE", "FE", "E0">>)>>) :
           n \in {<<>>, <<"00">>, <<"FE", "00">>, <<"00", "FD">>, <<"FD", "FE", "00">>}}

\* Packets: a header whose bytes sum to 0 mod 256, the samples, and their sum.
PacketHeader(seq, pan) == LET head == F!SYNC \o <<1, seq, pan>> \o [i \in 1..(HEADER_SIZE - 8) |-> i]
                          IN Append(head, (256 - (FoldLeft(+, 0, head) % 256)) % 256)
Packet(seq, pan) == LET bytes == PacketHeader(seq, pan) \o [i \in 1..PAYLOAD_SIZE |-> 100 + i]
                    IN bytes \o F!Digits256(F!crc16(bytes), 2)
Cut(n, packet) == Lost(SubSeq(packet, 1, n))
Pans == {Stream("pan", <<Noise(SubSeq(F!SYNC, 1 + a, 4))>>
                       \o IF cut = 0 THEN <<Message(Packet(254, 0)), Message(Packet(7, 1)), Message(Packet(255, 0)),
                                            Message(Packet(8, 1)), Message(Packet(0, 0))>>
                          ELSE <<Message(Packet(254, 0)), Message(Packet(7, 1)), Cut(cut, Packet(255, 0)),
                                 Lost(Packet(8, 1)), Message(Packet(0, 0)), Message(Packet(9, 1))>>) :
            a \in 1..4, cut \in {0} \cup 4..(F!PACKET_SIZE - 1)}

\* Frames of a WebSocket server: the length in its three sizes; a ping, a close,
\* and a frame that is masked.
Payload(n) == [i \in 1..n |-> i % 256]
WsPart(bytes, opcode, n) == As(bytes \o Payload(n), [opcode |-> opcode, payload |-> Payload(n)])
Unmasked(header, opcode) == [header EXCEPT ![1] = 128 + opcode, ![2] = @ - 128]
Frame(opcode, n) == WsPart(Unmasked(F!Header(n), opcode), opcode, n)
LongFrame(n) == WsPart(<<129, 127, 0, 0, 0, 0, 0, 0, 0, n>>, 1, n)
Masked == Lost(F!Header(1) \o <<0, 0, 0, 0, 7>>)
Ws == {Stream("ws", <<Frame(1, n), Frame(9, 2), Frame(1, 0), LongFrame(2), Frame(1, 1)>>) : n \in {0, 125, 126, 127}}
      \cup {Stream("ws", <<Frame(1, 1), Frame(9, 0)>> \o tail) :
               tail \in {<<Frame(8, 2), Frame(1, 1)>>, <<Masked, Frame(1, 2)>>}}

StreamJobs == {Cat, K4} \cup Civ \cup Pans \cup Ws

------------------------------------------------------------------------------
\* Texts with what is hard to spell in a .po file and in Pascal.
Texts(alphabet, n) == UNION {[1..k -> alphabet] : k \in 0..n}
Hard == Texts({"\\", "LF", "SOH", "1", "'", "#", "CR", "a"}, 2)
             \cup {<<"a", "'", "CR", "1">>, <<"LF", "\\", "n">>, <<"/", "/", "a">>, <<"a", " ", "+">>, <<"CR", "LF", "NUL", "\"">>}

------------------------------------------------------------------------------
\* Catalogues, as block by block of lines.
Lines(rows, end) == [i \in DOMAIN rows |-> P!Line(rows[i][1], rows[i][2], FALSE, end)]
Gap(n, end) == [i \in 1..n |-> P!BlankLine(end)]
Header(end) == Lines(<<<<"msgid", <<>>>>, <<"msgstr", <<>>>>, <<"more", <<"L">>>>>>, end)
Rich(end) == Lines(<<<<"note", <<"r">>>>, <<"ref", <<"f">>>>, <<"flag", <<"fuzzy", "c-format">>>>, <<"prev", <<"p">>>>,
                     <<"msgctxt", <<"k">>>>, <<"msgid", <<>>>>, <<"more", <<"a", "\\", "n">>>>, <<"more", <<"b">>>>,
                     <<"msgstr", <<>>>>>>, end)
Short(key, end) == Lines(<<<<"msgid", <<key>>>>, <<"msgstr", <<"t">>>>>>, end)
Gone(key, end) == [i \in 1..3 |-> [Lines(<<<<"msgctxt", <<"z">>>>, <<"msgid", <<key>>>>, <<"msgstr", <<"t">>>>>>, end)[i]
                                      EXCEPT !.obs = TRUE]]
Comment(end) == Lines(<<<<"comment", <<"c">>>>>>, end)
Open(lines) == [lines EXCEPT ![Len(lines)].end = ""]
File(bom, lines) == [bom |-> bom, lines |-> lines]

Files == {File(bom, Header(end) \o Gap(1, end) \o Rich(end) \o Gap(2, "LF") \o Comment(end) \o Gap(1, end) \o Short("q", end) \o tail)
              : bom \in BOOLEAN, end \in {"LF", "CRLF"}, tail \in {<<>>, Gap(1, "CRLF") \o Comment("CRLF")}}
         \cup {File(FALSE, Open(Short("q", "LF") \o Gap(1, "LF") \o Gone("w", "CRLF"))),
               File(FALSE, Comment("LF") \o Gap(1, "LF") \o Header("LF") \o Gap(1, "LF") \o Header("LF") \o Gap(1, "LF")
                           \o Open(Rich("LF")))}
Quick == {File(TRUE, Header("CRLF") \o Gap(1, "CRLF") \o Short("q", "CRLF")),
          File(FALSE, Open(Short("q", "LF") \o Gap(1, "LF") \o Gone("w", "CRLF")))}
PoJobs == [tool : {"po"}, file : Files, edits : {1}, targets : {Hard}, salvaged : {FALSE}]
          \cup [tool : {"po"}, file : Quick, edits : {3}, targets : {{<<>>, <<"LF", "SOH", "1">>}}, salvaged : BOOLEAN]

------------------------------------------------------------------------------
\* Tables: the constants of Pascal code; and those of the other kinds with them.
Code == <<L!Banner("Menus", FALSE), L!CodeLine(L!Name("TC_", "A", ""), <<"'", "a", "'", "'", "b", "'", ";">>),
          L!CodeLine(L!Name("TC_", "B", ""), <<"'", "a", "'", "#", "1", "3", "'", "b", "'", ";", " ", "/", "/", "n">>),
          L!Banner("Prose", TRUE), L!CommentLine,
          L!CodeLine(L!Name("TC_", "C", ""), <<"'", "'", " ", "+", " ", "#", "1", "0", ";">>),
          L!Banner("Windows", FALSE), L!CodeLine(L!Name("TC_", "D", ""), <<"'", "/", "/", "'", ";">>),
          L!CodeLine(L!Name("", "N", ""), <<"3", ";">>)>>
Others == <<L!CodeLine(L!Name("RC_", "B", ""), <<"'", "b", "'", ";", "/", "/", "n">>),
            L!CodeLine(L!Name("", "OK", "_WORD"), <<"'", "o", "'", ";">>),
            L!CodeLine(L!Name("RC_", "EDIT", "_WORD"), <<"'", "e", "'", ";">>),
            L!Banner("Keys", FALSE), L!CodeLine(L!Name("TC_", "E", ""), <<"#", "1", "3", ";">>),
            L!CodeLine(L!Name("", "NO", ""), <<"'", "o", "'", ";">>),
            L!CodeLine(L!Name("RC_", "F", ""), <<"'", "b", "'", ";">>)>>
Formats == <<L!CodeLine(L!Name("TC_", "P", ""), <<"'", "%", "d", "'", ";">>),
             L!CodeLine(L!Name("TC_", "Q", ""), <<"'", "%", "s", "'", "#", "0", "'", "a", "'", ";">>)>>
\* The English table has another specifier in one of them.
EnglishValues == L!Name("TC_", "P", "") :> <<"%", "s">>
Table(lines, bom, ends, bytes) ==
    [bom |-> bom, lines |-> lines, ends |-> [i \in 1..(Len(lines) - 1) |-> ends[(i % Len(ends)) + 1]], bytes |-> bytes]
Tables(lines) == {Table(lines, bom, ends, bytes) : bom \in BOOLEAN, ends \in {<<"LF">>, <<"CRLF">>, <<"CRLF", "LF">>},
                                                   bytes \in {"utf-8", "codepage", "damaged"}}
TableJob(steps, texts, files) == [tool : {"table"}, edits : {steps}, targets : {texts}, file : files, english : {EnglishValues}]
TableJobs == TableJob(1, Hard, {Table(Code, TRUE, <<"CRLF">>, "codepage")})
             \cup TableJob(1, {<<>>, <<"LF", "'">>, <<"/", "/", "a">>}, Tables(Code))
             \cup TableJob(2, {<<>>, <<"LF", "'">>}, {Table(Code \o Others, bom, <<"LF">>, "codepage") : bom \in BOOLEAN})
             \cup TableJob(2, {<<"a", "%", "d">>, <<"%", "s">>, <<"NUL", "%", "-", "1", "s">>, <<"%", "%", "a">>},
                          {Table(Formats, FALSE, <<"LF">>, "utf-8")})

------------------------------------------------------------------------------
\* Captions: every short text, and longer ones.
Captions == Texts({"c", "d", "&", "%", " "}, 5)
            \cup {<<"&", "c", " ", "%", "d", "%", "s", "CR", "o", ":">>, <<" ", "%", "i", " ", "c", "c", "&", "i", ".", ".", ".">>,
                  <<"c", "&", "&", "&", "c">>, <<"&", "d", " ", "%", "d", "LF", "c", " ">>, <<"c", "LF", "CR", "%", "%">>,
                  <<"&", "&", "d", " ", "o", "&", "s">>, <<"&", "i", " ", "%", "i", " ", "i">>, <<"%", "s", "d", "&", "d">>,
                  <<"&", "D", "o", " ", "%", "-", "5", ".", "*", "d", "TAB", ":", " ">>, <<"%", "0", "3", "d", " ", "d", "&", "o">>,
                  <<"&", "O", "K">>, <<"l", "b", "l", "D", "o">>, <<"d", "o", ":", "/", "/", "d">>, <<"o", "o", "&", "d", "ellipsis", " ">>,
                  <<"CR", "&", "c", "c", "TAB", "CR", "LF", "d", "o">>, <<"%", "+", "d", "&", "d", "o", "1", "d">>}
CaptionJobs == [tool : {"caption"}, source : Captions, suffix : BOOLEAN]

MCJobs == PascalJobs \cup StreamJobs \cup PoJobs \cup TableJobs \cup CaptionJobs

==============================================================================
