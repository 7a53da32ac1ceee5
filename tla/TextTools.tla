----------------------------- MODULE TextTools -----------------------------
(***************************************************************************)
(* The tools under src/tools that work on one text or one stream, each on  *)
(* a job: format_text of format_pascal_beginend.py goes over a file pass   *)
(* by pass; a framer is given the bytes of a stream in any portions; the   *)
(* catalogue tools read a .po file, change an entry and write it, or write *)
(* a copy without its flags; po2pas applies a translation to a language    *)
(* table, and pas2res makes a unit of it; the seeder sends a caption to    *)
(* the translation engine, which answers as it likes.                      *)
(***************************************************************************)
EXTENDS PascalPrograms

CONSTANTS HEADER_SIZE,   \* of a panadapter packet: 64 and 4096 bytes of the K4's
          PAYLOAD_SIZE
ASSUME GeometryAssumption == HEADER_SIZE \in Nat /\ HEADER_SIZE >= 7 /\ PAYLOAD_SIZE \in Nat

F == INSTANCE Framers
P == INSTANCE PoText
L == INSTANCE PasText
C == INSTANCE Captions

CONSTANT Jobs   \* what is to be done: records with a tool; a job on a file says
                \* how many edits, and which texts they put in place of others

VARIABLES job,
          work,        \* the text, the framer, the file, or the draft
          turns,       \* passes, bytes or edits so far
          outcome      \* of the formatter: "", "written" or "skipped"

vars == <<job, work, turns, outcome>>

Opened(j, rest) == CASE j.tool = "pascal" -> Text(j.program, j.style)
                    [] j.tool = "stream" -> F!Opened(j.kind, rest)
                    [] j.tool \in {"po", "table"} -> [file |-> j.file, edit |-> [op |-> "none"]]
                    [] j.tool = "caption" -> <<>>

Original == Text(job.program, job.style)
Bytes(parts) == FlattenSeq([i \in DOMAIN parts |-> parts[i].bytes])
Sent == Bytes(job.parts)

\* handshake of tciclient reads to the end of the answer and may have read on,
\* into the first messages: the reader starts with that.
Leftovers == IF job.tool = "stream" /\ job.kind = "ws" THEN 0..Len(Sent) ELSE {0}

Init == /\ job \in Jobs
        /\ turns \in Leftovers
        /\ work = Opened(job, IF turns = 0 THEN <<>> ELSE SubSeq(Sent, 1, turns))
        /\ outcome = ""

------------------------------------------------------------------------------
\* One pass of format_text over the file, and what main leaves of it.
FormatPass == /\ job.tool = "pascal" /\ outcome = ""
              /\ LET result == format_text(Original, work, turns) IN
                 /\ outcome' = result.outcome
                 /\ work' = FileAfter(Original, result)
              /\ turns' = turns + 1
              /\ UNCHANGED job

\* The next n bytes come in, while the reader reads.
Reading == job.kind = "ws" => ~work.stopped
Receive == /\ job.tool = "stream" /\ Reading
           /\ \E n \in 1..(Len(Sent) - turns) :
                 /\ work' = F!Feed(job.kind, work, SubSeq(Sent, turns + 1, turns + n))
                 /\ turns' = turns + n
           /\ UNCHANGED <<job, outcome>>

\* One tool or one editor: read_po, a change, write_po.
NewEntry(target) == P!Entry(<<"K", "e", "y">>, <<"n", "e", "w">>, target, TRUE)
EntriesAfter(entries, edit) ==
    CASE edit.op = "none"     -> entries
      [] edit.op = "target"   -> [entries EXCEPT ![edit.at].e.target = edit.text, ![edit.at].e.fuzzy = FALSE]
      [] edit.op = "fuzzy"    -> [entries EXCEPT ![edit.at].e.fuzzy = TRUE]
      [] edit.op = "obsolete" -> [entries EXCEPT ![edit.at].e.obsolete = TRUE]
      [] edit.op = "drop"     -> RemoveAt(entries, edit.at)
      [] edit.op = "new"      -> Append(entries, P!Made(NewEntry(edit.text)))

PoEdits(entries) == [op : {"target"}, at : DOMAIN entries, text : job.targets]
                    \cup [op : {"fuzzy", "obsolete", "drop"}, at : DOMAIN entries]
                    \cup [op : {"none"}] \cup [op : {"new"}, text : job.targets]

EditPo == /\ job.tool = "po" /\ turns < job.edits
          /\ LET read == P!ReadPo(work.file) IN
             \E edit \in PoEdits(read.entries) :
                 work' = [file |-> P!WritePo(read.cat, EntriesAfter(read.entries, edit)), edit |-> edit]
          /\ turns' = turns + 1
          /\ UNCHANGED <<job, outcome>>

\* po_defuzz writes a copy, for tests of the layout; the catalogue stays as it is.
\* A catalogue of salvaged texts is refused unless it is forced.
DefuzzPo == /\ job.tool = "po" /\ turns < job.edits
            /\ \E force \in BOOLEAN :
                  /\ job.salvaged => force
                  /\ work' = [file |-> work.file, edit |-> [op |-> "defuzz", copy |-> P!Defuzz(work.file)]]
            /\ turns' = turns + 1
            /\ UNCHANGED <<job, outcome>>

\* apply_to_lang of po2pas: what a translation may not do to a constant, one of
\* blanks alone being none (translated of pofile); the lines of the table after
\* the translations that do not; and main, which skips a damaged table and
\* writes one that changes.  What is only warned of, outer blanks and line breaks
\* lost, is left out.
Accepted(d, new) ==
    LET english == IF d.name \in DOMAIN job.english THEN job.english[d.name] ELSE d.value
    IN /\ ~(ToSet(new) \subseteq {" ", "TAB", "CR", "LF"})
       /\ Contains(d.value, "NUL") => Contains(new, "NUL")
       /\ C!SpecifierTypes(english) = C!SpecifierTypes(new)
NewLines(lines, translations) ==
    LET decls == ToSet(L!WithPrefix(L!Decls(lines), "TC_"))
        changed == {d \in decls : d.name \in DOMAIN translations /\ Accepted(d, translations[d.name])}
    IN [i \in DOMAIN lines |-> IF \E d \in changed : d.lineno = i
                               THEN L!Rewrite(lines[i], translations[lines[i].name]) ELSE lines[i]]
AppliedTo(file, translations) ==
    LET new == NewLines(file.lines, translations) IN
    IF L!Form(file).lossy \/ new = file.lines THEN file ELSE L!WriteLangFile(new, L!Form(file))

\* One entry of the catalogue is translated.
EditTable == /\ job.tool = "table" /\ turns < job.edits
             /\ \E d \in ToSet(L!Decls(work.file.lines)), text \in job.targets :
                    work' = [file |-> AppliedTo(work.file, d.name :> text),
                             edit |-> [op |-> "apply", name |-> d.name, text |-> text]]
             /\ turns' = turns + 1
             /\ UNCHANGED <<job, outcome>>

\* pas2res makes the unit of resourcestrings from the table; the sources use any
\* of the constants of the .rc file.  Which of the constants of a damaged table
\* hold the bytes that cannot be written is not told.
RcNames(lines) == {d.name : d \in ToSet(L!WithPrefix(L!Decls(lines), "RC_"))}
MakeUnit == /\ job.tool = "table" /\ turns < job.edits
            /\ \E used \in SUBSET RcNames(work.file.lines),
                  unwritable \in {FALSE, L!Form(work.file).lossy} :
                  work' = [file |-> work.file,
                           edit |-> [op |-> "unit", used |-> used,
                                     unit |-> IF unwritable THEN L!NoUnit ELSE L!Unit(work.file.lines, used)]]
            /\ turns' = turns + 1
            /\ UNCHANGED <<job, outcome>>

\* What the engine does to the elements of one line of a caption.
Reply(way, sent) ==
    CASE way = "faithful" -> sent
      [] way = "swapped"  -> Reverse(sent)
      [] way = "dropped"  -> SelectSeq(sent, LAMBDA e : e.k # "ph")
      [] way = "literal"  -> SelectSeq(sent, LAMBDA e : e.k # "nm")
      [] way = "doubled"  -> sent \o sent
      [] way = "flat"     -> SelectSeq(sent, LAMBDA e : e.text # <<"LF">>)
      [] way = "wordless" -> SelectSeq(sent, LAMBDA e : e.k # "c" \/ e.text = <<"d">>)
      [] way = "quoted"   -> <<C!Is("c", 0, <<"\"">>)>> \o sent
      [] way = "spelled"  -> <<C!Is("c", 0, <<"&">>)>> \o sent
Ways == {"faithful", "swapped", "dropped", "literal", "doubled", "flat", "wordless", "quoted", "spelled"}

Translate == /\ job.tool = "caption" /\ turns = 0
             /\ C!IsTranslatable(job.source)
             /\ \E way \in Ways :
                   LET sent == C!Sent(job.source)
                       got == [i \in DOMAIN sent |-> Reply(way, sent[i])]
                   IN work' = [way |-> way, text |-> C!Draft(job.source, got, job.suffix)]
             /\ turns' = 1
             /\ UNCHANGED <<job, outcome>>

\* Every tool ends.
Ended == CASE job.tool = "pascal"          -> outcome # ""
           [] job.tool = "stream"          -> turns = Len(Sent) \/ ~Reading
           [] job.tool \in {"po", "table"} -> turns = job.edits
           [] job.tool = "caption"         -> turns = 1 \/ ~C!IsTranslatable(job.source)
Done == Ended /\ UNCHANGED vars

Next == FormatPass \/ Receive \/ EditPo \/ DefuzzPo \/ EditTable \/ MakeUnit \/ Translate \/ Done

Spec == Init /\ [][Next]_vars

------------------------------------------------------------------------------
\* The compiler reads the same program in the text after every pass: no else
\* is bound anew and nothing enters or leaves a body.
TextIsSameProgram == job.tool = "pascal" => Tree(work) = Tree(Original)

\* No file of these is given up: the passes reach a text that a further pass
\* leaves alone, and the check of the words finds nothing.  Where nothing stands
\* in the way the result is the house style, whatever the columns and the line
\* breaks were.
Free == /\ Plain(job.program) /\ job.program.op # "blk"
        /\ job.style.odd = 0 /\ job.style.note = "" /\ job.style.stmt /\ job.style.else

TextIsHouseStyle == /\ outcome # "skipped"
                    /\ outcome = "written" /\ Free => work = HouseText(job.program, job.style)

\* However the bytes came in, a framer has given out the messages whose last
\* byte has come, each once and in order; of the panadapter's, those whose sums
\* are right.  A cut packet costs itself and the next one, no more, and the
\* tallies tell of a loss if, and only if, there was one.  A WebSocket's reader
\* has looked at what came in with the handshake when it hears more, not before;
\* one that reads no more was closed, or had a frame that cannot be read, and
\* nothing that was given out is wrong; to every ping that was given out went
\* its payload.
Good(out) == IF job.kind = "pan"
             THEN SelectSeq(out, LAMBDA m : LET d == F!Decoded(m) IN d.header_sum = 0 /\ d.crc_computed = d.crc_received)
             ELSE out
Whole(n) == SelectSeq([k \in DOMAIN job.parts |-> k], LAMBDA k : Len(Bytes(SubSeq(job.parts, 1, k))) <= n)
Meant(n) == FlattenSeq([i \in DOMAIN Whole(n) |-> job.parts[Whole(n)[i]].msgs])
LossIsCounted(stats) ==
    (stats.header_bad + stats.crc_bad + stats.seq_gaps > 0) <=> \E k \in DOMAIN job.parts : job.parts[k].lost
\* The second byte tells a masked frame.
LossShows(n) == \E k \in DOMAIN job.parts : job.parts[k].lost /\ Len(Bytes(SubSeq(job.parts, 1, k - 1))) + 2 <= n
Closed(messages) == \E i \in DOMAIN messages : messages[i].opcode = 8
SocketIsHonest ==
    /\ work.stopped <=> work.heard /\ (Closed(Meant(turns)) \/ LossShows(turns))
    /\ ~work.heard => work.out = <<>>
    /\ IsPrefix(work.out, Meant(turns))
    /\ [i \in DOMAIN work.sent |-> work.sent[i].payload]
         = LET pings == F!Pings(work.out) IN [i \in DOMAIN pings |-> pings[i].payload]
\* The report of a K4's display commands: each once, in the order they came up,
\* with its last value; and a count of all other messages.
ReportIsTrue(messages) ==
    LET report == F!Watched(messages)
        shown == SelectSeq(messages, F!IsDisplay)
        ofHead(head) == {i \in DOMAIN shown : F!HeadOf(shown[i]) = head}
        first(head) == CHOOSE i \in ofHead(head) : \A j \in ofHead(head) : i <= j
        last(head) == CHOOSE i \in ofHead(head) : \A j \in ofHead(head) : j <= i
    IN /\ ToSet(report.order) = {F!HeadOf(shown[i]) : i \in DOMAIN shown}
       /\ \A i, j \in DOMAIN report.order : i < j => first(report.order[i]) < first(report.order[j])
       /\ report.seen = [head \in ToSet(report.order) |-> shown[last(head)]]
       /\ report.other = Len(messages) - Len(shown)

\* What is given out is what was sent, and what is said of it is so; a ping is
\* answered with its payload (in a text frame, although the comment says PONG).
StreamsAreMessages ==
    job.tool = "stream"
        => /\ Reading /\ (job.kind = "ws" => work.heard) => Good(work.out) = Meant(turns)
           /\ job.kind = "ws" => SocketIsHonest
           /\ job.kind = "pan" /\ turns = Len(Sent) => LossIsCounted(F!Stats(work.out))
           /\ job.kind = "k4" => ReportIsTrue(work.out)

\* "It also prints everything the server sends" (tciclient.py, its header): when
\* the server has sent all it had, every message of a reader that still reads
\* has been given out.
EverythingIsPrinted ==
    job.tool = "stream" /\ job.kind = "ws" /\ turns = Len(Sent) /\ Reading => work.out = Meant(turns)

\* A change of one entry is that change when the file is read again, and the
\* text of every other entry, the header and the mark are what they were; a
\* tool that changes nothing writes the same file.
Untouched(edit, i) == "at" \notin DOMAIN edit \/ edit.at # i
PoEditIsLocal(file, now, edit) ==
    LET read == P!ReadPo(file)
        again == P!ReadPo(now)
        want == EntriesAfter(read.entries, edit)
    IN /\ [i \in DOMAIN again.entries |-> again.entries[i].e] = [i \in DOMAIN want |-> want[i].e]
       /\ edit.op = "none" => now = file
       /\ (\E i \in DOMAIN want : want[i].raw # <<>>)
            => /\ again.cat.header = read.cat.header /\ again.cat.bom = read.cat.bom
               /\ \A i \in DOMAIN want :
                     LET k == again.entries[i]  was == want[i]
                     IN was.raw # <<>> => /\ k.lead = was.lead
                                          /\ Untouched(edit, i) \/ edit.op = "drop"
                                                => k.raw \in {was.raw, P!Ended(was.raw, read.cat.newline)}

\* A translation that is applied is what is read there, and in the .ts file; one
\* that is refused, and any to a damaged table, changes nothing.  The other
\* constants, their comments and their banners, and the form are as they were;
\* and the specifiers of a constant are still the English ones, where they were.
TableEditIsLocal(file, now, edit) ==
    LET was == L!Decls(file.lines)
        is == L!Decls(now.lines)
        took(d) == d.name = edit.name /\ d.name.prefix = "TC_" /\ ~L!Form(file).lossy /\ Accepted(d, edit.text)
    IN /\ is = [i \in DOMAIN was |-> IF took(was[i]) THEN [was[i] EXCEPT !.value = edit.text] ELSE was[i]]
       /\ (\A i \in DOMAIN was : ~took(was[i])) => now = file
       /\ L!Form(now) = L!Form(file)
       /\ \A i \in DOMAIN was : C!SpecifierTypes(is[i].value) \in {C!SpecifierTypes(was[i].value)}
             \cup {C!SpecifierTypes(job.english[name]) : name \in {was[i].name} \cap DOMAIN job.english}
       /\ L!XmlReadText(L!XmlEscapeText(edit.text)) = edit.text

\* The copy without flags has the entries of the catalogue, unflagged, and their
\* other flags, the header and the mark; a second pass finds nothing to do.
HeaderOf(read) == P!Block(SelectSeq(read.cat.header, LAMBDA l : l.kind # "blank"))
CopyIsUnflagged(file, copy) ==
    LET read == P!ReadPo(file)
        again == P!ReadPo(copy)
    IN /\ [i \in DOMAIN again.entries |-> again.entries[i].e]
            = [i \in DOMAIN read.entries |-> [read.entries[i].e EXCEPT !.fuzzy = FALSE]]
       /\ HeaderOf(again) = [HeaderOf(read) EXCEPT !.fuzzy = FALSE]
       /\ again.cat.bom = read.cat.bom
       /\ P!Defuzz(copy) = copy

\* The unit, where one is written, declares every constant once that Pascal code
\* can show: its value and its comment are the table's, and the context printed
\* last before it in its group is the one a translator needs.
ShownContext(lines, i) ==
    LET at == {k \in 1..i : lines[k].kind # "code"}
        last == CHOOSE k \in at : \A m \in at : m <= k
    IN IF lines[last].kind = "comment" THEN lines[last].name ELSE "none"
InUnit(name, used) == \/ name.prefix = "TC_"
                      \/ name.prefix # "RC_" /\ name.suffix = "_WORD"
                      \/ name \in used
UnitIsTheTable(file, unit, used) ==
    LET table == {[d EXCEPT !.lineno = 0] : d \in ToSet(L!Decls(file.lines))}
        lines == unit.lines
        at == {i \in DOMAIN lines : lines[i].kind = "code"}
        read(i) == [L!Decls(<<lines[i]>>)[1] EXCEPT !.context = ShownContext(lines, i), !.lineno = 0]
    IN /\ {read(i) : i \in at} = {d \in table : InUnit(d.name, used)}
       /\ Cardinality(at) = Cardinality({lines[i].name : i \in at})
       /\ L!Form(unit) = L!UnitForm

\* What an edit does not change, of a catalogue or of a language table, the
\* tools write as they read it; what it changes is read back as it was meant.
EditsOfFiles == /\ EditPo => PoEditIsLocal(work.file, work'.file, work'.edit)
                /\ DefuzzPo => CopyIsUnflagged(work.file, work'.edit.copy)
                /\ EditTable => TableEditIsLocal(work.file, work'.file, work'.edit)
                /\ MakeUnit => \/ /\ L!Form(work.file).lossy
                                   /\ work'.edit.unit = L!NoUnit
                                \/ UnitIsTheTable(work.file, work'.edit.unit, work'.edit.used)
EditStaysLocal == [][EditsOfFiles]_vars

\* A faithful answer to a caption is kept where the caption has no fault of its
\* own, says the same specifiers without its accelerator, and has none that
\* po_lint knows and the seeder does not mask; and whatever the engine answers, a
\* caption that is kept takes its arguments in the order of the English one, has
\* its line breaks and its outer blanks, and marks no second and no new accelerator.
Faultless(text) ==
    LET plain == C!SplitAccelerator(text).text
        covered(spans) == UNION {spans[k].at..spans[k].end : k \in DOMAIN spans}
    IN /\ C!DraftDefects(text, text) = {}
       /\ C!SpecifierTypes(plain) = C!SpecifierTypes(text)
       /\ C!LintSpecifiers(plain) = C!LintSpecifiers(text)
       /\ covered(C!Spans(plain, C!LintEnd)) \subseteq covered(C!Spans(plain, C!PlaceholderEnd))
Marks(text) == Cardinality(C!LoneAmps(text))
CaptionsAreSafe ==
    job.tool = "caption" /\ turns = 1 =>
        LET source == job.source  text == work.text
        IN /\ work.way = "faithful" /\ Faultless(source) => text # <<>>
           /\ text # <<>> => /\ C!SpecifierTypes(text) = C!SpecifierTypes(source)
                             /\ C!Controls(text) = C!Controls(source)
                             /\ C!Lead(text) = C!Lead(source) /\ C!Trail(text) = C!Trail(source)
                             /\ Marks(source) <= 1 => Marks(text) <= Marks(source)
==============================================================================
