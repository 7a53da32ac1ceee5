----------------------------- MODULE Catalogue -----------------------------
(***************************************************************************)
(* One language's catalogue over a release: developers declare, reword and *)
(* remove English, translators work in Poedit, and the tools of tools/i18n *)
(* are run in any order. kind "tr4w" is the program's catalogue, rebuilt   *)
(* and merged from the Lazarus harvest and the language table; kind "help" *)
(* is the command help, merged from the inis.                              *)
(***************************************************************************)
EXTENDS CatalogueTools, FiniteSets

CONSTANTS
    WidgetTexts,  \* English the Lazarus widget set has its own words for
    MaxEdits,     \* bound: edits by developers and translators
    MaxRuns,      \* bound: tools run
    MaxSteps      \* bound: edits and tools run, together

VARIABLES kind,    \* which of the two catalogues this is
          eng,     \* the English of every identifier, or Gone
          table,   \* tr4w: the legacy language table; help: the ini
          cat,     \* the .po file
          seeding, \* what a running mt_seed read
          edits, runs

vars == <<kind, eng, table, cat, seeding, edits, runs>>

Idle == [read |-> <<>>, running |-> FALSE]

(* The Lazarus harvest. Identifiers that share their English are told apart *)
(* by a msgctxt; one that has its English to itself needs none.             *)
Unit(id) == IF id \in FormIds THEN "form"
            ELSE IF id \in AppIds THEN "uappstrings"
            ELSE IF id \in VendorIds THEN "log4d" ELSE "utr4wstrings"
Template(english) ==
    LET names == InOrder(Declared(english))
        Shared(id) == \E other \in Declared(english) \ {id} :
                          english[other] = english[id]
        Harvested(id) == LET key == <<Unit(id), id>>
                         IN  NewEntry(IF Shared(id) THEN key ELSE NoCtx, english[id],
                                      Empty, FALSE, <<key>>)
    IN  [n \in DOMAIN names |-> Harvested(names[n])]

Init ==
    /\ kind \in {"tr4w", "help"}
    /\ eng \in {e \in [Ids -> Texts \cup {Gone}] :
                    /\ \A id \in Ids : (e[id] = Gone) = (id \in AppIds)
                    /\ \A id \in VendorIds : e[id] \in WidgetTexts}
    /\ table \in {t \in [TableIds -> Targets] :
                    \A id \in TableIds :
                        t[id] \in {Empty, By("human", eng[id]), By("english", eng[id])}}
    /\ cat = IF kind = "help" THEN IniEmit(<<>>, eng, table) ELSE Emit(<<>>, eng, table)
    /\ seeding = Idle
    /\ edits = 0
    /\ runs = 0

(* A tool reads the file, works and writes it, one tool at a time; only     *)
(* seeding takes so long that people work on in between.                    *)
More == edits + runs < MaxSteps
Start == ~seeding.running /\ runs < MaxRuns /\ More /\ runs' = runs + 1
Run(result) == /\ Start
               /\ cat' = result
               /\ UNCHANGED <<kind, eng, table, seeding, edits>>
OnTr4w(result) == kind = "tr4w" /\ Run(result)

RunMerge == OnTr4w(Merge(cat, Template(eng)))
RunDedupe == OnTr4w(Dedupe(cat))
RunRekey == OnTr4w(Rekey(cat, "utr4wstrings"))
RunBackfill == OnTr4w(Backfill(cat, eng, table))
RunPrune == OnTr4w(Prune(cat, eng))
RunSalvage == \E id \in TableIds : OnTr4w(Salvage(cat, {id}))
HasTable == \E id \in TableIds : table[id] # Empty
EmitFrom(translations) == LET rebuilt == Emit(cat, eng, translations)
                          IN  ~EmitRefuses(cat, rebuilt) /\ OnTr4w(rebuilt)
RunEmit == HasTable /\ EmitFrom(table)
RunLintFix == Run(LintFix(cat))
RunFixSpacing == Run(FixSpacing(cat))
RunIni2Po == kind = "help" /\ Run(IniEmit(cat, eng, table))

(* --new-lang, for a language that has no ini or no language table. Both    *)
(* refuse a catalogue that holds finished translations.                     *)
NoTable == [id \in TableIds |-> Empty]
Unfinished == ~\E e \in Entries(cat) : Translated(e)
IniNewLang == kind = "help" /\ Unfinished /\ Run(IniEmit(cat, eng, NoTable))
PasNewLang == ~HasTable /\ Unfinished /\ EmitFrom(NoTable)

RunPo2Pas ==
    /\ kind = "tr4w" /\ Start
    /\ table' = IF HasTable THEN Apply(cat, eng, table) ELSE CreateTable(cat, eng)
    /\ UNCHANGED <<kind, eng, cat, seeding, edits>>

SeedRead ==
    /\ Start
    /\ seeding' = [read |-> cat, running |-> TRUE]
    /\ UNCHANGED <<kind, eng, table, cat, edits>>

\* The widget set's own words, which need not suit a caption of the program.
Widgets(flaw) == [text \in WidgetTexts |-> [By("widgetset", text) EXCEPT !.flaw = flaw]]
Drafted(flaw, text) == [by |-> "engine", of |-> text, flaw |-> flaw]
SeedEnds == seeding' = Idle /\ UNCHANGED <<kind, eng, table, edits, runs>>
\* What only the engine can fill waits for it; with nothing to fill nothing is written.
SeedWrite ==
    /\ seeding.running
    /\ \E flaw, words \in Flaws, reseed \in BOOLEAN :
            LET only == Claims(seeding.read)
                opened == SeedFrom(seeding.read, only, reseed)
                widgets == Widgets(words)
                drafts == [text \in {e.source : e \in Entries(opened)} |-> Drafted(flaw, text)]
            IN  cat' = IF Todo(opened, only, widgets) \cup FromLcl(opened, only, widgets) = {}
                       THEN cat ELSE Seed(opened, only, widgets, drafts)
    /\ SeedEnds

(* The engine cannot be reached, lacks the language, or answers fewer texts  *)
(* than it was asked: what was read and filled so far is thrown away.        *)
SeedStops ==
    /\ seeding.running
    /\ \E words \in Flaws, reseed \in BOOLEAN :
            LET only == Claims(seeding.read)
            IN  Todo(SeedFrom(seeding.read, only, reseed), only, Widgets(words)) # {}
    /\ UNCHANGED cat
    /\ SeedEnds

(* Developers. *)
EditEnglish(id, text) ==
    /\ edits < MaxEdits /\ More
    /\ id \in (IF kind = "help" THEN TableIds ELSE TableIds \cup FormIds)
    /\ eng[id] # text
    /\ eng' = [eng EXCEPT ![id] = text]
    /\ edits' = edits + 1
    /\ UNCHANGED <<kind, table, cat, seeding, runs>>

(* A new uAppStrings string is appended to every catalogue by hand, with no *)
(* msgctxt, translated or not.                                              *)
AppendByHand(id, text) ==
    /\ kind = "tr4w" /\ edits < MaxEdits /\ More
    /\ eng[id] = Gone
    /\ eng' = [eng EXCEPT ![id] = text]
    /\ \E target \in {Empty, By("human", text)} :
            cat' = Append(cat, NewEntry(NoCtx, text, target, target = Empty,
                                        <<<<"uappstrings", id>>>>))
    /\ edits' = edits + 1
    /\ UNCHANGED <<kind, table, seeding, runs>>

(* Translators. Poedit saves the file whole and takes the fuzzy flag off an *)
(* entry that has no text.                                                  *)
Poedit(i, e) ==
    /\ edits < MaxEdits /\ More
    /\ Live(cat[i])
    /\ cat' = MapEntries([cat EXCEPT ![i] = e],
                         LAMBDA x : IF HasText(x) THEN x ELSE [x EXCEPT !.fuzzy = FALSE])
    /\ edits' = edits + 1
    /\ UNCHANGED <<kind, eng, table, seeding, runs>>

Review(i) == \E flaw \in {"none", "seam"} :
                Poedit(i, [cat[i] EXCEPT !.fuzzy = FALSE,
                             !.target = [by |-> "human", of |-> cat[i].source, flaw |-> flaw]])
SendBack(i) == HasText(cat[i]) /\ ~cat[i].fuzzy /\ Poedit(i, [cat[i] EXCEPT !.fuzzy = TRUE])
MarkSkip(i) == ~cat[i].skip /\ Poedit(i, [cat[i] EXCEPT !.skip = TRUE])

(* It has had its edits and runs.                                           *)
Done == ~More /\ ~seeding.running /\ UNCHANGED vars

Next == \/ RunMerge \/ RunDedupe \/ RunRekey \/ RunBackfill \/ RunPrune \/ RunSalvage
        \/ RunEmit \/ RunLintFix \/ RunFixSpacing \/ RunIni2Po \/ RunPo2Pas
        \/ IniNewLang \/ PasNewLang \/ SeedRead \/ SeedWrite \/ SeedStops
        \/ \E id \in Ids, text \in Texts \cup {Gone} : EditEnglish(id, text)
        \/ \E id \in AppIds, text \in Texts : AppendByHand(id, text)
        \/ \E i \in DOMAIN cat : Review(i) \/ SendBack(i) \/ MarkSkip(i)
        \/ Done

Spec == Init /\ [][Next]_vars
-----------------------------------------------------------------------------
IdOf(ident) == IF ident[2] \in Ids THEN ident[2] ELSE ident[2][2]
IdsOf(e) == {IdOf(ident) : ident \in ClaimedIdentifiers(e)}
ReviewedIds(entries) ==
    UNION {IdsOf(e) : e \in {x \in Entries(entries) : Translated(x) /\ ~SameAsEnglish(x.target)}}

(* The tools that add to a catalogue, join its entries or mend them take no   *)
(* reviewed text away: po_merge, po_dedupe, po_rekey, po_backfill,            *)
(* salvage_lossy, po_lint --fix, mt_seed --fix-spacing, and mt_seed while     *)
(* nobody else wrote the file, leave every identifier that had reviewed text  *)
(* in a live entry with reviewed text. (A vendored unit's strings are         *)
(* po_merge's to delete, and so are obsolete entries.) The others do lose     *)
(* reviewed work: ini2po asks for a new review when the English changes, and  *)
(* po_prune and pas2po against what they say of themselves, below.            *)
ToolsKeepReviews ==
    (\/ RunMerge \/ RunDedupe \/ RunRekey \/ RunBackfill \/ RunSalvage
     \/ RunLintFix \/ RunFixSpacing
     \/ SeedWrite /\ seeding.read = cat)
       => ReviewedIds(cat) \ VendorIds \subseteq ReviewedIds(cat')
ReviewedWorkSurvives == [][ToolsKeepReviews]_vars

(* The fuzzy flag tells the truth where the tools set it themselves: text     *)
(* salvaged from a damaged file or borrowed from the widget set is never      *)
(* taken for reviewed; and in the help catalogue, which ini2po keeps abreast  *)
(* of its English, text that is not flagged translates the English it stands  *)
(* under.                                                                     *)
BorrowedTextIsFlagged ==
    \A e \in Entries(cat) : e.target.by \in {"salvage", "widgetset"} => e.fuzzy
HelpTranslatesItsEnglish ==
    kind = "help" =>
        \A e \in Entries(cat) : Translated(e) => e.target.of = e.source
FlagsAreHonest == BorrowedTextIsFlagged /\ HelpTranslatesItsEnglish

(* "Mark catalogue entries obsolete when their key no longer exists in the    *)
(* source" (po_prune.py:1): what it retires has no English any more. It knows *)
(* the TC_ and RC_ names alone (39-61, 116-124), so a caption of a form or a  *)
(* string of uAppStrings that has a msgctxt goes, and the next po_merge       *)
(* deletes it (po_merge.py:198).                                              *)
PruneRetiresOnlyTheGone ==
    [][RunPrune => \A i \in DOMAIN cat : Live(cat[i]) /\ ~Live(cat'[i])
                                            => eng[IdOf(cat[i].ctx)] = Gone]_vars

(* "Write one .po, preserving any review decision already in the file"        *)
(* (pas2po.py:96): where the English is the same, reviewed text stays and     *)
(* text sent back stays flagged. It looks at the file's decision only where   *)
(* the table's text is the English (124-133).                                 *)
EmitKeepsDecisions ==
    [][RunEmit => \A id \in TableIds :
           \A e \in ByKey(cat, Bare(id)), x \in ByKey(cat', Bare(id)) :
               HasText(e) /\ e.source = x.source =>
                   (e.fuzzy => x.fuzzy) /\ (Translated(e) => x.target = e.target)]_vars
=============================================================================
