--------------------------- MODULE CatalogueTools ---------------------------
(***************************************************************************)
(* What one run of each catalogue tool makes of the file it reads. A tool  *)
(* is a function of the catalogue and of the sources it consults: the      *)
(* English (eng), the language's own legacy table or help ini (table), the *)
(* harvested template, the engine's answers.                               *)
(***************************************************************************)
EXTENDS PoFile

(* po_merge.merge: add what the template has and the catalogue does not,    *)
(* seeded by a reviewed entry with the same English; delete a dependency's  *)
(* strings, obsolete entries and empty ones that are not language. What is  *)
(* KNOWN is read before anything is deleted.                                *)
IsKnown(t, cat) ==
    \/ ClaimedIdentifiers(t) \cap Claims(cat) # {}
    \/ /\ ClaimedIdentifiers(t) = {}
       /\ \E e \in Entries(cat) : ClaimedIdentifiers(e) = {} /\ e.source = t.source

BySource(cat, text) ==
    LET hits == Those(cat, LAMBDA e : e.source = text /\ HasText(e) /\ ~e.fuzzy)
    IN  IF hits = <<>> THEN Empty ELSE hits[1].target

Merge(cat, template) ==
    LET Kept(e) == /\ ~IsThirdParty(e)
                   /\ Live(e)
                   /\ IsTranslatable(e.source) \/ HasText(e)
        Wanted(t) == /\ IsTranslatable(t.source)
                     /\ ~IsKnown(t, cat)
                     /\ ~IsThirdParty(t)
        Added(t) == NewEntry(t.ctx, t.source, BySource(cat, t.source), TRUE, t.refs)
    IN  Those(cat, Kept) \o MapEntries(Those(template, Wanted), Added)

(* po_dedupe: live entries with the same (msgctxt, msgid) become one, in    *)
(* the first one's place, with the best copy's text and every reference.    *)
IsAudited(e) == \E i \in DOMAIN e.refs : e.refs[i][1] = "uappstrings"
RefRank(e) == \E i \in DOMAIN e.refs : e.refs[i][1] = "utr4wstrings"

Better(e, d) ==                       \* rank, compared key by key
    LET Key(x) == <<HasText(x), ~x.fuzzy, IsAudited(x), RefRank(x)>>
    IN  \E k \in 1..4 : /\ \A j \in 1..(k - 1) : Key(e)[j] = Key(d)[j]
                        /\ Key(e)[k] /\ ~Key(d)[k]

Pick(group) ==
    group[CHOOSE i \in DOMAIN group :
            \A j \in DOMAIN group :
                ~Better(group[j], group[i]) /\ (j < i => Better(group[i], group[j]))]

Unique(items) == Elements(items, {i \in DOMAIN items : \A j \in 1..(i - 1) : items[j] # items[i]})

Dedupe(cat) ==
    LET Same(e, d) == Live(e) /\ Live(d) /\ e.ctx = d.ctx /\ e.source = d.source
        Group(e) == Those(cat, LAMBDA d : Same(e, d))
        First(i) == \A j \in 1..(i - 1) : ~Same(cat[i], cat[j])
        Joined(e) ==
            LET group == Group(e)
                winner == Pick(group)
            IN  [e EXCEPT !.target = winner.target, !.fuzzy = winner.fuzzy,
                          !.refs = Unique(FlattenSeq(MapEntries(group, LAMBDA d : d.refs))),
                          !.skip = \E d \in Entries(group) : d.skip,
                          !.salvaged = \E d \in Entries(group) : d.salvaged]
        kept == Those([i \in DOMAIN cat |-> i], First)
    IN  [n \in DOMAIN kept |->
            IF Len(Group(cat[kept[n]])) > 1 THEN Joined(cat[kept[n]])
                                            ELSE cat[kept[n]]]

(* po_rekey: the reference FPC would have emitted for the entry's msgctxt   *)
(* comes first; one an earlier run wrote for another unit goes.             *)
Rekey(cat, unit) ==
    LET Want(e) == <<unit, IF e.ctx[1] = "" THEN e.ctx[2] ELSE e.ctx>>
        Rekeyed(e) ==
            IF e.obsolete \/ e.ctx = NoCtx \/ Contains(e.refs, Want(e)) THEN e
            ELSE [e EXCEPT !.refs = <<Want(e)>> \o
                    Those(e.refs, LAMBDA r : r[2] # Want(e)[2] \/ r[1] = "form")]
    IN  MapEntries(cat, Rekeyed)

(* po_backfill: every English constant the catalogue does not cover, with   *)
(* the language table's own text; fuzzy when that is absent or the English. *)
CoveredNames(cat) ==
    {e.ctx[2] : e \in {x \in Entries(cat) : x.ctx # NoCtx /\ x.ctx[1] = ""}} \cup
    {r[2] : r \in {r \in Claims(cat) : r[1] = "utr4wstrings"}}

Backfill(cat, eng, table) ==
    LET Missing(id) == id \notin CoveredNames(cat) /\ IsTranslatable(eng[id])
        Filled(id) == NewEntry(Bare(id), eng[id], table[id],
                               table[id] = Empty \/ SameAsEnglish(table[id]),
                               <<<<"utr4wstrings", id>>>>)
        missing == Those(InOrder(Declared(eng) \cap TableIds), Missing)
    IN  cat \o [n \in DOMAIN missing |-> Filled(missing[n])]

(* po_prune: an entry whose msgctxt is no TC_ or RC_ name the source        *)
(* declares becomes obsolete, its translation kept.                         *)
SourceKeys(eng) == {Bare(id) : id \in Declared(eng) \cap TableIds}
Prune(cat, eng) ==
    LET Pruned(e) == IF Live(e) /\ e.ctx # NoCtx /\ e.ctx \notin SourceKeys(eng)
                     THEN [e EXCEPT !.obsolete = TRUE] ELSE e
    IN  MapEntries(cat, Pruned)

(* salvage_lossy: text recovered from a damaged language file, whose bytes  *)
(* one broken conversion moved by a known distance, is a suggestion,        *)
(* written only where nobody has reviewed anything.                         *)
Repaired(text) == By("salvage", text)
SalvageOverReviewed(cat, found) ==     \* mutant: reviewed text is overwritten too
    LET Suggested(e) ==
            IF ~(\E id \in found : e.ctx = Bare(id)) THEN e
            ELSE [e EXCEPT !.target = Repaired(e.source), !.fuzzy = TRUE,
                           !.salvaged = TRUE]
    IN  MapEntries(cat, Suggested)
Salvage(cat, found) ==
    LET Suggested(e) ==
            IF ~(\E id \in found : e.ctx = Bare(id)) \/ Translated(e) THEN e
            ELSE [e EXCEPT !.target = Repaired(e.source), !.fuzzy = TRUE,
                           !.salvaged = TRUE]
    IN  MapEntries(cat, Suggested)

(* po_lint.check: what is wrong with an entry; those that are obsolete,     *)
(* empty or not language are passed by. With --fix English in the           *)
(* translation's place is flagged and seams are mended; a format is not.    *)
LintFinds(e) ==
    IF e.obsolete \/ ~IsTranslatable(e.source) \/ ~HasText(e) THEN {}
    ELSE {f \in {"english"} : SameAsEnglish(e.target) /\ ~e.fuzzy}
         \cup {f \in {"seam", "format"} : e.target.flaw = f}

LintFix(cat) ==
    LET Fixed(e) ==
            [e EXCEPT !.fuzzy = @ \/ "english" \in LintFinds(e),
                      !.target = IF "seam" \in LintFinds(e) THEN Mended(@) ELSE @]
    IN  MapEntries(cat, Fixed)

(* mt_seed --fix-spacing: the same seam, in unreviewed entries only.        *)
FixSpacing(cat) ==
    LET Spaced(e) == IF Live(e) /\ e.fuzzy THEN [e EXCEPT !.target = Mended(e.target)]
                                           ELSE e
    IN  MapEntries(cat, Spaced)

(* mt_seed.seed. --reseed first empties what a machine wrote; then every    *)
(* empty entry no human has fenced off is filled, from the widget set when  *)
(* that has words which fit, else from the engine. A damaged draft is        *)
(* dropped. The widget set's text is flagged; the engine's leaves the flag   *)
(* as it was.                                                                *)
Wiped(cat, only) ==
    LET Machine(e) == /\ e.fuzzy /\ HasText(e) /\ Live(e)
                      /\ ClaimedIdentifiers(e) \cap only # {}
                      /\ ~e.skip /\ ~e.salvaged
    IN  MapEntries(cat, LAMBDA e : IF Machine(e) THEN [e EXCEPT !.target = Empty]
                                                 ELSE e)

ToSeed(e, only) == /\ ~HasText(e) /\ Live(e) /\ ~e.skip
                   /\ ClaimedIdentifiers(e) \cap only # {}

\* Words with an accelerator where the English has one and without a defect fit.
HasWords(e, widgets) == e.source \in DOMAIN widgets /\ ~DraftDefects(widgets[e.source])

FromWidgetSet(e, widgets) == [e EXCEPT !.target = widgets[e.source], !.fuzzy = TRUE]
FromEngine(e, draft) ==
    IF ~IsTranslatable(e.source) \/ draft = Empty \/ DraftDefects(draft) THEN e
    ELSE [e EXCEPT !.target = Mended(draft)]

SeedFrom(cat, only, reseed) == IF reseed THEN Wiped(cat, only) ELSE cat
FromLcl(cat, only, widgets) ==
    {e \in Entries(cat) : ToSeed(e, only) /\ HasWords(e, widgets)}
Todo(cat, only, widgets) ==            \* what the engine is asked for
    {e \in Entries(cat) : /\ ToSeed(e, only)
                          /\ ~HasWords(e, widgets) /\ IsTranslatable(e.source)}
Seed(cat, only, widgets, drafts) ==
    LET Filled(e) ==
            IF ~ToSeed(e, only) THEN e
            ELSE IF HasWords(e, widgets) THEN FromWidgetSet(e, widgets)
            ELSE FromEngine(e, drafts[e.source])
    IN  MapEntries(cat, Filled)

(* The names the program ships as resourcestrings, whatever their prefix.   *)
LiveResourcestrings(eng) == Declared(eng) \cap TableIds

(* pas2po.emit rebuilds a catalogue from the language table, and refuses    *)
(* when an entry with text would go. Text equal to the English is a finding *)
(* unless a reviewer accepted that very text before.                        *)
Emit(cat, eng, table) ==
    LET Accepted(id) == \E e \in ByKey(cat, Bare(id)) : ~e.fuzzy /\ e.target = table[id]
        Rebuilt(id) == NewEntry(Bare(id), eng[id], table[id],
                                \/ table[id] = Empty
                                \/ SameAsEnglish(table[id]) /\ ~Accepted(id), <<>>)
        Extra(id) == [NewEntry(Bare(id), Foreign, table[id], FALSE, <<>>)
                        EXCEPT !.obsolete = TRUE]
        names == Those(InOrder(LiveResourcestrings(eng)),
                           LAMBDA id : IsTranslatable(eng[id]))
        extras == InOrder({id \in TableIds \ Declared(eng) : table[id] # Empty})
    IN  [n \in DOMAIN names |-> Rebuilt(names[n])] \o
        [n \in DOMAIN extras |-> Extra(extras[n])]

EmitRefuses(cat, rebuilt) ==
    \E e \in Entries(cat) : /\ Live(e) /\ e.ctx # NoCtx /\ HasText(e)
                            /\ e.ctx \notin {r.ctx : r \in Entries(rebuilt)}

(* po2pas: finished translations go into the language table, except one     *)
(* whose format specifiers differ; a language without a table gets the      *)
(* English one with the finished translations in it.                        *)
Apply(cat, eng, table) ==
    LET Found(id) == {e \in ByKey(cat, Bare(id)) : Translated(e)}
        Applied(id) == {e.target : e \in {x \in Found(id) : ~DraftDefects(x.target)}}
    IN  [id \in DOMAIN table |->
            IF table[id] = Empty \/ Applied(id) = {} THEN table[id]
            ELSE CHOOSE t \in Applied(id) : TRUE]

CreateTable(cat, eng) ==
    [id \in TableIds |->
        IF eng[id] = Gone THEN Empty
        ELSE LET found == {e \in Entries(cat) : e.ctx = Bare(id) /\ Translated(e)}
             IN  IF found = {} THEN By("english", eng[id])
                 ELSE (CHOOSE e \in found : TRUE).target]

(* ini2po: the help catalogue. It is built from the inis once; after that   *)
(* the English is merged into it, and only a human clears a fuzzy flag.     *)
Real(t) == t # Empty /\ ~SameAsEnglish(t)
HelpIds(eng) == Declared(eng) \cap TableIds

RetainedExtras(entries, eng, ini) ==
    LET names == InOrder({id \in TableIds \ HelpIds(eng) :
                            /\ ini[id] # Empty
                            /\ \A e \in Entries(entries) : e.ctx # Bare(id)})
    IN  [n \in DOMAIN names |->
            [NewEntry(Bare(names[n]), Foreign, ini[names[n]], FALSE, <<>>)
                EXCEPT !.obsolete = TRUE]]

BuildFresh(eng, ini) ==
    LET names == InOrder(HelpIds(eng))
        entries == [n \in DOMAIN names |->
                      NewEntry(Bare(names[n]), eng[names[n]], ini[names[n]],
                               ~Real(ini[names[n]]), <<>>)]
    IN  entries \o RetainedExtras(entries, eng, ini)

Memory(cat, text) ==          \* a live entry whose old English was this text
    LET hits == Those(cat, LAMBDA e : Live(e) /\ HasText(e) /\ e.source = text)
    IN  IF hits = <<>> THEN Empty ELSE hits[1].target

RewordedUnmarked(e, text, tr) ==       \* mutant: a reviewed text stays reviewed
    IF HasText(e) /\ e.fuzzy /\ e.target # tr
    THEN [e EXCEPT !.source = text, !.target = Empty]
    ELSE [e EXCEPT !.source = text]

Reworded(e, text, tr) ==
    IF HasText(e) /\ e.fuzzy /\ e.target # tr
    THEN [e EXCEPT !.source = text, !.target = Empty]
    ELSE [e EXCEPT !.source = text, !.fuzzy = TRUE]

Section(cat, eng, ini, id) ==          \* what a section English has becomes
    LET old == ByKey(cat, Bare(id))
        Merged(e) ==
            IF e.source # eng[id] THEN Reworded(e, eng[id], ini[id])
            ELSE IF ~HasText(e) /\ Real(ini[id])
                 THEN [e EXCEPT !.target = ini[id], !.fuzzy = TRUE]
            ELSE e
    IN  IF old # {} THEN Merged(CHOOSE e \in old : TRUE)
        ELSE NewEntry(Bare(id), eng[id],
                      IF Real(ini[id]) THEN ini[id] ELSE Memory(cat, eng[id]), TRUE, <<>>)

Retired(cat, eng) ==                   \* sections that are gone from it
    MapEntries(Those(cat, LAMBDA e : /\ Live(e)
                                     /\ e \in ByKey(cat, e.ctx)
                                     /\ e.ctx[2] \notin HelpIds(eng)),
               LAMBDA e : [e EXCEPT !.obsolete = TRUE])

LongGone(cat, eng) ==                  \* obsolete entries no new one takes the place of
    Those(cat, LAMBDA e : /\ e.obsolete
                          /\ \/ e.ctx[2] \notin HelpIds(eng)
                             \/ ByKey(cat, Bare(e.ctx[2])) # {})

IniMerge(cat, eng, ini) ==
    LET names == InOrder(HelpIds(eng))
        current == [n \in DOMAIN names |-> Section(cat, eng, ini, names[n])]
        entries == current \o Retired(cat, eng) \o LongGone(cat, eng)
    IN  entries \o RetainedExtras(entries, eng, ini)

IniEmit(cat, eng, ini) ==              \* the file is built once, then merged into
    IF cat = <<>> THEN BuildFresh(eng, ini) ELSE IniMerge(cat, eng, ini)
=============================================================================
