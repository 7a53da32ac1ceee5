------------------------------- MODULE PoFile -------------------------------
(***************************************************************************)
(* A gettext catalogue of TR4W as the tools under tools/i18n see it: a     *)
(* sequence of entries, and the questions every tool asks of one entry     *)
(* (pofile.py) or of one constant of a language table (pasconsts.py).      *)
(* How an entry is spelled in the file is PoText's subject, not this one's.*)
(***************************************************************************)
EXTENDS Naturals, Sequences, SequencesExt

CONSTANTS
    TableIds,     \* TC_/RC_ constants of tr4w_consts_eng.pas, or help sections
    FormIds,      \* properties of designed forms, as the Lazarus harvest names them
    AppIds,       \* resourcestrings of uAppStrings
    VendorIds,    \* resourcestrings of vendored units
    Texts,        \* English texts
    NotLanguage   \* the texts among them that are not language: 'F1', '8', '...'

Ids == TableIds \cup FormIds \cup AppIds \cup VendorIds
Gone == "gone"

(* A msgid that is itself a translation: what pas2po and ini2po give the    *)
(* text of a name English no longer has.                                    *)
Foreign == "foreign"

(* A translation is who wrote it, the English it translates, and what is    *)
(* wrong with it: "seam" (edge space, a spaced '&', an HTML entity: the     *)
(* tools repair those) or "format" (other specifiers or line breaks, or an  *)
(* accelerator that is not the English's where a tool looks for it).        *)
Writers == {"human", "engine", "widgetset", "english", "salvage"}
Flaws == {"none", "seam", "format"}
Translation == [by : Writers, of : Texts \cup {Foreign}, flaw : Flaws]
Empty == [by |-> "nobody", of |-> Gone, flaw |-> "none"]
Targets == Translation \cup {Empty}
By(writer, text) == [by |-> writer, of |-> text, flaw |-> "none"]

(* An identifier is a unit (or form class) and a name; a bare TC_ name has  *)
(* no unit. po_rekey puts a unit before whatever the msgctxt says.          *)
Units == {"utr4wstrings", "uappstrings", "form", "log4d"}
NoCtx == <<"", "no id">>
Bare(id) == <<"", id>>
Identifiers == (Units \X Ids) \cup (Units \X (Units \X Ids))
Contexts == {NoCtx} \cup {Bare(id) : id \in Ids} \cup (Units \X Ids)

Entry == [ctx : Contexts, source : Texts \cup {Foreign}, target : Targets,
          fuzzy : BOOLEAN, obsolete : BOOLEAN, refs : Seq(Identifiers),
          skip : BOOLEAN,        \* the translator comment '# mt-seed: skip'
          salvaged : BOOLEAN]    \* the note salvage_lossy.py leaves

NewEntry(ctx, source, target, fuzzy, refs) ==
    [ctx |-> ctx, source |-> source, target |-> target, fuzzy |-> fuzzy,
     obsolete |-> FALSE, refs |-> refs, skip |-> FALSE, salvaged |-> FALSE]

Entries(cat) == {cat[i] : i \in DOMAIN cat}
Live(e) == ~e.obsolete
HasText(e) == e.target # Empty
Translated(e) == HasText(e) /\ ~e.fuzzy /\ Live(e)

(* by_key: a later entry of the same msgctxt takes the earlier one's place. *)
ByKey(cat, ctx) ==
    LET at == {i \in DOMAIN cat : cat[i].ctx = ctx /\ Live(cat[i])}
    IN  {cat[i] : i \in {i \in at : \A j \in at : j <= i}}

(* Every identifier an entry answers for: its msgctxt and its #: tokens.    *)
ClaimedIdentifiers(e) == ToSet(e.refs) \cup ({e.ctx} \ {NoCtx})
Claims(cat) == UNION {ClaimedIdentifiers(e) : e \in Entries(cat)}

IsTranslatable(text) == text \notin NotLanguage

(* pas2po.same_as_english, po_lint.same_text: the English wearing a hat.    *)
SameAsEnglish(target) == target.by = "english"

(* A format flaw is a changed sequence of specifiers or of line breaks; it  *)
(* is what po_lint.draft_defects and po2pas refuse. Edge space is mirrored, *)
(* entities and spaced accelerators are resolved.                           *)
DraftDefects(target) == target.flaw = "format"
Mended(target) == IF target.flaw = "seam" THEN [target EXCEPT !.flaw = "none"]
                                          ELSE target

(* The first identifier names the unit; one tr4w.lpi does not list under    *)
(* tr4w/src is a dependency's. A form class always belongs to the program.  *)
IsThirdParty(e) == e.refs # <<>> /\ e.refs[1][1] = "log4d"

MapEntries(cat, Op(_)) == [i \in DOMAIN cat |-> Op(cat[i])]

(* The elements at some places of a sequence, and those that pass a test,   *)
(* in their order.                                                          *)
Elements(s, places) ==
    LET upto[i \in 0..Len(s)] ==
            IF i = 0 THEN <<>>
            ELSE IF i \in places THEN Append(upto[i - 1], s[i]) ELSE upto[i - 1]
    IN  upto[Len(s)]
Those(s, Test(_)) == Elements(s, {i \in DOMAIN s : Test(s[i])})

(* The language tables. A name is declared while its English is not Gone.   *)
Declared(eng) == {id \in DOMAIN eng : eng[id] # Gone}
InOrder(S) == SetToSeq(S)                  \* the order of the source file
=============================================================================
