----------------------------- MODULE MCDownloads -----------------------------
(***************************************************************************)
(* The tools that keep files over many runs and fill them from elsewhere,  *)
(* each on its own: a behaviour is one of QrzNames, of TrMaster, of        *)
(* UdcFetch, or of the tools of tools/i18n on one catalogue.  They share   *)
(* no state; the variables of the others stand still.                      *)
(***************************************************************************)
EXTENDS QrzNames

CONSTANTS Seeds, Sources, MaxMonths, FirstEntries, NewEntries, FileName, PageSize, MaxUdcRuns, MaxFailures, MaxKills,
          TableIds, FormIds, AppIds, VendorIds, English, NotLanguage, WidgetTexts, MaxEdits, MaxCatRuns, MaxSteps

\* The site lists its entries in order, in pages.
ASSUME SiteAssumption == FirstEntries \in Seq(ToSet(FirstEntries)) /\ PageSize \in Nat \ {0}

VARIABLES tool,
          seed, sources, out, curated, pass, months,
          site, files, manifest, pc, page, pages, total, entries, number, taken, prior, warned, udcRuns, failures,
          kills, fetched,
          kind, eng, table, cat, seeding, edits, catRuns

T == INSTANCE TrMaster
U == INSTANCE UdcFetch WITH MaxRuns <- MaxUdcRuns, runs <- udcRuns
G == INSTANCE Catalogue WITH Texts <- English, MaxRuns <- MaxCatRuns, runs <- catRuns

\* The names of the texts are finitely many, those of the language table and of
\* uAppStrings are different, and no text says that there is none.
ASSUME IdsAssumption ==
    /\ IsFiniteSet(TableIds \cup FormIds \cup AppIds \cup VendorIds)
    /\ TableIds \cap AppIds = {}
    /\ G!Gone \notin English

trVars  == <<seed, sources, out, curated, pass, months>>
udcVars == <<site, files, manifest, pc, page, pages, total, entries, number, taken, prior, warned, udcRuns, failures,
             kills, fetched>>
catVars == <<kind, eng, table, cat, seeding, edits, catRuns>>
allVars == <<tool, vars, trVars, udcVars, catVars>>

------------------------------------------------------------------------------
\* QRZ
MCCandidates == <<"K1AA", "K2BB">>

Page(nick, fname, name, country, state, county, grid, latlon, onAir, gridShown, section) ==
    [fields |-> [nickname |-> nick, fname |-> fname, name |-> name, country |-> country, state |-> state,
                 county |-> county, grid |-> grid, latlon |-> latlon],
     onAir |-> onAir, place |-> [grid |-> gridShown, section |-> section]]

\* A person in a split state; a club; a person known by the name field alone,
\* abroad, in a place spelt like a state; a call without a page.
MCPages ==
    [tom     |-> Page(<<"TOM">>, <<"THOMAS", "J">>, <<"SMITH">>, "united states", "FL", <<"saint", "johns", "county">>,
                      <<4, 11, 8, 8, 3, 7>>, <<>>, "TOM", <<4, 11, 8, 8, 3>>, "NFL"),
     club    |-> Page(<<>>, <<>>, <<"NC", "CONTESTERS">>, "united states", "FL", <<"unlisted">>,
                      <<4, 18, 8, 8>>, <<28, -83>>, "", <<4, 11, 8, 8>>, ""),
     shahrul |-> Page(<<>>, <<>>, <<"SHAHRUL">>, "malaysia", "FL", <<>>, <<>>, <<95, 0>>, "SHAHRUL", <<>>, ""),
     unknown |-> Page(<<>>, <<>>, <<>>, "", "", <<>>, <<>>, <<>>, "", <<>>, "")]

MCTable == [whole |-> [OH |-> "OH"],
            split |-> [FL |-> {<<<<"st", "johns">>, "NFL">>, <<<<"hillsborough">>, "WCF">>}]]

MCFirstPages == {("K1AA" :> p[1]) @@ ("K2BB" :> p[2]) : p \in
    {<<"tom", "shahrul">>, <<"club", "tom">>, <<"unknown", "club">>, <<"shahrul", "unknown">>}}

------------------------------------------------------------------------------
\* TRMASTER: a portable call, one whose bucket JA is not kept, one that may be
\* pruned; a binary field whose value is a control byte; a name that is no Latin-1.
K1A   == <<75, 49, 65>>
JA1B  == <<74, 65, 49, 66>>
G4X   == <<71, 52, 88>>
PJK1A == <<80, 74, 47, 75, 49, 65>>
TOM   == <<84, 79, 77>>
LIAM  == <<321, 73, 65, 77>>
ANA   == <<65, 78, 65>>
FN42  == <<70, 78, 52, 50>>

MCSeeds ==
    {<<>>,
     (K1A :> [Section |-> <<69, 77, 65>>, Hits |-> <<14>>, FOC |-> <<49>>, Name |-> TOM, Speed |-> <<65>>])
        @@ (G4X :> [User2 |-> <<57>>, Name |-> LIAM]),
     (JA1B :> [Grid |-> FN42, ITUZone |-> <<52, 53>>, Hits |-> <<7>>, User1 |-> <<56>>]) @@ (PJK1A :> <<>>)}

Row(call, num, name) == [call |-> call, number |-> num, name |-> name]
Place(call, grid, section) == [call |-> call, grid |-> grid, section |-> section]
History(version, call, name) == [version |-> version, rows |-> <<Row(call, <<>>, name)>>]

\* A month of pruning and places, of MASTER.DTA or of SCP.DB's active calls, and
\* months of rosters and history.
Known(call, rate, verified) == [call |-> call, rate |-> rate, verified |-> verified]
MCSources ==
    LET quiet == [master |-> T!write_dta([c \in {K1A, G4X, JA1B} |-> <<>>]), db |-> <<>>, floor |-> -1,
                  cwops |-> <<>>, foc |-> <<>>, hsc |-> <<>>, history |-> <<>>, names |-> <<>>, geo |-> <<>>]
    IN {[quiet EXCEPT !.db = <<Known(G4X, 2, v), Known(JA1B, 0, 15), Known(<<65, 66>>, 9, 16)>>, !.floor = floor,
                      !.geo = <<Place(K1A, FN42, <<87, 67, 70>>), Place(JA1B, FN42 \o <<97, 98>>, <<>>),
                                Place(G4X, <<70>>, <<87, 45>>)>>,
                      !.names = <<Row(K1A, <<>>, LIAM), Row(G4X, <<>>, TOM), Row(G4X, <<>>, <<>>)>>] : v \in {15, 16}, floor \in {-1, 1}}
       \cup {[quiet EXCEPT !.cwops = <<Row(K1A, <<51>>, ANA), Row(G4X, <<120>>, TOM), Row(<<65, 66>>, <<49>>, TOM)>>,
                           !.history = <<{History(1, K1A, TOM), History(2, PJK1A, LIAM)}, {History(7, PJK1A, TOM)}>>,
                           !.names = <<Row(PJK1A, <<>>, ANA), Row(JA1B, <<>>, ANA)>>,
                           !.hsc = <<Row(JA1B, <<55>>, <<>>), Row(K1A, <<>>, TOM)>>,
                           !.foc = f] : f \in {<<Row(K1A, <<50>>, <<>>)>>, <<Row(G4X, <<>>, LIAM)>>}}

------------------------------------------------------------------------------
\* UDC: two contests of one author share a file name; so does one published later.
MCEntries == <<"new", "mid", "old">>
MCNewEntries == {"later"}
MCFileName == [s \in {"new", "mid", "old", "later"} |-> IF s = "mid" THEN "y" ELSE "x"]

------------------------------------------------------------------------------
Away == "away"
QrzAway ==
    /\ day = Away /\ qrz = Away /\ lastHeld = Away /\ changes = Away /\ disk = Away /\ cache = Away
    /\ phase = Away /\ todo = Away /\ opts = Away /\ now = Away /\ key = Away /\ retried = Away
    /\ lookups = Away /\ rows = Away /\ geoRows = Away /\ csv = Away /\ geoCsv = Away /\ stopped = Away
    /\ faults = Away /\ runs = Away
TrMasterAway ==
    /\ seed = Away /\ sources = Away /\ out = Away /\ curated = Away /\ pass = Away /\ months = Away
UdcAway ==
    /\ site = Away /\ files = Away /\ manifest = Away /\ pc = Away /\ page = Away /\ pages = Away
    /\ total = Away /\ entries = Away /\ number = Away /\ taken = Away /\ prior = Away /\ warned = Away
    /\ udcRuns = Away /\ failures = Away /\ kills = Away /\ fetched = Away
CatalogueAway ==
    /\ kind = Away /\ eng = Away /\ table = Away /\ cat = Away /\ seeding = Away /\ edits = Away /\ catRuns = Away

MCInit == \/ tool = "qrz" /\ Init /\ TrMasterAway /\ UdcAway /\ CatalogueAway
          \/ tool = "trmaster" /\ T!Init /\ QrzAway /\ UdcAway /\ CatalogueAway
          \/ tool = "udc" /\ U!Init /\ QrzAway /\ TrMasterAway /\ CatalogueAway
          \/ tool = "catalogue" /\ G!Init /\ QrzAway /\ TrMasterAway /\ UdcAway

MCNext == \/ tool = "qrz" /\ Next /\ UNCHANGED <<tool, trVars, udcVars, catVars>>
          \/ tool = "trmaster" /\ T!Next /\ UNCHANGED <<tool, vars, udcVars, catVars>>
          \/ tool = "udc" /\ U!Next /\ UNCHANGED <<tool, vars, trVars, catVars>>
          \/ tool = "catalogue" /\ G!Next /\ UNCHANGED <<tool, vars, trVars, udcVars>>

MCSpec == MCInit /\ [][MCNext]_allVars

\* A behaviour of QrzNames lists recent names and places only.
RecentNamesOnly == tool = "qrz" => ListedIsRecent

\* A full pass of QrzNames leaves no call out.
NoNameSkipped == tool = "qrz" => FullPassListsAll

\* A behaviour of TrMaster keeps what the seed held.
CuratedSurvives == tool = "trmaster" => T!CuratedSurvives

\* merge's own words of whose name a call has.
NamesByPrecedence == tool = "trmaster" => T!NamesByPrecedence

\* Each file TrMaster builds reads back as what was merged.
FileReadsBack == [][T!ReadsBack]_allVars

\* The hashes in UdcFetch's manifest are those of its files, and no file is
\* downloaded twice.
MirrorIsTrue == tool = "udc" => U!MirrorIsTrue

\* A file UdcFetch's manifest gives as cached is whole: a cut write refutes it.
CachedIsWhole == tool = "udc" => U!CachedIsWhole

\* The flags of a catalogue tell the truth about its texts.
FlagsAreHonest == tool = "catalogue" => G!FlagsAreHonest

\* The tools that add to a catalogue, join or mend its entries take no reviewed
\* text away; po_prune, pas2po and ini2po are not among them (see Catalogue).
ReviewedWorkSurvives == [][tool = "catalogue" => G!ToolsKeepReviews]_allVars
==============================================================================
