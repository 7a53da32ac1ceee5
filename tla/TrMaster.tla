------------------------------ MODULE TrMaster ------------------------------
(***************************************************************************)
(* src/tr4w/tools/trmaster: the monthly build of TRMASTER.DTA from a seed  *)
(* file, the rosters, the history files and what QRZ knows (merge and main *)
(* of trmaster_build.py), and the file's format (trmaster_codec.py).  A    *)
(* character is its code.  A file is its non-empty buckets; the table of   *)
(* offsets only says where each begins.                                    *)
(***************************************************************************)
EXTENDS Integers, Sequences, SequencesExt, FiniteSets, FiniteSetsExt, TLC

CONSTANTS Seeds,       \* what the curated seed may hold: calls with their fields
          Sources,     \* what may be had in a month
          MaxMonths

VARIABLES seed,        \* the seed file
          sources,     \* this month's
          out,         \* the file built last
          curated,     \* what the seed held at first
          pass,        \* builds of this month
          months

vars == <<seed, sources, out, curated, pass, months>>

Codes(from, to) == from..to
Letters == Codes(65, 90)
Figures == Codes(48, 57)
Slash   == 47
NUL     == 0
NoFile  == <<>>

------------------------------------------------------------------------------
\* trmaster_codec.py: the fields in the order they are written, each with its
\* control byte.

WRITE_ORDER == <<"Section", "CQZone", "FOC", "Hits", "Grid", "ITUZone", "Check", "Name", "OldCall", "QTH", "Speed",
                 "TenTen", "User1", "User2", "User3", "User4", "User5">>
TAGS == <<1, 3, 6, 8, 7, 9, 11, 14, 15, 17, 19, 20, 21, 22, 23, 24, 25>>
Binary == {"Hits", "Speed"}
FieldOf(tag) == IF Contains(TAGS, tag) THEN WRITE_ORDER[CHOOSE i \in DOMAIN TAGS : TAGS[i] = tag] ELSE "none"

scp_index(o) == CASE o \in Letters -> o - 65
                  [] o \in Figures -> o - 48 + 26
                  [] o = Slash     -> 36
                  [] OTHER         -> -1

\* The buckets of a call: of each two characters in it but JA.
JA == <<74, 65>>
\* Mutant: of the first two characters only.
FirstPair(call) == {<<scp_index(call[1]), scp_index(call[2])>>}
bucket_pairs(call) ==
    {<<scp_index(call[i]), scp_index(call[i + 1])>> :
        i \in {k \in 1..(Len(call) - 1) : /\ <<call[k], call[k + 1]>> # JA
                                          /\ -1 \notin {scp_index(call[k]), scp_index(call[k + 1])}}}

Given(fields, name) == name \in DOMAIN fields /\ fields[name] \notin {<<>>, <<0>>}
Latin1(text) == [i \in DOMAIN text |-> IF text[i] > 255 THEN 63 ELSE text[i]]
encode_record(call, fields) ==
    call \o FlattenSeq([i \in DOMAIN WRITE_ORDER |->
                           LET name == WRITE_ORDER[i] IN
                           IF ~Given(fields, name) THEN <<>>
                           ELSE <<TAGS[i]>> \o IF name \in Binary THEN <<fields[name][1] % 256>>
                                               ELSE Latin1(fields[name])])
         \o <<NUL>>

\* The bytes from i on that are all at least low.
Run(buf, i, low) ==
    LET ends == {k \in i..Len(buf) : buf[k] < low}
    IN SubSeq(buf, i, IF ends = {} THEN Len(buf) ELSE Min(ends) - 1)

\* The fields from i on and where the next record begins.  A byte that is no
\* tag is passed over; of a tag given twice the later value counts.
DecodeFields(buf, start) ==
    LET From[i \in Nat] ==
            IF i > Len(buf) \/ buf[i] = NUL THEN [fields |-> <<>>, next |-> i + 1]
            ELSE LET name == FieldOf(buf[i])
                     value == IF name \in Binary THEN SubSeq(buf, i + 1, i + 1) ELSE Run(buf, i + 1, 32)
                     rest == From[i + 1 + Len(value)]
                 IN IF name = "none" THEN From[i + 1] ELSE [rest EXCEPT !.fields = @ @@ (name :> value)]
    IN From[start]

\* The records of a bucket, in order.
Records(buf) ==
    LET From[i \in Nat] ==
            IF i > Len(buf) THEN <<>>
            ELSE LET call == Run(buf, i, 27)
                     record == DecodeFields(buf, i + Len(call))
                 IN <<[call |-> call, fields |-> record.fields]>> \o From[record.next]
    IN From[1]

\* read_dta: the records of all buckets; what a later one gives replaces.
BucketInto(calls, buf) ==
    LET Put(known, record) ==
            LET given == [f \in {g \in DOMAIN record.fields : Given(record.fields, g)} |-> record.fields[f]]
            IN IF record.call = <<>> THEN known
               ELSE (record.call :> (given @@ (IF record.call \in DOMAIN known THEN known[record.call] ELSE <<>>))) @@ known
    IN FoldLeft(Put, calls, Records(buf))

Before(a, b) == \E i \in 1..Len(b) : /\ \A k \in 1..(i - 1) : k \in DOMAIN a /\ a[k] = b[k]
                                      /\ (i \notin DOMAIN a \/ a[i] < b[i])
InOrder(all) ==
    LET Sorted[set \in SUBSET all] ==
            IF set = {} THEN <<>>
            ELSE LET least == CHOOSE a \in set : \A b \in set \ {a} : Before(a, b)
                 IN <<least>> \o Sorted[set \ {least}]
    IN Sorted[all]
read_dta(file) == FoldLeft(LAMBDA calls, k : BucketInto(calls, file[k]), <<>>, InOrder(DOMAIN file))

write_dta(calls) ==
    [k \in UNION {bucket_pairs(c) : c \in DOMAIN calls} |->
        LET here == InOrder({c \in DOMAIN calls : k \in bucket_pairs(c)})
        IN FlattenSeq([i \in DOMAIN here |-> encode_record(here[i], calls[here[i]])])]

------------------------------------------------------------------------------
\* trmaster_build.py: the loaders.  A table is the sequence of its rows.

valid_call(c) == Len(c) >= 3 /\ ToSet(c) \subseteq Letters \cup Figures \cup {Slash}
IsNumber(text) == text # <<>> /\ ToSet(text) \subseteq Figures

Filled(record) == [f \in {g \in DOMAIN record : record[g] # <<>>} |-> record[f]]
\* The last row of a call counts.
ByCall(rows, Valid(_), Fields(_)) ==
    FoldLeft(LAMBDA table, row : IF Valid(row) THEN (row.call :> Fields(row)) @@ table ELSE table, <<>>, rows)

parse_cwops_csv(rows) ==
    LET Valid(row) == valid_call(row.call) /\ IsNumber(row.number)
        Fields(row) == Filled([User1 |-> row.number, Name |-> row.name])
    IN ByCall(rows, Valid, Fields)

parse_simple_csv(rows, field) ==
    LET Valid(row) == valid_call(row.call) /\ (row.number # <<>> \/ row.name # <<>>)
        Fields(row) == Filled((field :> row.number) @@ [Name |-> row.name])
    IN ByCall(rows, Valid, Fields)

load_names_csv(rows) ==
    LET Valid(row) == valid_call(row.call) /\ row.name # <<>>
        Fields(row) == row.name
    IN ByCall(rows, Valid, Fields)

IsSquare(g) == /\ Len(g) \in {4, 6}
               /\ {g[1], g[2]} \subseteq Codes(65, 82) /\ {g[3], g[4]} \subseteq Figures
               /\ Len(g) = 6 => {g[5], g[6]} \subseteq Codes(97, 120)
IsSection(s) == Len(s) \in 1..5 /\ ToSet(s) \subseteq Letters \cup Figures
GeoFields(row) == Filled([Grid |-> IF IsSquare(row.grid) THEN row.grid ELSE <<>>,
                          Section |-> IF IsSection(row.section) THEN row.section ELSE <<>>])
load_geo_csv(rows) ==
    LET Valid(row) == valid_call(row.call) /\ GeoFields(row) # <<>> IN ByCall(rows, Valid, GeoFields)

\* SCP.DB: a call with its activity and, bit by bit, who verified it.  Text that
\* is no call is of no account, in either reading.
QrzBit == 16
load_calls_from_scpdb(rows, floor) ==
    {r.call : r \in {x \in ToSet(rows) : valid_call(x.call) /\ x.rate >= floor}}
load_scpdb_verified(rows) ==
    [all |-> {r.call : r \in ToSet(rows)},
     verified |-> {r.call : r \in {x \in ToSet(rows) : (x.verified \div QrzBit) % 2 = 1}}]

\* Of each pattern the newest file; the first file that names a call counts.
Newest(files) == IF files = {} THEN <<>> ELSE (CHOOSE f \in files : \A g \in files : g.version <= f.version).rows
load_history_names(patterns) ==
    FoldLeft(LAMBDA names, files : names @@ load_names_csv(Reverse(Newest(files))), <<>>, patterns)

------------------------------------------------------------------------------
\* merge and main

is_qrz_reliable_region(c) ==
    \/ c[1] \in {75, 78, 87, 71, 77}                                  \* K N W G M
    \/ Len(c) > 1 /\ \/ c[1] = 65 /\ c[2] \in Codes(65, 76)           \* AA..AL
                     \/ c[1] = 50 /\ c[2] \in {69, 73, 77, 85, 87}    \* 2E 2I 2M 2U 2W
                     \/ c[1] = 86 /\ c[2] \in {65, 69, 79, 89}        \* VA VE VO VY

Pruned(universe, db) ==
    {c \in universe : ~(is_qrz_reliable_region(c) /\ c \in db.all /\ c \notin db.verified)}

Having(calls, field) == {c \in DOMAIN calls : Given(calls[c], field)}
Of(table, call) == IF call \in DOMAIN table THEN table[call] ELSE <<>>
Part(fields, names) == [f \in DOMAIN fields \cap names |-> fields[f]]

\* Mutant: what QRZ says of the place replaces what was there.
PlaceReplaces(fields, geo) == Part(geo, {"Grid", "Section"}) @@ fields
PlaceFills(fields, geo) ==
    [f \in {g \in DOMAIN geo \cap {"Grid", "Section"} : ~Given(fields, g)} |-> geo[f]] @@ fields

\* Each line gives way to the ones above it; a name of QRZ's fills a gap only.
merge(universe, existing, history, cwops, foc, hsc, names, geo) ==
    LET calls == universe \cup UNION {DOMAIN t : t \in {existing, history, cwops, foc, hsc}}
        Listed(c) == Part(Of(hsc, c), {"User2"}) @@ Part(Of(foc, c), {"FOC", "Name"})
                     @@ Part(Of(cwops, c), {"User1", "Name"})
                     @@ (IF c \in DOMAIN history THEN [Name |-> history[c]] ELSE <<>>)
                     @@ Of(existing, c)
        Named(c) == IF Given(Listed(c), "Name") \/ c \notin DOMAIN names THEN Listed(c)
                    ELSE [Name |-> names[c]] @@ Listed(c)
    IN [c \in calls |-> PlaceFills(Named(c), Of(geo, c))]

\* --scp-db, or the calls of MASTER.DTA.
Universe ==
    IF sources.floor >= 0 THEN load_calls_from_scpdb(sources.db, sources.floor)
    ELSE DOMAIN read_dta(sources.master)

\* The two passes of a month: QRZ is asked in between.
Merged(n) ==
    LET existing == read_dta(seed)
        Kept(field, with) == [c \in Having(existing, field) |-> Part(existing[c], {field} \cup with)]
    IN merge(Pruned(Universe, load_scpdb_verified(sources.db)), existing,
             load_history_names(sources.history),
             parse_cwops_csv(sources.cwops),
             parse_simple_csv(sources.foc, "FOC") @@ Kept("FOC", {"Name"}),
             parse_simple_csv(sources.hsc, "User2") @@ Kept("User2", {}),
             IF n = 2 THEN load_names_csv(sources.names) ELSE <<>>,
             IF n = 2 THEN load_geo_csv(sources.geo) ELSE <<>>)

Build(n) == /\ pass = n - 1 /\ pass' = n
            /\ out' = write_dta(Merged(n))
            /\ UNCHANGED <<seed, sources, curated, months>>

\* A month later the sources are others; the file made last may be made the seed.
NextMonth == /\ pass > 0 /\ months < MaxMonths
             /\ sources' \in Sources
             /\ seed' \in {seed, out}
             /\ months' = months + 1 /\ pass' = 0
             /\ UNCHANGED <<out, curated>>

Init == /\ curated \in Seeds
        /\ seed = write_dta(curated)
        /\ sources \in Sources
        /\ out = NoFile /\ pass = 0 /\ months = 0

Done == months = MaxMonths /\ pass = 2 /\ UNCHANGED vars

Next == (\E n \in {1, 2} : Build(n)) \/ NextMonth \/ Done

Spec == Init /\ [][Next]_vars

------------------------------------------------------------------------------
\* The file made holds what was merged, each call with all of its fields, and
\* the program finds it by any two characters of it that stand together but JA.
AsBytes(calls) == [c \in DOMAIN calls |->
                     [f \in {g \in DOMAIN calls[c] : Given(calls[c], g)} |->
                        IF f \in Binary THEN calls[c][f] ELSE Latin1(calls[c][f])]]
Findable(call, file) ==
    \A i \in 1..(Len(call) - 1) : SubSeq(call, i, i + 1) # JA =>
        LET k == <<scp_index(call[i]), scp_index(call[i + 1])>>
        IN k \in DOMAIN file /\ call \in DOMAIN BucketInto(<<>>, file[k])
ReadsBack == pass' # pass /\ pass' # 0 =>
                 LET merged == Merged(pass') IN
                 /\ read_dta(out') = AsBytes(merged)
                 /\ \A c \in DOMAIN merged : Findable(c, out')
FileReadsBack == [][ReadsBack]_vars

\* "a value already in the seed is curated and is never overwritten", "never
\* pruned": no call the seed ever held is lost, nor its place or memberships,
\* over any months in which the result was made the seed or was not.
CuratedSurvives ==
    out # NoFile =>
        LET calls == read_dta(out) IN
        \A c \in DOMAIN curated :
           /\ c \in DOMAIN calls
           /\ \A f \in {"Grid", "Section", "Hits"} : Given(curated[c], f) => Given(calls[c], f) /\ calls[c][f] = curated[c][f]
           /\ \A f \in {"FOC", "User1", "User2", "Name"} : Given(curated[c], f) => Given(calls[c], f)

\* "Name precedence (high -> low): CWops > FOC > history > seed > QRZ" (merge's
\* own words): a call has the name this month's CWops roster gives it.
NamesByPrecedence ==
    out # NoFile /\ pass # 0 =>
        LET roster == parse_cwops_csv(sources.cwops) IN
        \A c \in Having(roster, "Name") : read_dta(out)[c].Name = roster[c].Name
==============================================================================
