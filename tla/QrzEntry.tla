------------------------------ MODULE QrzEntry ------------------------------
(***************************************************************************)
(* What src/tr4w/tools/trmaster takes from a QRZ answer: the name sent on  *)
(* the air (trmaster_names_qrz.py), the grid (qrz_geo.py) and the section  *)
(* (county_section.py).  A text is the sequence of its words; a letter of  *)
(* a grid is its number.                                                   *)
(***************************************************************************)
EXTENDS Integers, Sequences, SequencesExt

CLUB_WORDS == {"CLUB", "CONTESTERS", "ARC"}

\* nickname, else fname, else a short `name` with no club word.
Person(name) == Len(name) \in 1..2 /\ ToSet(name) \cap CLUB_WORDS = {}
NameFrom(f) == IF f.nickname # <<>> THEN f.nickname[1]
               ELSE IF f.fname # <<>> THEN f.fname[1]
               ELSE IF Person(f.name) THEN f.name[1] ELSE ""

\* A club is never asked about again.
EntryIsOrg(f) == f.nickname = <<>> /\ f.fname = <<>> /\ ToSet(f.name) \cap CLUB_WORDS # {}

------------------------------------------------------------------------------
\* A grid <<lon, lat, lon, lat>>, then the subsquare, then the extended square,
\* which is cut off.
IsGrid(g) == /\ Len(g) \in 4..6
             /\ {g[1], g[2]} \subseteq 0..17 /\ {g[3], g[4]} \subseteq 0..9
             /\ Len(g) >= 5 => g[5] \in 0..23
NormalizeGrid(g) == IF IsGrid(g) THEN SubSeq(g, 1, IF Len(g) < 5 THEN Len(g) ELSE 5) ELSE <<>>

GridFromLatLon(at) ==
    IF Len(at) = 2 /\ at[1] \in -90..89 /\ at[2] \in -180..179
    THEN LET la == at[1] + 90  lo == at[2] + 180
         IN <<lo \div 20, la \div 10, (lo % 20) \div 2, la % 10>>
    ELSE <<>>

------------------------------------------------------------------------------
TRAILING_WORDS == {<<"city", "and", "borough">>, <<"census", "area">>, <<"county">>, <<"parish">>, <<"borough">>,
                     <<"municipality">>}

Longest(ws) == CHOOSE w \in ws : \A v \in ws : Len(v) <= Len(w)
WithoutTrailing(words) ==
    LET ends == {w \in TRAILING_WORDS : Len(w) < Len(words) /\ IsSuffix(w, words)}
    IN IF ends = {} THEN words ELSE SubSeq(words, 1, Len(words) - Len(Longest(ends)))
CountyKey(words) ==
    LET short == WithoutTrailing(words)
    IN [i \in DOMAIN short |-> IF short[i] \in {"saint", "sainte", "ste"} THEN "st" ELSE short[i]]

\* A table is [whole, split]: the section of a state, and of a state's
\* counties.  Two counties of one key and two sections do not load.
Loads(split) == \A s \in DOMAIN split : \A c, d \in split[s] :
                   CountyKey(c[1]) = CountyKey(d[1]) => c[2] = d[2]

SectionFor(table, state, county) ==
    IF state \in DOMAIN table.whole THEN table.whole[state]
    ELSE IF state \notin DOMAIN table.split THEN ""
    ELSE LET hits == {c \in table.split[state] : CountyKey(c[1]) = CountyKey(county)}
         IN IF hits = {} THEN "" ELSE (CHOOSE c \in hits : TRUE)[2]

SECTION_COUNTRIES == {"united states", "canada", "hawaii"}

GeoFromEntry(f, table) ==
    [grid |-> IF NormalizeGrid(f.grid) # <<>> THEN NormalizeGrid(f.grid) ELSE GridFromLatLon(f.latlon),
     section |-> IF f.country \in SECTION_COUNTRIES THEN SectionFor(table, f.state, f.county) ELSE ""]
NoGeo == [grid |-> <<>>, section |-> ""]
==============================================================================
