------------------------------ MODULE QrzNames ------------------------------
(***************************************************************************)
(* src/tr4w/tools/trmaster/trmaster_names_qrz.py: the on-air names and the *)
(* places of a list of calls, from QRZ through a cache that is built up    *)
(* over many runs.  QRZ's pages change; a session expires, an answer may   *)
(* be no XML at all, the network may fail, and a run may be interrupted or *)
(* killed between any two steps.                                           *)
(***************************************************************************)
EXTENDS QrzEntry, FiniteSets, TLC

CONSTANTS
    Candidates,         \* the calls in order
    Pages,              \* the pages QRZ may hold
    FirstPages,         \* what it may hold at first for each call
    OldEntries,         \* pages a version that kept no place has cached
    Table,              \* sections
    HitDays, MissDays, GeoDays, SaveEvery,
    Limits,             \* --limit; 0 is no cap
    MaxDay, MaxChanges, MaxFaults, MaxRuns

Calls == ToSet(Candidates)
Unknown == "unknown"

ASSUME QrzAssumption ==
    /\ {HitDays, MissDays, GeoDays, MaxDay, MaxChanges, MaxFaults, MaxRuns} \subseteq Nat
    /\ SaveEvery \in Nat \ {0} /\ Limits \subseteq Nat
    /\ Loads(Table.split)
    /\ Candidates \in Seq(Calls) /\ IsInjective(Candidates)    \* a set of calls, sorted
    /\ FirstPages \subseteq [Calls -> DOMAIN Pages]

VARIABLES
    day, qrz,           \* today, and the page QRZ holds for each call
    lastHeld,           \* the last day QRZ held each page for each call
    disk, cache,        \* the cache file; the same in memory
    phase, todo, opts, now, key, retried, lookups,
    rows, geoRows,      \* collected in this run
    csv, geoCsv,        \* the two output files
    stopped,            \* a lookup failed
    changes, faults, runs

world  == <<day, qrz, lastHeld, changes>>
outputs == <<csv, geoCsv>>
run    == <<phase, todo, opts, now, key, retried, lookups, rows, geoRows, stopped>>
vars   == <<world, disk, cache, run, outputs, faults, runs>>

\* An entry: the page it came from, the day, whether it carries the place.
Entry(page, geo) == [page |-> page, ts |-> now, geo |-> geo]
NameOf(e) == IF e.page = Unknown THEN "" ELSE NameFrom(Pages[e.page].fields)
IsOrg(e)  == e.page # Unknown /\ EntryIsOrg(Pages[e.page].fields)
GeoOf(e)  == IF e.page = Unknown THEN NoGeo ELSE GeoFromEntry(Pages[e.page].fields, Table)

Within(e, days) == days = 0 \/ now - e.ts <= days
Ttl(e) == IF NameOf(e) # "" THEN HitDays ELSE IF IsOrg(e) THEN 0 ELSE MissDays
\* Mutant: an entry once cached is never stale.
FreshForever(e) == TRUE
Fresh(e) == Within(e, Ttl(e))
GeoFresh(e) == e.geo /\ Within(e, GeoDays)

Call == Head(todo)
NeedsLookup(c) ==
    c \in DOMAIN cache => ~Fresh(cache[c]) \/ (opts.geo /\ ~GeoFresh(cache[c]))

------------------------------------------------------------------------------
\* The world.  It moves between runs: a page that changes, or a day that
\* begins, before a run asks about a call does so before the run.

HeldToday(d, pages) == [c \in Calls |-> [lastHeld[c] EXCEPT ![pages[c]] = d]]

PageChanges == \E c \in Calls, p \in DOMAIN Pages :
    /\ phase = "idle" /\ changes < MaxChanges
    /\ changes' = changes + 1
    /\ qrz[c] # p
    /\ qrz' = [qrz EXCEPT ![c] = p]
    /\ lastHeld' = HeldToday(day, qrz')
    /\ UNCHANGED <<day, disk, cache, run, outputs, faults, runs>>

NextDay ==
    /\ phase = "idle" /\ day < MaxDay
    /\ day' = day + 1
    /\ lastHeld' = HeldToday(day', qrz)
    /\ UNCHANGED <<qrz, changes, disk, cache, run, outputs, faults, runs>>

------------------------------------------------------------------------------
\* A run

Goto(p) == phase' = p
Fault == faults < MaxFaults /\ faults' = faults + 1

\* The memory of the process is gone.
Idle == /\ Goto("idle")
        /\ todo' = <<>> /\ opts' = <<>> /\ now' = 0 /\ key' = FALSE /\ retried' = FALSE /\ lookups' = 0
        /\ rows' = <<>> /\ geoRows' = <<>> /\ cache' = <<>> /\ stopped' = FALSE

Start ==
    /\ phase = "idle" /\ runs < MaxRuns
    /\ runs' = runs + 1
    /\ \E limit \in Limits, cacheOnly \in BOOLEAN, geo \in BOOLEAN :
         /\ cacheOnly => limit = 0          \* a cap changes nothing then
         /\ opts' = [limit |-> limit, cacheOnly |-> cacheOnly, geo |-> geo]
    /\ cache' = disk
    /\ todo' = Candidates /\ now' = day
    /\ Goto("looking")
    /\ UNCHANGED <<world, disk, key, retried, lookups, rows, geoRows, stopped, outputs, faults>>

\* The credentials are gone: the outputs are emptied.
NoCredentials ==
    /\ phase = "idle" /\ runs < MaxRuns
    /\ runs' = runs + 1
    /\ Fault
    /\ csv' = [csv EXCEPT !.rows = <<>>, !.full = FALSE]
    /\ geoCsv' \in {geoCsv, [geoCsv EXCEPT !.rows = <<>>]}
    /\ UNCHANGED <<world, disk, cache, run>>

Held == cache[Call]
With(f, c, v) == [x \in DOMAIN f \cup {c} |-> IF x = c THEN v ELSE f[x]]
Listing(c, e) ==
    /\ rows' = IF NameOf(e) # "" THEN With(rows, c, NameOf(e)) ELSE rows
    /\ geoRows' = IF opts.geo /\ e.geo /\ GeoOf(e) # NoGeo THEN With(geoRows, c, GeoOf(e)) ELSE geoRows

\* Mutant: a limit of 0 is a limit.
CappedAtZero == opts.cacheOnly \/ lookups >= opts.limit
Capped == opts.cacheOnly \/ (opts.limit > 0 /\ lookups >= opts.limit)
Looking == phase = "looking" /\ todo # <<>>

FromCache ==
    /\ Looking /\ ~NeedsLookup(Call)
    /\ Listing(Call, Held)
    /\ todo' = Tail(todo)
    /\ UNCHANGED <<world, disk, cache, phase, opts, now, key, retried, lookups, stopped, outputs, faults, runs>>

\* Not asked about in this run, and not listed either.
PassOver ==
    /\ Looking /\ NeedsLookup(Call) /\ Capped
    /\ todo' = Tail(todo)
    /\ UNCHANGED <<world, disk, cache, phase, opts, now, key, retried, lookups, rows, geoRows, stopped,
                   outputs, faults, runs>>

Ask ==
    /\ Looking /\ NeedsLookup(Call) /\ ~Capped
    /\ lookups' = lookups + 1 /\ retried' = FALSE
    /\ Goto("asking")
    /\ UNCHANGED <<world, disk, cache, todo, opts, now, key, rows, geoRows, stopped, outputs, faults, runs>>

Requesting == phase = "asking"

Session ==
    /\ Requesting /\ ~key
    /\ key' = TRUE
    /\ UNCHANGED <<world, disk, cache, phase, todo, opts, now, retried, lookups, rows, geoRows, stopped, outputs, faults, runs>>

\* The entry of an answer, then a save after every SaveEvery lookups.
Answered(page) ==
    /\ cache' = With(cache, Call, Entry(page, TRUE))
    /\ Listing(Call, cache'[Call])
    /\ todo' = Tail(todo)
    /\ UNCHANGED <<world, disk, opts, now, key, retried, lookups, stopped, outputs, runs>>
SaveDue == lookups % SaveEvery = 0
Answer == 
    /\ Requesting /\ key
    /\ Answered(qrz[Call])
    /\ Goto(IF SaveDue THEN "saving" ELSE "looking")
    /\ UNCHANGED faults

\* A page that is not XML is a miss, whatever was known of the call.
Malformed ==
    /\ Requesting /\ key /\ Fault
    /\ Answered(Unknown)
    /\ Goto(IF SaveDue THEN "saving" ELSE "looking")

\* Asked again under a new session, once.
SessionExpired ==
    /\ Requesting /\ key /\ ~retried /\ Fault
    /\ key' = FALSE /\ retried' = TRUE
    /\ UNCHANGED <<world, disk, cache, phase, todo, opts, now, lookups, rows, geoRows, stopped, outputs, runs>>

\* The network fails, or QRZ reports an error that a new session did not cure:
\* the pass stops.
LookupFails ==
    /\ Requesting /\ Fault
    /\ stopped' = TRUE
    /\ todo' = <<>> /\ Goto("looking")
    /\ UNCHANGED <<world, disk, cache, opts, now, key, retried, lookups, rows, geoRows, outputs, runs>>

\* A temporary file replaces the old one.
Save ==
    /\ phase = "saving"
    /\ disk' = cache
    /\ Goto("looking")
    /\ UNCHANGED <<world, cache, todo, opts, now, key, retried, lookups, rows, geoRows, stopped, outputs, faults, runs>>

Close ==
    /\ phase = "looking" /\ todo = <<>>
    /\ disk' = cache
    /\ Goto("names")
    /\ UNCHANGED <<world, cache, todo, opts, now, key, retried, lookups, rows, geoRows, stopped, outputs, faults, runs>>

\* An output file is emptied, then filled.
Torn == [rows |-> <<>>, day |-> 0, full |-> FALSE]
Full == ~stopped /\ ~opts.cacheOnly /\ opts.limit = 0

OpenNames ==
    /\ phase = "names"
    /\ csv' = Torn
    /\ Goto("fill names")
    /\ UNCHANGED <<world, disk, cache, todo, opts, now, key, retried, lookups, rows, geoRows, stopped, geoCsv, faults, runs>>

FillNames ==
    /\ phase = "fill names"
    /\ csv' = [rows |-> rows, day |-> now, full |-> Full]
    /\ IF opts.geo THEN Goto("places") /\ UNCHANGED <<cache, todo, opts, now, key, retried, lookups, rows, geoRows, stopped>>
       ELSE Idle
    /\ UNCHANGED <<world, disk, geoCsv, faults, runs>>

OpenPlaces ==
    /\ phase = "places"
    /\ geoCsv' = Torn
    /\ Goto("fill places")
    /\ UNCHANGED <<world, disk, cache, todo, opts, now, key, retried, lookups, rows, geoRows, stopped, csv, faults, runs>>

FillPlaces ==
    /\ phase = "fill places"
    /\ geoCsv' = [rows |-> geoRows, day |-> now, full |-> Full]
    /\ Idle
    /\ UNCHANGED <<world, disk, csv, faults, runs>>

\* Ctrl-C in the pass: the cache is saved and nothing is written.
Interrupt ==
    /\ phase \in {"looking", "asking", "saving"} /\ Fault
    /\ disk' = cache
    /\ Idle
    /\ UNCHANGED <<world, outputs, runs>>

Kill ==
    /\ phase # "idle" /\ Fault
    /\ Idle
    /\ UNCHANGED <<world, disk, outputs, runs>>

------------------------------------------------------------------------------
Init ==
    /\ day = 0 /\ changes = 0
    /\ qrz \in FirstPages
    /\ lastHeld = [c \in Calls |-> [p \in DOMAIN Pages |-> IF p = qrz[c] THEN 0 ELSE -1]]
    /\ \E old \in SUBSET {c \in Calls : qrz[c] \in OldEntries} :
         disk = [c \in old |-> [page |-> qrz[c], ts |-> 0, geo |-> FALSE]]
    /\ cache = <<>>
    /\ phase = "idle" /\ todo = <<>> /\ opts = <<>> /\ now = 0
    /\ key = FALSE /\ retried = FALSE /\ lookups = 0
    /\ rows = <<>> /\ geoRows = <<>> /\ stopped = FALSE
    /\ csv = Torn /\ geoCsv = Torn
    /\ faults = 0 /\ runs = 0

Done == phase = "idle" /\ runs = MaxRuns /\ UNCHANGED vars

Next ==
    \/ PageChanges \/ NextDay
    \/ Start \/ NoCredentials \/ FromCache \/ PassOver \/ Ask \/ Session \/ Answer \/ Malformed \/ SessionExpired
    \/ LookupFails \/ Save \/ Close \/ OpenNames \/ FillNames \/ OpenPlaces \/ FillPlaces
    \/ Interrupt \/ Kill \/ Done

Spec == Init /\ [][Next]_vars

------------------------------------------------------------------------------
\* A listed name is one QRZ showed for that call no longer than its time to
\* live before the run (at any time, if names never age), across runs, kills and
\* caches of the older version; a listed place likewise, and it is the place a
\* reader of the page would give.
WasShown(c, days, d, Shows(_)) ==
    \E p \in DOMAIN Pages \ {Unknown} : /\ Shows(Pages[p])
                                        /\ lastHeld[c][p] >= 0
                                        /\ days = 0 \/ lastHeld[c][p] >= d - days
ListedIsRecent ==
    /\ \A c \in DOMAIN csv.rows :
         LET Shows(page) == page.onAir = csv.rows[c] IN WasShown(c, HitDays, csv.day, Shows)
    /\ \A c \in DOMAIN geoCsv.rows :
         LET Shows(page) == page.place = geoCsv.rows[c] IN WasShown(c, GeoDays, geoCsv.day, Shows)

\* A list made by a pass that nothing cut short names every call of which the
\* saved cache knows a name: no call is skipped by the loop, whatever earlier
\* runs left in the cache.
FullPassListsAll ==
    phase \in {"fill names", "places"} /\ Full
      => /\ DOMAIN disk = Calls
         /\ DOMAIN rows = {c \in Calls : NameOf(disk[c]) # ""}
==============================================================================
