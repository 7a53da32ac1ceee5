------------------------------ MODULE UdcFetch ------------------------------
(***************************************************************************)
(* src/tools/udc/fetch_udc.py: the download of the N1MM contest files into *)
(* a cache that later runs resume from.  The site is a list of entries,    *)
(* the newest first, and may gain an entry at any time.  A request may     *)
(* fail for good, a run may be killed between any two steps, and a file    *)
(* being written is empty, then cut short, then whole; the write may fail  *)
(* at any of these.                                                        *)
(***************************************************************************)
EXTENDS Naturals, Sequences, SequencesExt, FiniteSets

CONSTANTS FirstEntries,  \* the entries on the site at first: a sequence of slugs
          NewEntries,    \* slugs that may be published later
          FileName,        \* the file name of each entry
          PageSize, MaxRuns, MaxFailures, MaxKills

Slugs == ToSet(FirstEntries) \cup NewEntries

NoName == <<>>
BareName(s) == <<FileName[s]>>
LongName(s) == <<s, FileName[s]>>
Names == {BareName(s) : s \in Slugs} \cup {LongName(s) : s \in Slugs}

NoFile == [of |-> "", state |-> "none"]
Entry(s) == [slug |-> s, file |-> NoName, sha |-> "", status |-> ""]

VARIABLES site,
          files,      \* what is on the disk under each name
          manifest,   \* manifest.json
          pc,
          page, pages, total,          \* fetch_listing
          entries, number, taken, prior,
          warned,
          runs, failures, kills,
          fetched     \* how often each entry was downloaded whole

listVars == <<page, pages, total>>
runVars  == <<entries, number, taken, prior, warned>>
vars == <<site, files, manifest, pc, listVars, runVars, runs, failures, kills, fetched>>

Idle == /\ pc' = "idle" /\ page' = 0 /\ pages' = 0 /\ total' = 0
        /\ entries' = <<>> /\ number' = 0 /\ taken' = <<>> /\ prior' = <<>> /\ warned' = FALSE

------------------------------------------------------------------------------
\* The site

Publish == \E s \in NewEntries :
    /\ ~Contains(site, s)
    /\ site' = <<s>> \o site
    /\ UNCHANGED <<files, manifest, pc, listVars, runVars, runs, failures, kills, fetched>>

PageOf(p) == SubSeq(site, (p - 1) * PageSize + 1, IF p * PageSize < Len(site) THEN p * PageSize
                                                  ELSE Len(site))
PageCount == (Len(site) + PageSize - 1) \div PageSize

\* request() gave up (four attempts failed, or the answer was final), or the disk did.
Failing == failures < MaxFailures /\ failures' = failures + 1

------------------------------------------------------------------------------
\* main(): the listing.  The page of display names is had first and kept in a
\* file of its own, which no run reads; to fail there ends the run likewise.

Begin == /\ pc = "idle" /\ runs < MaxRuns
         /\ runs' = runs + 1 /\ pc' = "list" /\ page' = 1
         /\ UNCHANGED <<site, files, manifest, pages, total, runVars, failures, kills, fetched>>

SlugsOf(es) == {es[i].slug : i \in DOMAIN es}

\* What a page shows again, as the site has gained an entry, is passed over.
Join(es, found) ==
    LET Upto[i \in 0..Len(found)] ==
            IF i = 0 THEN es
            ELSE IF found[i] \in SlugsOf(Upto[i - 1]) THEN Upto[i - 1]
            ELSE Append(Upto[i - 1], Entry(found[i]))
    IN Upto[Len(found)]

\* The number of pages and of entries is what the first page says.
ReadPage ==
    /\ pc = "list" /\ (page = 1 \/ page <= pages)
    /\ entries' = Join(entries, PageOf(page))
    /\ IF page = 1 THEN pages' = PageCount /\ total' = Len(site) ELSE UNCHANGED <<pages, total>>
    /\ page' = page + 1
    /\ UNCHANGED <<site, files, manifest, pc, number, taken, prior, warned, runs, failures,
                   kills, fetched>>

\* A request of the listing that fails ends the run.
ListingFails == /\ pc = "list" /\ Failing /\ Idle
                /\ UNCHANGED <<site, files, manifest, runs, kills, fetched>>

NewestLast(es) == [s \in SlugsOf(es) |-> CHOOSE e \in ToSet(es) : e.slug = s]

Listed == /\ pc = "list" /\ page > 1 /\ page > pages
          /\ warned' = (total # Len(entries))
          /\ prior' = NewestLast(manifest)
          /\ taken' = <<>>
          /\ number' = 1 /\ pc' = "entry"
          /\ UNCHANGED <<site, files, manifest, listVars, entries, runs, failures, kills, fetched>>

------------------------------------------------------------------------------
\* main() and download_entry: one entry

Here == entries[number]
IsFile(name) == name # NoName /\ files[name].state # "none"
NotEmpty(name) == files[name].state \in {"cut", "whole"}
Old == IF Here.slug \in DOMAIN prior THEN prior[Here.slug] ELSE Entry(Here.slug)
Owner(name) == IF name \in DOMAIN taken THEN taken[name] ELSE ""
Take(name) == taken' = [n \in DOMAIN taken \cup {name} |->
                           IF n = name THEN Here.slug ELSE taken[n]]

DiskUnchanged == UNCHANGED <<site, manifest, listVars, prior, warned, runs, kills>>

\* Downloaded on an earlier run: no request, and the manifest is not written.
Reuse == /\ pc = "entry" /\ number <= Len(entries) /\ IsFile(Old.file)
         /\ entries' = [entries EXCEPT ![number] = [Old EXCEPT !.status = "cached"]]
         /\ Take(Old.file)
         /\ number' = number + 1
         /\ UNCHANGED <<pc, files, failures, fetched>> /\ DiskUnchanged

ChosenName == LET name == BareName(Here.slug) IN
              IF Owner(name) \notin {"", Here.slug} THEN LongName(Here.slug) ELSE name

Fresh == pc = "entry" /\ number <= Len(entries) /\ ~IsFile(Old.file)

\* The entry's page cannot be had, or has no download form.
PageFails == /\ Fresh /\ Failing
             /\ entries' = [entries EXCEPT ![number].status = "error"]
             /\ pc' = "record"
             /\ UNCHANGED <<files, number, taken, fetched>> /\ DiskUnchanged

\* Mutant: a file of that name is downloaded again.
OpenPageAlways == /\ Fresh
                  /\ entries' = [entries EXCEPT ![number].file = ChosenName]
                  /\ pc' = "post" /\ UNCHANGED taken
                  /\ UNCHANGED <<files, number, failures, fetched>> /\ DiskUnchanged

OpenPage == /\ Fresh
            /\ IF NotEmpty(ChosenName)
               THEN /\ entries' = [entries EXCEPT ![number].file = ChosenName,
                                                  ![number].status = "cached"]
                    /\ Take(ChosenName) /\ pc' = "record"
               ELSE /\ entries' = [entries EXCEPT ![number].file = ChosenName]
                    /\ pc' = "post" /\ UNCHANGED taken
            /\ UNCHANGED <<files, number, failures, fetched>> /\ DiskUnchanged

\* The form cannot be posted, or what comes back is a page.
PostFails == /\ pc = "post" /\ Failing
             /\ entries' = [entries EXCEPT ![number].status = "error"]
             /\ pc' = "record"
             /\ UNCHANGED <<files, number, taken, fetched>> /\ DiskUnchanged

Post == /\ pc = "post" /\ pc' = "write"
        /\ files' = [files EXCEPT ![Here.file] = [of |-> Here.slug, state |-> "empty"]]
        /\ UNCHANGED <<entries, number, taken, failures, fetched>> /\ DiskUnchanged

WriteSome == /\ pc = "write" /\ files[Here.file].state = "empty"
             /\ files' = [files EXCEPT ![Here.file].state = "cut"]
             /\ UNCHANGED <<pc, entries, number, taken, failures, fetched>> /\ DiskUnchanged

WriteRest == /\ pc = "write" /\ pc' = "record"
             /\ files' = [files EXCEPT ![Here.file].state = "whole"]
             /\ Take(Here.file)
             /\ entries' = [entries EXCEPT ![number].status = "downloaded",
                                           ![number].sha = Here.slug]
             /\ fetched' = [fetched EXCEPT ![Here.slug] = @ + 1]
             /\ UNCHANGED <<number, failures>> /\ DiskUnchanged

\* The disk is full: what is written of the file stays, under the entry's name.
WriteFails == /\ pc = "write" /\ Failing
              /\ entries' = [entries EXCEPT ![number].status = "error"]
              /\ pc' = "record"
              /\ UNCHANGED <<files, number, taken, fetched>> /\ DiskUnchanged

\* The manifest is replaced as a whole, the entries not reached yet included.
Record == /\ pc = "record" /\ pc' = "entry"
          /\ manifest' = entries
          /\ number' = number + 1
          /\ UNCHANGED <<site, files, listVars, entries, taken, prior, warned, runs, failures,
                         kills, fetched>>

Finish == /\ pc = "entry" /\ number > Len(entries)
          /\ manifest' = entries
          /\ Idle
          /\ UNCHANGED <<site, files, runs, failures, kills, fetched>>

Kill == /\ pc # "idle" /\ kills < MaxKills /\ kills' = kills + 1 /\ Idle
        /\ UNCHANGED <<site, files, manifest, runs, failures, fetched>>

------------------------------------------------------------------------------
Init == /\ site = FirstEntries
        /\ files = [n \in Names |-> NoFile]
        /\ manifest = <<>>
        /\ pc = "idle" /\ page = 0 /\ pages = 0 /\ total = 0
        /\ entries = <<>> /\ number = 0 /\ taken = <<>> /\ prior = <<>> /\ warned = FALSE
        /\ runs = 0 /\ failures = 0 /\ kills = 0
        /\ fetched = [s \in Slugs |-> 0]

Run == \/ Begin \/ ReadPage \/ ListingFails \/ Listed
       \/ Reuse \/ PageFails \/ OpenPage \/ PostFails \/ Post \/ WriteSome \/ WriteRest
       \/ WriteFails \/ Record \/ Finish

Next == Run \/ Kill \/ Publish \/ (pc = "idle" /\ runs = MaxRuns /\ UNCHANGED vars)

Spec == Init /\ [][Next]_vars

------------------------------------------------------------------------------
\* A hash in the manifest is the hash of the file it names: the file is there,
\* is whole and is that entry's own, after any kills and failures.
HashIsTrue ==
    \A i \in DOMAIN manifest :
        manifest[i].sha # "" => files[manifest[i].file] = [of |-> manifest[i].slug, state |-> "whole"]

\* "downloads the .udc / .zip ONCE": an entry whose file name no other entry
\* has is downloaded whole at most once over all runs, although the record of it
\* may be gone after an interruption.
DownloadedOnce ==
    \A s \in Slugs : (\A t \in Slugs \ {s} : FileName[t] # FileName[s]) => fetched[s] <= 1

\* What has a hash can be trusted and nothing is fetched twice.  Of a file that
\* was taken over without a hash this says nothing: see CachedIsWhole.
MirrorIsTrue == HashIsTrue /\ DownloadedOnce

\* "A file already in the cache is skipped, so an interrupted run resumes where
\* it stopped" (fetch_udc.py:10-11), the files being those downloaded "byte for
\* byte" (17): what the manifest gives as downloaded or cached is a whole file.
\* A write that was cut short (240-241) leaves a file that later runs take for
\* one (228, 329-330).
CachedIsWhole ==
    \A i \in DOMAIN manifest :
        manifest[i].status \in {"downloaded", "cached"} => files[manifest[i].file].state = "whole"
==============================================================================
