-------------------------- MODULE MCDownloadsProofs --------------------------
(***************************************************************************)
(* The tools that keep what they fetch. Each stands still while another    *)
(* runs, so an invariant of one is an invariant of the sum.                *)
(*                                                                         *)
(* UdcFetch: the manifest saved is the list of the run, so the list itself *)
(* must be true of the files at every step, as must the entries remembered *)
(* from the run before. What keeps it true is that the file being written  *)
(* is nobody's whole file, and that a name is taken by an entry it is a    *)
(* name of: an entry whose file name no other has always finds the file it *)
(* wrote, and does not fetch it again.                                     *)
(*                                                                         *)
(* QrzNames: a page in either cache was held by QRZ on the day it carries, *)
(* or later, so what is fresh was held lately. A call of a pass that is    *)
(* neither capped nor stopped is still to do, or is cached, and is listed  *)
(* if and only if the cache knows a name of it.                            *)
(*                                                                         *)
(* Catalogue: what is true of the flags must be true of every entry of the *)
(* file, of what a running mt_seed read before others wrote it, and of the *)
(* texts the tools bring in: the language table never holds a borrowed     *)
(* one. A help file that has sections is never empty, or ini2po would      *)
(* build it anew and trust the ini's texts.                                *)
(* Reviewed work survives because every tool leaves, for a reviewed entry, *)
(* one that answers for as many names: no reference is a vendored unit's,  *)
(* so po_merge passes it by; English is never taken for a translation, so  *)
(* the best copy po_dedupe picks is reviewed if any copy was.              *)
(***************************************************************************)
EXTENDS MCDownloads, TLAPS, SequenceTheorems, FiniteSetTheorems, WellFoundedInduction

------------------------------------------------------------------------------
\* Sequences

\* A set of natural numbers that is not empty has a least.
LEMMA LeastOf ==
    ASSUME NEW S, S \subseteq Nat, S # {}
    PROVE  \E x \in S : \A y \in S : x <= y
<1>1. PICK x \in S : \A y \in S : ~ (<<y, x>> \in OpToRel(<, Nat))
  BY NatLessThanWellFounded, WFMin
<1>2. \A y \in S : ~ (y < x)
  BY <1>1 DEF OpToRel
<1> QED
  BY <1>2

\* A set of numbers up to n that has 0, and each number whose predecessor it has, has all.
LEMMA UpTo ==
    ASSUME NEW n \in Nat, NEW S, 0 \in S, \A i \in 1 .. n : i - 1 \in S => i \in S
    PROVE  \A i \in 0 .. n : i \in S
<1> DEFINE Missing == {i \in 0 .. n : i \notin S}
<1> SUFFICES ASSUME Missing # {} PROVE FALSE
  OBVIOUS
<1>1. PICK i \in Missing : \A k \in Missing : i <= k
  <2>1. Missing \subseteq Nat
    OBVIOUS
  <2> HIDE DEF Missing
  <2> QED
    BY <2>1, LeastOf
<1>2. i \in 1 .. n /\ i - 1 \in 0 .. n /\ ~ (i <= i - 1)
  OBVIOUS
<1>3. i - 1 \notin Missing
  BY <1>1, <1>2
<1> QED
  BY <1>1, <1>2, <1>3

------------------------------------------------------------------------------
\* UdcFetch

\* An entry of the list, whose hash is the slug of the file's content.
EntryType == [slug : U!Slugs, file : U!Names \cup {U!NoName}, sha : U!Slugs \cup {""},
              status : {"", "cached", "error", "downloaded"}]
\* What the listing makes of a slug.
Blank == {U!Entry(s) : s \in U!Slugs}

FileType == [of : U!Slugs \cup {""}, state : {"none", "empty", "cut", "whole"}]

KeptTypes ==
    /\ site \in Seq(U!Slugs)
    /\ files \in [U!Names -> FileType]
    /\ manifest \in Seq(EntryType)
    /\ fetched \in [U!Slugs -> Nat]
RunTypes ==
    /\ entries \in Seq(EntryType)
    /\ \A s \in DOMAIN prior : prior[s] \in EntryType /\ prior[s].slug = s
\* Where the run is in its list.
PlaceTypes ==
    /\ pc \in {"idle", "list", "entry", "post", "write", "record"}
    /\ page \in Nat /\ number \in Nat
    /\ pc = "idle" => number = 0 /\ entries = <<>>
    /\ pc = "list" => page > 0 /\ number = 0 /\ entries \in Seq(Blank)
    /\ pc \in {"entry", "post", "write", "record"} => number > 0
    /\ pc \in {"post", "write", "record"} => number <= Len(entries)
UdcTypes == KeptTypes /\ RunTypes /\ PlaceTypes

\* A page of the listing adds blank entries.
LEMMA JoinTypes ==
    ASSUME NEW es \in Seq(Blank), NEW found \in Seq(U!Slugs)
    PROVE  U!Join(es, found) \in Seq(Blank)
<1> DEFINE N == Len(found)
           Next1(e, i) == IF found[i] \in U!SlugsOf(e) THEN e ELSE Append(e, U!Entry(found[i]))
           Body(f, n) == [i \in 0 .. n |-> IF i = 0 THEN es ELSE Next1(f[i - 1], i)]
           Upto(f, n) == f \in [0 .. n -> Seq(Blank)] /\ f = Body(f, n)
           S == {n \in 0 .. N : \E f : Upto(f, n)}
<1>1. N \in Nat /\ \A i \in 1 .. N : found[i] \in U!Slugs
  OBVIOUS
<1>2. ASSUME NEW i \in 1 .. N, NEW e \in Seq(Blank) PROVE Next1(e, i) \in Seq(Blank)
  <2>1. U!Entry(found[i]) \in Blank
    BY <1>1 DEF Blank
  <2> QED
    BY <2>1
<1> HIDE DEF N, Next1
<1>3. \A n \in 0 .. N : n \in S
  <2>1. 0 \in S
    <3>1. Upto([i \in 0 .. 0 |-> es], 0)
      OBVIOUS
    <3> HIDE DEF Upto
    <3> QED
      BY <3>1, <1>1
  <2>2. ASSUME NEW n \in 1 .. N, n - 1 \in S PROVE n \in S
    <3>1. PICK g : Upto(g, n - 1)
      BY <2>2
    <3> DEFINE f == [i \in 0 .. n |-> IF i = n THEN Next1(g[n - 1], n) ELSE g[i]]
    <3>2. n \in Nat /\ n # 0 /\ n - 1 \in 0 .. (n - 1) /\ g[n - 1] \in Seq(Blank)
      BY <3>1, <1>1
    <3>3. f \in [0 .. n -> Seq(Blank)]
      <4>1. Next1(g[n - 1], n) \in Seq(Blank)
        BY <1>2, <3>2
      <4>2. \A i \in 0 .. n : i # n => g[i] \in Seq(Blank)
        BY <3>1, <3>2
      <4> QED
        BY <4>1, <4>2
    <3>4. ASSUME NEW i \in 0 .. n PROVE f[i] = IF i = 0 THEN es ELSE Next1(f[i - 1], i)
      <4>1. CASE i = n
        <5>1. f[n] = Next1(g[n - 1], n) /\ f[n - 1] = g[n - 1]
          BY <3>2
        <5> QED
          BY <4>1, <5>1, <3>2
      <4>2. CASE i # n
        <5>1. i \in 0 .. (n - 1) /\ i \in 0 .. n /\ (i # 0 => i - 1 \in 0 .. n /\ i - 1 # n)
          BY <4>2, <3>2
        <5>2. f[i] = g[i] /\ (i # 0 => f[i - 1] = g[i - 1])
          BY <5>1, <4>2
        <5>3. g[i] = IF i = 0 THEN es ELSE Next1(g[i - 1], i)
          BY <3>1, <5>1
        <5> QED
          BY <5>2, <5>3
      <4> QED
        BY <4>1, <4>2
    <3>5. Upto(f, n)
      BY <3>3, <3>4
    <3> HIDE DEF f, Upto
    <3> QED
      BY <3>5, <1>1
  <2> HIDE DEF S
  <2> QED
    BY <1>1, <2>1, <2>2, UpTo
<1>4. PICK h : Upto(h, N)
  <2> HIDE DEF Upto
  <2> QED
    BY <1>1, <1>3
<1> DEFINE g == CHOOSE f : f = Body(f, N)
<1>5. g = Body(g, N)
  BY <1>4
<1>6. U!Join(es, found) = g[N]
  BY DEF U!Join, N, Next1
<1> HIDE DEF g, Upto
<1>7. \A i \in 0 .. N : i \in {k \in 0 .. N : g[k] \in Seq(Blank)}
  <2> DEFINE Good == {k \in 0 .. N : g[k] \in Seq(Blank)}
  <2>1. 0 \in Good
    BY <1>1, <1>5
  <2>2. ASSUME NEW i \in 1 .. N, i - 1 \in Good PROVE i \in Good
    <3>1. i \in 0 .. N /\ i # 0 /\ g[i - 1] \in Seq(Blank)
      BY <1>1, <2>2
    <3>2. g[i] = Next1(g[i - 1], i)
      BY <1>5, <3>1
    <3> QED
      BY <1>2, <3>1, <3>2
  <2> HIDE DEF Good
  <2>3. \A i \in 0 .. N : i \in Good
    BY <1>1, <2>1, <2>2, UpTo
  <2> QED
    BY <2>3 DEF Good
<1> QED
  BY <1>1, <1>6, <1>7

\* An entry names no file or one of its own, and its hash is that of the file.
TrueIn(e, disk0) ==
    /\ e.file \in {U!NoName, U!BareName(e.slug), U!LongName(e.slug)}
    /\ e.sha # "" => e.file # U!NoName /\ disk0[e.file] = [of |-> e.slug, state |-> "whole"]

RecordsTrue ==
    /\ \A i \in DOMAIN manifest : TrueIn(manifest[i], files)
    /\ \A i \in DOMAIN entries : TrueIn(entries[i], files)
    /\ \A s \in DOMAIN prior : TrueIn(prior[s], files)

\* An entry not reached has no hash: what is about to be named or written is
\* nobody's whole file.
NotReached ==
    \A i \in DOMAIN entries : i > number \/ (i = number /\ pc # "record") => entries[i].sha = ""

\* No other entry has its file name.
Lone(s) == \A t \in U!Slugs \ {s} : FileName[t] # FileName[s]

Downloading ==
    pc \in {"post", "write"} =>
        /\ entries[number].file # U!NoName
        /\ files[entries[number].file].state # "whole"
        /\ Lone(entries[number].slug) => entries[number].file = U!BareName(entries[number].slug)
        /\ pc = "write" => files[entries[number].file].of = entries[number].slug

\* A name is taken by an entry it is a name of.
OwnersTrue ==
    \A n \in DOMAIN taken : taken[n] \in U!Slugs /\ n \in {U!BareName(taken[n]), U!LongName(taken[n])}

FetchedOnce ==
    \A s \in U!Slugs : Lone(s) => \/ fetched[s] = 0
                                  \/ fetched[s] = 1 /\ files[U!BareName(s)].state = "whole"

UdcInv == UdcTypes /\ RecordsTrue /\ NotReached /\ Downloading /\ OwnersTrue /\ FetchedOnce

\* Every entry the listing makes is blank.
LEMMA BlankIsTrue ==
    ASSUME NEW e \in Blank, NEW f PROVE e \in EntryType /\ TrueIn(e, f) /\ e.sha = ""
<1>1. PICK s \in U!Slugs : e = [slug |-> s, file |-> U!NoName, sha |-> "", status |-> ""]
  BY DEF Blank, U!Entry
<1>2. e.slug = s /\ e.file = U!NoName /\ e.sha = "" /\ e.status = ""
  BY <1>1
<1>3. e \in EntryType
  BY <1>1 DEF EntryType
<1> QED
  BY <1>2, <1>3 DEF TrueIn

\* A name is one entry's or a file's; the two forms differ.
LEMMA NamesDiffer ==
    ASSUME NEW s \in U!Slugs, NEW t \in U!Slugs
    PROVE  /\ U!BareName(s) \in U!Names /\ U!LongName(s) \in U!Names
           /\ U!BareName(s) # U!NoName /\ U!LongName(s) # U!NoName /\ U!BareName(s) # U!LongName(t)
           /\ U!BareName(s) = U!BareName(t) => FileName[s] = FileName[t]
BY DEF U!Names, U!BareName, U!LongName, U!NoName

\* A record stays true while whole files are left alone.
LEMMA StaysTrue ==
    ASSUME NEW e \in EntryType, NEW f, NEW g, TrueIn(e, f),
           \A n \in U!Names : f[n].state = "whole" => g[n] = f[n]
    PROVE  TrueIn(e, g)
<1>1. CASE e.sha = ""
  BY <1>1 DEF TrueIn
<1>2. CASE e.sha # ""
  <2>1. e.file \in U!Names
    BY <1>2 DEF TrueIn, EntryType
  <2>2. f[e.file].state = "whole"
    <3>1. f[e.file] = [of |-> e.slug, state |-> "whole"]
      BY <1>2 DEF TrueIn
    <3>2. [of |-> e.slug, state |-> "whole"].state = "whole"
      OBVIOUS
    <3> QED
      BY <3>1, <3>2, Zenon
  <2> QED
    BY <1>2, <2>1, <2>2 DEF TrueIn
<1> QED
  BY <1>1, <1>2

\* Nothing is fetched at first.
LEMMA UdcStarts == U!Init => UdcInv
<1> SUFFICES ASSUME U!Init PROVE UdcInv
  OBVIOUS
<1>1. site \in Seq(U!Slugs)
  <2>1. ToSet(FirstEntries) \subseteq U!Slugs
    BY DEF U!Slugs, U!ToSet, ToSet
  <2>2. \A S, T0 : S \subseteq T0 => Seq(S) \subseteq Seq(T0)
    OBVIOUS
  <2>3. FirstEntries \in Seq(U!Slugs)
    BY <2>1, <2>2, SiteAssumption
  <2> QED
    BY <2>3 DEF U!Init
<1>2. entries = <<>> /\ manifest = <<>> /\ DOMAIN entries = {} /\ DOMAIN manifest = {} /\ DOMAIN prior = {} /\ DOMAIN taken = {}
  BY DEF U!Init
<1>3. files \in [U!Names -> FileType]
  BY DEF U!Init, U!NoFile, FileType
<1>4. UdcTypes
  <2>1. KeptTypes
    BY <1>1, <1>2, <1>3 DEF U!Init, KeptTypes
  <2>2. RunTypes
    BY <1>2 DEF RunTypes
  <2>3. PlaceTypes
    BY <1>2 DEF U!Init, PlaceTypes
  <2> QED
    BY <2>1, <2>2, <2>3 DEF UdcTypes
<1> QED
  BY <1>2, <1>4 DEF U!Init, UdcInv, RecordsTrue, NotReached, Downloading, OwnersTrue, FetchedOnce

\* The process is gone, and with it all but the files and the manifest.
LEMMA UdcIdles ==
    ASSUME UdcInv, U!Idle, UNCHANGED <<files, fetched>>, site' = site,
           manifest' \in {manifest, entries}
    PROVE  UdcInv'
<1>1. /\ pc' = "idle" /\ number' = 0 /\ page' = 0 /\ entries' = <<>>
      /\ DOMAIN entries' = {} /\ DOMAIN prior' = {} /\ DOMAIN taken' = {}
  BY DEF U!Idle
<1>2. UdcTypes'
  <2>1. KeptTypes'
    BY DEF UdcInv, UdcTypes, KeptTypes, RunTypes
  <2>2. RunTypes' /\ PlaceTypes'
    BY <1>1 DEF RunTypes, PlaceTypes
  <2> QED
    BY <2>1, <2>2 DEF UdcTypes
<1>3. RecordsTrue'
  BY <1>1 DEF UdcInv, RecordsTrue
<1>4. NotReached' /\ Downloading' /\ OwnersTrue'
  BY <1>1 DEF NotReached, Downloading, OwnersTrue
<1>5. FetchedOnce'
  BY DEF UdcInv, FetchedOnce
<1> QED
  BY <1>2, <1>3, <1>4, <1>5 DEF UdcInv

\* The pages: what they show of the site.
LEMMA PageOfTypes ==
    ASSUME UdcTypes, page > 0 PROVE U!PageOf(page) \in Seq(U!Slugs)
<1> DEFINE a == (page - 1) * PageSize + 1
           b == IF page * PageSize < Len(site) THEN page * PageSize ELSE Len(site)
<1>1. page \in Nat /\ PageSize \in Nat /\ site \in Seq(U!Slugs) /\ Len(site) \in Nat
  BY SiteAssumption DEF UdcTypes, KeptTypes, PlaceTypes
<1>2. (page - 1) * PageSize \in Nat /\ page * PageSize \in Nat
  <2>1. \A x, y \in Nat : x * y \in Nat
    OBVIOUS
  <2>2. page - 1 \in Nat
    BY <1>1
  <2> QED
    BY <1>1, <2>1, <2>2
<1>3. a \in Nat /\ a >= 1 /\ b \in Nat /\ b <= Len(site)
  BY <1>1, <1>2
<1>4. U!PageOf(page) = SubSeq(site, a, b)
  BY DEF U!PageOf
<1> HIDE DEF a, b
<1>5. SubSeq(site, a, b) \in Seq(U!Slugs)
  BY <1>1, <1>3
<1> QED
  BY <1>4, <1>5

\* A run begins, and reads the listing.
LEMMA UdcLists ==
    ASSUME UdcInv, U!Begin \/ U!ReadPage
    PROVE  UdcInv'
<1> USE DEF UdcInv
<1>1. CASE U!Begin
  <2>1. entries = <<>> /\ number = 0 /\ pc = "idle" /\ pc' = "list"
    BY <1>1 DEF U!Begin, UdcTypes, PlaceTypes
  <2>2. UdcTypes'
    BY <1>1, <2>1 DEF U!Begin, U!runVars, UdcTypes, KeptTypes, RunTypes, PlaceTypes
  <2> QED
    BY <1>1, <2>1, <2>2 DEF U!Begin, U!runVars, RecordsTrue, NotReached, Downloading, OwnersTrue, FetchedOnce
<1>2. CASE U!ReadPage
  <2>1. entries' \in Seq(Blank)
    <3>1. page > 0 /\ entries \in Seq(Blank)
      BY <1>2 DEF U!ReadPage, UdcTypes, PlaceTypes
    <3> QED
      BY <1>2, <3>1, PageOfTypes, JoinTypes DEF U!ReadPage
  <2>2. \A e \in Blank : e \in EntryType
    BY BlankIsTrue
  <2>3. entries' \in Seq(EntryType) /\ \A i \in DOMAIN entries' : entries'[i] \in Blank
    BY <2>1, <2>2
  <2>4. UdcTypes'
    <3>1. KeptTypes' /\ RunTypes'
      BY <1>2, <2>3 DEF U!ReadPage, UdcTypes, KeptTypes, RunTypes
    <3>2. PlaceTypes'
      BY <1>2, <2>1 DEF U!ReadPage, UdcTypes, PlaceTypes
    <3> QED
      BY <3>1, <3>2 DEF UdcTypes
  <2>5. RecordsTrue' /\ NotReached'
    BY <1>2, <2>3, BlankIsTrue DEF U!ReadPage, RecordsTrue, NotReached
  <2>6. Downloading' /\ OwnersTrue' /\ FetchedOnce'
    BY <1>2 DEF U!ReadPage, Downloading, OwnersTrue, FetchedOnce
  <2> QED
    BY <2>4, <2>5, <2>6
<1> QED
  BY <1>1, <1>2

\* What the manifest says of a slug is one of its entries.
LEMMA UdcListed ==
    ASSUME UdcInv, U!Listed
    PROVE  UdcInv'
<1> USE DEF UdcInv
<1>1. /\ pc = "list" /\ pc' = "entry" /\ number = 0 /\ number' = 1 /\ taken' = <<>> /\ DOMAIN taken' = {}
      /\ prior' = U!NewestLast(manifest) /\ page' = page /\ page \in Nat
      /\ site' = site /\ files' = files /\ manifest' = manifest /\ fetched' = fetched /\ entries' = entries
      /\ entries \in Seq(Blank)
  BY DEF U!Listed, U!listVars, UdcTypes, PlaceTypes
<1>2. manifest \in Seq(EntryType)
  BY DEF UdcTypes, KeptTypes
<1>3. ASSUME NEW s \in DOMAIN prior'
      PROVE  prior'[s] \in EntryType /\ prior'[s].slug = s /\ TrueIn(prior'[s], files)
  <2>1. s \in U!SlugsOf(manifest) /\ prior'[s] = CHOOSE e \in U!ToSet(manifest) : e.slug = s
    BY <1>1, <1>3 DEF U!NewestLast
  <2>2. PICK i \in DOMAIN manifest : manifest[i].slug = s
    BY <2>1 DEF U!SlugsOf
  <2>3. manifest[i] \in U!ToSet(manifest)
    BY <2>2 DEF U!ToSet
  <2>4. prior'[s] \in U!ToSet(manifest) /\ prior'[s].slug = s
    BY <2>1, <2>2, <2>3
  <2>5. PICK k \in DOMAIN manifest : prior'[s] = manifest[k]
    BY <2>4 DEF U!ToSet
  <2>6. manifest[k] \in EntryType /\ TrueIn(manifest[k], files)
    BY <1>2, <2>5 DEF RecordsTrue
  <2> QED
    BY <2>4, <2>5, <2>6
<1>4. UdcTypes'
  BY <1>1, <1>3 DEF UdcTypes, KeptTypes, RunTypes, PlaceTypes
<1>5. RecordsTrue'
  BY <1>1, <1>3 DEF RecordsTrue
<1>6. NotReached'
  <2>1. \A b \in Blank : b.sha = ""
    BY BlankIsTrue
  <2>2. \A i \in DOMAIN entries : entries[i] \in Blank
    BY <1>1
  <2> QED
    BY <1>1, <2>1, <2>2 DEF NotReached
<1>7. Downloading' /\ OwnersTrue' /\ FetchedOnce'
  BY <1>1 DEF Downloading, OwnersTrue, FetchedOnce
<1> QED
  BY <1>4, <1>5, <1>6, <1>7

\* The entry reached is replaced.
LEMMA EntryEdited ==
    ASSUME UdcTypes, pc \in {"entry", "post", "write"}, number <= Len(entries), NEW e \in EntryType,
           entries' = [entries EXCEPT ![number] = e]
    PROVE  /\ entries' \in Seq(EntryType) /\ Len(entries') = Len(entries) /\ DOMAIN entries' = DOMAIN entries
           /\ number \in DOMAIN entries /\ number \in Nat /\ Len(entries) \in Nat /\ number > 0
           /\ entries'[number] = e
           /\ \A i \in DOMAIN entries : i # number => entries'[i] = entries[i]
BY DEF UdcTypes, RunTypes, PlaceTypes

\* The entry reached.
LEMMA HereTypes ==
    ASSUME UdcInv, pc \in {"entry", "post", "write"}, number <= Len(entries)
    PROVE  /\ number \in DOMAIN entries /\ U!Here = entries[number]
           /\ U!Here \in EntryType /\ TrueIn(U!Here, files) /\ U!Here.sha = ""
           /\ U!Here.slug \in U!Slugs
<1>1. number \in DOMAIN entries /\ number \in Nat
  BY DEF UdcInv, UdcTypes, RunTypes, PlaceTypes
<1>2. entries[number] \in EntryType
  BY <1>1 DEF UdcInv, UdcTypes, RunTypes
<1>3. TrueIn(entries[number], files) /\ entries[number].sha = ""
  BY <1>1 DEF UdcInv, RecordsTrue, NotReached
<1>4. entries[number].slug \in U!Slugs
  BY <1>2 DEF EntryType
<1> QED
  BY <1>1, <1>2, <1>3, <1>4 DEF U!Here

\* An entry takes a name of its own.
LEMMA TakesOwn ==
    ASSUME OwnersTrue, NEW name, U!Take(name), U!Here.slug \in U!Slugs,
           name \in {U!BareName(U!Here.slug), U!LongName(U!Here.slug)}
    PROVE  OwnersTrue'
<1> DEFINE h == U!Here.slug
<1>1. taken' = [n \in DOMAIN taken \cup {name} |-> IF n = name THEN h ELSE taken[n]]
  BY DEF U!Take
<1>2. h \in U!Slugs /\ name \in {U!BareName(h), U!LongName(h)}
  OBVIOUS
<1> HIDE DEF h
<1> QED
  BY <1>1, <1>2 DEF OwnersTrue, U!BareName, U!LongName

\* An entry whose file is there keeps what an earlier run recorded of it.
LEMMA UdcReuses ==
    ASSUME UdcInv, U!Reuse
    PROVE  UdcInv'
<1> USE DEF UdcInv
<1> DEFINE e == [U!Old EXCEPT !.status = "cached"]
<1>1. /\ pc = "entry" /\ pc' = pc /\ number <= Len(entries) /\ number' = number + 1
      /\ entries' = [entries EXCEPT ![number] = e] /\ U!Take(U!Old.file)
      /\ site' = site /\ files' = files /\ manifest' = manifest /\ fetched' = fetched /\ prior' = prior /\ page' = page
      /\ U!Old.file # U!NoName
  BY DEF U!Reuse, U!DiskUnchanged, U!listVars, U!IsFile
<1>2. /\ U!Here.slug \in U!Slugs
  BY <1>1, HereTypes
<1>3. U!Old \in EntryType /\ U!Old.slug = U!Here.slug /\ TrueIn(U!Old, files)
  <2>1. CASE U!Here.slug \in DOMAIN prior
    BY <2>1 DEF U!Old, UdcTypes, RunTypes, RecordsTrue
  <2>2. CASE U!Here.slug \notin DOMAIN prior
    <3>1. U!Old = U!Entry(U!Here.slug)
      BY <2>2 DEF U!Old
    <3>2. U!Old \in Blank /\ U!Old.slug = U!Here.slug
      BY <3>1, <1>2 DEF Blank, U!Entry
    <3> QED
      BY <3>2, BlankIsTrue
  <2> QED
    BY <2>1, <2>2
<1>4. e \in EntryType /\ TrueIn(e, files)
  BY <1>3 DEF EntryType, TrueIn
<1> HIDE DEF e
<1>5. /\ entries' \in Seq(EntryType) /\ Len(entries') = Len(entries) /\ DOMAIN entries' = DOMAIN entries
      /\ number \in Nat /\ number > 0 /\ entries'[number] = e /\ DOMAIN entries \subseteq Nat
      /\ \A i \in DOMAIN entries : i # number => entries'[i] = entries[i]
  <2>1. DOMAIN entries \subseteq Nat
    BY DEF UdcTypes, RunTypes
  <2> QED
    BY <1>1, <1>4, <2>1, EntryEdited
<1>6. UdcTypes'
  BY <1>1, <1>5 DEF UdcTypes, KeptTypes, RunTypes, PlaceTypes
<1>7. RecordsTrue'
  BY <1>1, <1>4, <1>5 DEF RecordsTrue
<1>8. NotReached'
  <2>1. ASSUME NEW i \in DOMAIN entries, i >= number + 1 PROVE entries'[i].sha = ""
    <3>1. i > number /\ i # number
      BY <1>5, <2>1
    <3> QED
      BY <1>5, <3>1 DEF NotReached
  <2>2. \A i \in DOMAIN entries' : i > number' \/ i = number' => i >= number + 1
    BY <1>1, <1>5
  <2> QED
    BY <1>5, <2>1, <2>2 DEF NotReached
<1>9. Downloading' /\ FetchedOnce'
  BY <1>1 DEF Downloading, FetchedOnce
<1>10. OwnersTrue'
  <2>1. U!Old.file \in {U!BareName(U!Here.slug), U!LongName(U!Here.slug)}
    BY <1>1, <1>3 DEF TrueIn
  <2> QED
    BY <1>1, <1>2, <2>1, TakesOwn
<1> QED
  BY <1>6, <1>7, <1>8, <1>9, <1>10

\* The page or the form cannot be had or the file not be written: the entry
\* keeps its name and no hash.
LEMMA UdcFails ==
    ASSUME UdcInv, U!PageFails \/ U!PostFails \/ U!WriteFails
    PROVE  UdcInv'
<1> USE DEF UdcInv
<1> DEFINE e == [U!Here EXCEPT !.status = "error"]
<1>1. /\ pc \in {"entry", "post", "write"} /\ pc' = "record" /\ number <= Len(entries) /\ number' = number
      /\ entries' = [entries EXCEPT ![number].status = "error"] /\ taken' = taken
      /\ site' = site /\ files' = files /\ manifest' = manifest /\ fetched' = fetched /\ prior' = prior /\ page' = page
  BY DEF U!PageFails, U!PostFails, U!WriteFails, U!Fresh, U!DiskUnchanged, U!listVars, UdcTypes, PlaceTypes
<1>2. /\ U!Here \in EntryType /\ TrueIn(U!Here, files) /\ U!Here = entries[number] /\ U!Here.sha = ""
  BY <1>1, HereTypes
<1>3. entries' = [entries EXCEPT ![number] = e]
  BY <1>1, <1>2
<1>4. e \in EntryType /\ TrueIn(e, files) /\ e.sha = ""
  BY <1>2 DEF EntryType, TrueIn
<1> HIDE DEF e
<1>5. /\ entries' \in Seq(EntryType) /\ Len(entries') = Len(entries) /\ DOMAIN entries' = DOMAIN entries
      /\ number \in Nat /\ number > 0 /\ entries'[number] = e /\ DOMAIN entries \subseteq Nat
      /\ \A i \in DOMAIN entries : i # number => entries'[i] = entries[i]
  <2>1. DOMAIN entries \subseteq Nat
    BY DEF UdcTypes, RunTypes
  <2> QED
    BY <1>1, <1>3, <1>4, <2>1, EntryEdited
<1>6. UdcTypes'
  BY <1>1, <1>5 DEF UdcTypes, KeptTypes, RunTypes, PlaceTypes
<1>7. RecordsTrue'
  BY <1>1, <1>4, <1>5 DEF RecordsTrue
<1>8. NotReached'
  BY <1>1, <1>4, <1>5 DEF NotReached
<1>9. Downloading' /\ FetchedOnce' /\ OwnersTrue'
  BY <1>1 DEF Downloading, FetchedOnce, OwnersTrue
<1> QED
  BY <1>6, <1>7, <1>8, <1>9

\* A name the program chooses is the entry's own; the bare one, if no other
\* entry can have taken it.
LEMMA ChoosesOwn ==
    ASSUME OwnersTrue, U!Here.slug \in U!Slugs
    PROVE  /\ U!ChosenName \in {U!BareName(U!Here.slug), U!LongName(U!Here.slug)}
           /\ U!ChosenName \in U!Names /\ U!ChosenName # U!NoName
           /\ Lone(U!Here.slug) => U!ChosenName = U!BareName(U!Here.slug)
<1> DEFINE h == U!Here.slug
<1>1. U!ChosenName = IF U!Owner(U!BareName(h)) \notin {"", h} THEN U!LongName(h) ELSE U!BareName(h)
  BY DEF U!ChosenName
<1>2. h \in U!Slugs
  OBVIOUS
<1> HIDE DEF h
<1>3. ASSUME Lone(h) PROVE U!Owner(U!BareName(h)) \in {"", h}
  <2> SUFFICES ASSUME U!BareName(h) \in DOMAIN taken PROVE taken[U!BareName(h)] = h
    BY DEF U!Owner
  <2> DEFINE t == taken[U!BareName(h)]
  <2>1. t \in U!Slugs /\ U!BareName(h) \in {U!BareName(t), U!LongName(t)}
    BY DEF OwnersTrue
  <2> HIDE DEF t
  <2>2. FileName[t] = FileName[h]
    BY <1>2, <2>1, NamesDiffer
  <2>3. t = h
    BY <1>3, <2>1, <2>2 DEF Lone
  <2> QED
    BY <2>3 DEF t
<1>4. U!BareName(h) \in U!Names /\ U!LongName(h) \in U!Names /\ U!BareName(h) # U!NoName /\ U!LongName(h) # U!NoName
  BY <1>2, NamesDiffer
<1> QED
  BY <1>1, <1>3, <1>4 DEF h

\* An entry is given its file name: the file is there already, or is asked for.
LEMMA UdcOpens ==
    ASSUME UdcInv, U!OpenPage
    PROVE  UdcInv'
<1> USE DEF UdcInv
<1> DEFINE e == [U!Here EXCEPT !.file = U!ChosenName,
                               !.status = IF U!NotEmpty(U!ChosenName) THEN "cached" ELSE @]
<1>1. /\ pc = "entry" /\ number <= Len(entries) /\ number' = number
      /\ site' = site /\ files' = files /\ manifest' = manifest /\ fetched' = fetched /\ prior' = prior /\ page' = page
      /\ U!NotEmpty(U!ChosenName) => U!Take(U!ChosenName) /\ pc' = "record"
      /\ ~U!NotEmpty(U!ChosenName) => taken' = taken /\ pc' = "post"
  BY DEF U!OpenPage, U!Fresh, U!DiskUnchanged, U!listVars
<1>2. /\ U!Here \in EntryType /\ TrueIn(U!Here, files) /\ U!Here = entries[number] /\ U!Here.sha = ""
      /\ U!Here.slug \in U!Slugs
  BY <1>1, HereTypes
<1>3. entries' = [entries EXCEPT ![number] = e]
  <2>1. CASE U!NotEmpty(U!ChosenName)
    BY <1>2, <2>1 DEF U!OpenPage, EntryType
  <2>2. CASE ~U!NotEmpty(U!ChosenName)
    BY <1>2, <2>2 DEF U!OpenPage, EntryType
  <2> QED
    BY <2>1, <2>2
<1>4. /\ U!ChosenName \in {U!BareName(U!Here.slug), U!LongName(U!Here.slug)}
      /\ U!ChosenName \in U!Names /\ U!ChosenName # U!NoName
      /\ Lone(U!Here.slug) => U!ChosenName = U!BareName(U!Here.slug)
  BY <1>2, ChoosesOwn
<1>5. e \in EntryType /\ TrueIn(e, files) /\ e.sha = "" /\ e.file = U!ChosenName /\ e.slug = U!Here.slug
  BY <1>2, <1>4 DEF EntryType, TrueIn
<1> HIDE DEF e
<1>6. /\ entries' \in Seq(EntryType) /\ Len(entries') = Len(entries) /\ DOMAIN entries' = DOMAIN entries
      /\ number \in Nat /\ number > 0 /\ entries'[number] = e /\ DOMAIN entries \subseteq Nat
      /\ \A i \in DOMAIN entries : i # number => entries'[i] = entries[i]
  <2>1. DOMAIN entries \subseteq Nat
    BY DEF UdcTypes, RunTypes
  <2> QED
    BY <1>1, <1>3, <1>5, <2>1, EntryEdited
<1>7. UdcTypes'
  BY <1>1, <1>6 DEF UdcTypes, KeptTypes, RunTypes, PlaceTypes
<1>8. RecordsTrue'
  BY <1>1, <1>5, <1>6 DEF RecordsTrue
<1>9. NotReached'
  BY <1>1, <1>5, <1>6 DEF NotReached
<1>10. Downloading'
  <2>1. CASE U!NotEmpty(U!ChosenName)
    BY <1>1, <2>1 DEF Downloading
  <2>2. CASE ~U!NotEmpty(U!ChosenName)
    <3>1. pc' = "post" /\ files[U!ChosenName].state # "whole"
      BY <1>1, <2>2 DEF U!NotEmpty
    <3>2. entries'[number'] = e
      BY <1>1, <1>6
    <3> QED
      BY <1>1, <1>4, <1>5, <3>1, <3>2 DEF Downloading, Lone
  <2> QED
    BY <2>1, <2>2
<1>11. OwnersTrue'
  <2>1. CASE U!NotEmpty(U!ChosenName)
    BY <1>1, <1>2, <1>4, <2>1, TakesOwn
  <2>2. CASE ~U!NotEmpty(U!ChosenName)
    BY <1>1, <2>2 DEF OwnersTrue
  <2> QED
    BY <2>1, <2>2
<1>12. FetchedOnce'
  BY <1>1 DEF FetchedOnce
<1> QED
  BY <1>7, <1>8, <1>9, <1>10, <1>11, <1>12

\* Records stay true where one file that is not whole changes.
LEMMA RecordsStay ==
    ASSUME UdcInv, NEW n \in U!Names, files[n].state # "whole",
           \A k \in U!Names : k # n => files'[k] = files[k]
    PROVE  /\ \A e \in EntryType : TrueIn(e, files) => TrueIn(e, files')
           /\ \A s \in U!Slugs : files[U!BareName(s)].state = "whole" => files'[U!BareName(s)].state = "whole"
<1>1. \A k \in U!Names : files[k].state = "whole" => files'[k] = files[k]
  OBVIOUS
<1>2. \A e \in EntryType : TrueIn(e, files) => TrueIn(e, files')
  BY <1>1, StaysTrue
<1> QED
  BY <1>1, <1>2, NamesDiffer

\* The file is emptied, then written in part.
LEMMA UdcWrites ==
    ASSUME UdcInv, U!Post \/ U!WriteSome
    PROVE  UdcInv'
<1> USE DEF UdcInv
<1> DEFINE n == U!Here.file
           f == files'[n]
<1>1. /\ pc \in {"post", "write"} /\ pc' = "write" /\ number' = number /\ number <= Len(entries)
      /\ entries' = entries /\ taken' = taken /\ fetched' = fetched
      /\ site' = site /\ manifest' = manifest /\ prior' = prior /\ page' = page
  BY DEF U!Post, U!WriteSome, U!DiskUnchanged, U!listVars, UdcTypes, PlaceTypes
<1>2. /\ U!Here \in EntryType /\ TrueIn(U!Here, files) /\ U!Here = entries[number] /\ U!Here.slug \in U!Slugs
  BY <1>1, HereTypes
<1>3. /\ n # U!NoName /\ files[n].state # "whole" /\ n \in U!Names
      /\ files \in [U!Names -> FileType] /\ files[n] \in FileType
  <2>1. n # U!NoName /\ files[n].state # "whole"
    BY <1>1, <1>2 DEF Downloading
  <2>2. n \in U!Names
    BY <1>2, <2>1 DEF EntryType
  <2> QED
    BY <2>1, <2>2 DEF UdcTypes, KeptTypes
<1>4. /\ f \in FileType /\ f.of = U!Here.slug /\ f.state # "whole"
      /\ files' = [files EXCEPT ![n] = f]
  <2>1. CASE U!Post
    <3>1. files' = [files EXCEPT ![n] = [of |-> U!Here.slug, state |-> "empty"]]
      BY <2>1 DEF U!Post
    <3>2. f = [of |-> U!Here.slug, state |-> "empty"]
      BY <1>3, <3>1
    <3> QED
      BY <1>2, <1>3, <3>1, <3>2 DEF FileType
  <2>2. CASE U!WriteSome
    <3>1. files' = [files EXCEPT ![n].state = "cut"] /\ pc = "write"
      BY <2>2 DEF U!WriteSome
    <3>2. f = [files[n] EXCEPT !.state = "cut"]
      BY <1>3, <3>1
    <3>3. files[n].of = U!Here.slug
      BY <1>2, <3>1 DEF Downloading
    <3> QED
      BY <1>2, <1>3, <3>1, <3>2, <3>3 DEF FileType
  <2> QED
    BY <2>1, <2>2
<1> HIDE DEF n, f
<1>5. files' \in [U!Names -> FileType] /\ files'[n] = f /\ \A k \in U!Names : k # n => files'[k] = files[k]
  BY <1>3, <1>4
<1>6. /\ \A e \in EntryType : TrueIn(e, files) => TrueIn(e, files')
      /\ \A s \in U!Slugs : files[U!BareName(s)].state = "whole" => files'[U!BareName(s)].state = "whole"
  BY <1>3, <1>5, RecordsStay
<1>7. UdcTypes'
  BY <1>1, <1>5 DEF UdcTypes, KeptTypes, RunTypes, PlaceTypes
<1>8. RecordsTrue'
  BY <1>1, <1>6 DEF RecordsTrue, UdcTypes, KeptTypes, RunTypes
<1>9. NotReached' /\ OwnersTrue'
  BY <1>1 DEF NotReached, OwnersTrue
<1>10. Downloading'
  <2>1. entries'[number'].file = n /\ entries'[number'].slug = U!Here.slug
    BY <1>1, <1>2 DEF n
  <2>2. Lone(U!Here.slug) => n = U!BareName(U!Here.slug)
    BY <1>1, <1>2 DEF Downloading, n
  <2> QED
    BY <1>3, <1>4, <1>5, <2>1, <2>2 DEF Downloading, Lone
<1>11. FetchedOnce'
  BY <1>1, <1>6 DEF FetchedOnce, Lone
<1> QED
  BY <1>7, <1>8, <1>9, <1>10, <1>11

\* The file is whole, and counted.
LEMMA UdcWritesRest ==
    ASSUME UdcInv, U!WriteRest
    PROVE  UdcInv'
<1> USE DEF UdcInv
<1> DEFINE n == U!Here.file
           s == U!Here.slug
           e == [U!Here EXCEPT !.status = "downloaded", !.sha = s]
           f == [files[n] EXCEPT !.state = "whole"]
<1>1. /\ pc = "write" /\ pc' = "record" /\ number' = number /\ number <= Len(entries)
      /\ files' = [files EXCEPT ![n].state = "whole"] /\ U!Take(n)
      /\ entries' = [entries EXCEPT ![number].status = "downloaded", ![number].sha = s]
      /\ fetched' = [fetched EXCEPT ![s] = @ + 1]
      /\ site' = site /\ manifest' = manifest /\ prior' = prior /\ page' = page
  BY DEF U!WriteRest, U!DiskUnchanged, U!listVars, UdcTypes, PlaceTypes
<1>2. /\ U!Here \in EntryType /\ TrueIn(U!Here, files) /\ U!Here = entries[number] /\ s \in U!Slugs
  BY <1>1, HereTypes
<1>3. /\ n # U!NoName /\ files[n].state # "whole" /\ n \in U!Names /\ files[n].of = s
      /\ files \in [U!Names -> FileType] /\ files[n] \in FileType
      /\ n \in {U!BareName(s), U!LongName(s)}
      /\ Lone(s) => n = U!BareName(s)
  <2>1. n # U!NoName /\ files[n].state # "whole" /\ files[n].of = s /\ (Lone(s) => n = U!BareName(s))
    BY <1>1, <1>2 DEF Downloading
  <2>2. n \in U!Names /\ n \in {U!BareName(s), U!LongName(s)}
    BY <1>2, <2>1 DEF EntryType, TrueIn
  <2> QED
    BY <2>1, <2>2 DEF UdcTypes, KeptTypes
<1>4. f \in FileType /\ f = [of |-> s, state |-> "whole"] /\ files' = [files EXCEPT ![n] = f]
  <2>1. f = [of |-> files[n].of, state |-> "whole"]
    <3>1. f \in FileType /\ f.state = "whole" /\ f.of = files[n].of
      BY <1>3 DEF FileType
    <3> HIDE DEF f
    <3>2. f = [of |-> f.of, state |-> f.state]
      BY <3>1 DEF FileType
    <3> QED
      BY <3>1, <3>2
  <2>2. files' = [files EXCEPT ![n] = f]
    BY <1>1, <1>3
  <2> HIDE DEF f
  <2> QED
    BY <1>2, <1>3, <2>1, <2>2 DEF FileType
<1>5. entries' = [entries EXCEPT ![number] = e]
  BY <1>1, <1>2 DEF EntryType
<1>6. e \in EntryType /\ e.slug = s /\ e.file = n /\ e.sha = s
  BY <1>2 DEF EntryType
<1> HIDE DEF n, s, e, f
<1>7. files' \in [U!Names -> FileType] /\ files'[n] = f /\ \A k \in U!Names : k # n => files'[k] = files[k]
  BY <1>3, <1>4
<1>8. /\ \A x \in EntryType : TrueIn(x, files) => TrueIn(x, files')
      /\ \A x \in U!Slugs : files[U!BareName(x)].state = "whole" => files'[U!BareName(x)].state = "whole"
  BY <1>3, <1>7, RecordsStay
<1>9. /\ entries' \in Seq(EntryType) /\ Len(entries') = Len(entries) /\ DOMAIN entries' = DOMAIN entries
      /\ number \in Nat /\ number > 0 /\ entries'[number] = e /\ DOMAIN entries \subseteq Nat
      /\ \A i \in DOMAIN entries : i # number => entries'[i] = entries[i]
  <2>1. DOMAIN entries \subseteq Nat
    BY DEF UdcTypes, RunTypes
  <2> QED
    BY <1>1, <1>5, <1>6, <2>1, EntryEdited
<1>10. fetched' \in [U!Slugs -> Nat] /\ fetched'[s] = fetched[s] + 1 /\ fetched[s] \in Nat
       /\ \A x \in U!Slugs : x # s => fetched'[x] = fetched[x]
  BY <1>1, <1>2 DEF UdcTypes, KeptTypes
<1>11. UdcTypes'
  BY <1>1, <1>7, <1>9, <1>10 DEF UdcTypes, KeptTypes, RunTypes, PlaceTypes
<1>12. RecordsTrue'
  <2>1. TrueIn(e, files')
    <3>1. files'[e.file] = [of |-> e.slug, state |-> "whole"]
      BY <1>4, <1>6, <1>7
    <3>2. e.file \in {U!NoName, U!BareName(e.slug), U!LongName(e.slug)} /\ e.file # U!NoName
      BY <1>3, <1>6
    <3> QED
      BY <3>1, <3>2 DEF TrueIn
  <2>2. \A i \in DOMAIN entries' : TrueIn(entries'[i], files')
    BY <1>8, <1>9, <2>1 DEF RecordsTrue, UdcTypes, RunTypes
  <2>3. \A i \in DOMAIN manifest : TrueIn(manifest[i], files')
    BY <1>8 DEF RecordsTrue, UdcTypes, KeptTypes
  <2>4. \A x \in DOMAIN prior : TrueIn(prior[x], files')
    BY <1>8 DEF RecordsTrue, UdcTypes, RunTypes
  <2> QED
    BY <1>1, <2>2, <2>3, <2>4 DEF RecordsTrue
<1>13. NotReached'
  <2>1. ASSUME NEW i \in DOMAIN entries, i > number PROVE entries'[i].sha = ""
    <3>1. i # number
      BY <1>9, <2>1
    <3> QED
      BY <1>9, <2>1, <3>1 DEF NotReached
  <2> QED
    BY <1>1, <1>9, <2>1 DEF NotReached
<1>14. Downloading'
  BY <1>1 DEF Downloading
<1>15. OwnersTrue'
  BY <1>1, <1>2, <1>3, TakesOwn DEF s
<1>16. FetchedOnce'
  <2>1. ASSUME NEW x \in U!Slugs, Lone(x)
        PROVE  fetched'[x] = 0 \/ (fetched'[x] = 1 /\ files'[U!BareName(x)].state = "whole")
    <3>1. CASE x = s
      <4>1. fetched[s] = 0
        BY <1>3, <2>1, <3>1 DEF FetchedOnce
      <4>2. files'[U!BareName(x)] = f
        BY <1>3, <1>7, <2>1, <3>1
      <4> QED
        BY <1>4, <1>10, <3>1, <4>1, <4>2
    <3>2. CASE x # s
      <4>1. fetched[x] = 0 \/ (fetched[x] = 1 /\ files[U!BareName(x)].state = "whole")
        BY <2>1 DEF FetchedOnce, Lone
      <4>2. fetched'[x] = fetched[x]
        BY <1>10, <3>2
      <4> QED
        BY <1>8, <4>1, <4>2
    <3> QED
      BY <3>1, <3>2
  <2> QED
    BY <2>1 DEF FetchedOnce, Lone
<1> QED
  BY <1>11, <1>12, <1>13, <1>14, <1>15, <1>16

\* The list becomes the manifest.
LEMMA UdcRecords ==
    ASSUME UdcInv, U!Record
    PROVE  UdcInv'
<1> USE DEF UdcInv
<1>1. /\ pc = "record" /\ pc' = "entry" /\ number' = number + 1 /\ manifest' = entries /\ number \in Nat
      /\ entries' = entries /\ taken' = taken /\ fetched' = fetched
      /\ site' = site /\ files' = files /\ prior' = prior /\ page' = page
      /\ entries \in Seq(EntryType) /\ DOMAIN entries \subseteq Nat
  BY DEF U!Record, U!listVars, UdcTypes, RunTypes, PlaceTypes
<1>2. UdcTypes'
  BY <1>1 DEF UdcTypes, KeptTypes, RunTypes, PlaceTypes
<1>3. RecordsTrue' /\ OwnersTrue' /\ FetchedOnce' /\ Downloading'
  BY <1>1 DEF RecordsTrue, OwnersTrue, FetchedOnce, Downloading
<1>4. NotReached'
  <2>1. \A i \in DOMAIN entries : i >= number + 1 => i > number
    BY <1>1
  <2>2. \A i \in DOMAIN entries : i > number + 1 \/ i = number + 1 => i >= number + 1
    BY <1>1
  <2> QED
    BY <1>1, <2>1, <2>2 DEF NotReached
<1> QED
  BY <1>2, <1>3, <1>4

\* Every step of the mirror, of the site, and every kill.
LEMMA UdcKeepsInv ==
    ASSUME UdcInv, U!Next \/ UNCHANGED udcVars
    PROVE  UdcInv'
<1>1. CASE U!Begin \/ U!ReadPage
  BY <1>1, UdcLists
<1>2. CASE U!Listed
  BY <1>2, UdcListed
<1>3. CASE U!Reuse
  BY <1>3, UdcReuses
<1>4. CASE U!PageFails \/ U!PostFails \/ U!WriteFails
  BY <1>4, UdcFails
<1>5. CASE U!OpenPage
  BY <1>5, UdcOpens
<1>6. CASE U!Post \/ U!WriteSome
  BY <1>6, UdcWrites
<1>7. CASE U!WriteRest
  BY <1>7, UdcWritesRest
<1>8. CASE U!Record
  BY <1>8, UdcRecords
<1>9. CASE U!ListingFails \/ U!Finish \/ U!Kill
  BY <1>9, UdcIdles DEF U!ListingFails, U!Finish, U!Kill
<1>10. CASE U!Publish
  <2>1. site' \in Seq(U!Slugs)
    <3>1. PICK s \in NewEntries : site' = <<s>> \o site
      BY <1>10 DEF U!Publish
    <3>2. s \in U!Slugs /\ site \in Seq(U!Slugs)
      BY DEF U!Slugs, UdcInv, UdcTypes, KeptTypes
    <3> QED
      BY <3>1, <3>2
  <2>2. UNCHANGED <<files, manifest, pc, page, entries, number, taken, prior, fetched>>
    BY <1>10 DEF U!Publish, U!listVars, U!runVars
  <2>3. UdcTypes'
    BY <2>1, <2>2 DEF UdcInv, UdcTypes, KeptTypes, RunTypes, PlaceTypes
  <2> QED
    BY <2>2, <2>3 DEF UdcInv, RecordsTrue, NotReached, Downloading, OwnersTrue, FetchedOnce
<1>11. CASE UNCHANGED <<site, files, manifest, pc, page, entries, number, taken, prior, fetched>>
  BY <1>11 DEF UdcInv, UdcTypes, KeptTypes, RunTypes, PlaceTypes, RecordsTrue, NotReached, Downloading, OwnersTrue,
               FetchedOnce
<1>12. UNCHANGED udcVars \/ UNCHANGED U!vars => UNCHANGED <<site, files, manifest, pc, page, entries, number, taken, prior, fetched>>
  BY DEF udcVars, U!vars, U!listVars, U!runVars
<1> QED
  BY <1>1, <1>2, <1>3, <1>4, <1>5, <1>6, <1>7, <1>8, <1>9, <1>10, <1>11, <1>12 DEF U!Next, U!Run

------------------------------------------------------------------------------
\* QrzNames

NameEntry == [page : DOMAIN Pages \cup {Unknown}, ts : Nat, geo : BOOLEAN]
HeldType  == [Calls -> [DOMAIN Pages -> Int]]

\* The world remembers what it holds.
WorldInv ==
    /\ day \in Nat /\ qrz \in [Calls -> DOMAIN Pages] /\ lastHeld \in HeldType
    /\ \A c \in Calls : lastHeld[c][qrz[c]] = day
    /\ \A c \in Calls, p \in DOMAIN Pages : lastHeld[c][p] <= day

\* A cached page was held on its day.
CachedIn(f, held) ==
    \A c \in DOMAIN f : /\ c \in Calls /\ f[c] \in NameEntry
                        /\ f[c].page # Unknown => held[c][f[c].page] >= f[c].ts

\* A page showing x was held for c no more than days before d.
NameSince(c, x, d, held) ==
    \E p \in DOMAIN Pages \ {Unknown} : /\ Pages[p].onAir = x /\ held[c][p] >= 0
                                        /\ HitDays = 0 \/ held[c][p] >= d - HitDays
PlaceSince(c, x, d, held) ==
    \E p \in DOMAIN Pages \ {Unknown} : /\ Pages[p].place = x /\ held[c][p] >= 0
                                        /\ GeoDays = 0 \/ held[c][p] >= d - GeoDays
NamesSince(list, d, held)  == \A c \in DOMAIN list : c \in Calls /\ NameSince(c, list[c], d, held)
PlacesSince(list, d, held) == \A c \in DOMAIN list : c \in Calls /\ PlaceSince(c, list[c], d, held)

Writing == {"names", "fill names", "places", "fill places"}
PassTypes ==
    /\ phase \in {"idle", "looking", "asking", "saving"} \cup Writing
    /\ todo \in Seq(Calls)
    /\ phase = "asking" => todo # <<>>
    /\ phase = "idle" => rows = <<>> /\ geoRows = <<>>
    /\ phase # "idle" => now = day /\ opts \in [limit : Nat, cacheOnly : BOOLEAN, geo : BOOLEAN]
    /\ phase \in Writing => todo = <<>> /\ disk = cache
OutputTypes ==
    /\ DOMAIN csv = {"rows", "day", "full"} /\ csv.day \in Int
    /\ DOMAIN geoCsv = {"rows", "day", "full"} /\ geoCsv.day \in Int

\* The tool reads a page as its reader would, or finds nothing.
ReadRight ==
    \A p \in DOMAIN Pages \ {Unknown} :
        /\ NameFrom(Pages[p].fields) \in {"", Pages[p].onAir}
        /\ GeoFromEntry(Pages[p].fields, Table) \in {NoGeo, Pages[p].place}

CachesTrue == CachedIn(cache, lastHeld) /\ CachedIn(disk, lastHeld)
RowsRecent == ReadRight => NamesSince(rows, day, lastHeld) /\ PlacesSince(geoRows, day, lastHeld)
ListsRecent == ReadRight => NamesSince(csv.rows, csv.day, lastHeld) /\ PlacesSince(geoCsv.rows, geoCsv.day, lastHeld)

\* A call not dealt with is still to do, and not listed.
LeftIn(s, c) == \E i \in DOMAIN s : s[i] = c
Left(c) == LeftIn(todo, c)
NoneSkipped ==
    /\ \A i, j \in DOMAIN todo : todo[i] = todo[j] => i = j
    /\ \A c \in DOMAIN rows : c \in Calls /\ ~Left(c)
    /\ phase # "idle" /\ Full =>
          \A c \in Calls : Left(c) \/ (c \in DOMAIN cache /\ (c \in DOMAIN rows <=> NameOf(cache[c]) # ""))

QrzInv == WorldInv /\ PassTypes /\ OutputTypes /\ CachesTrue /\ RowsRecent /\ ListsRecent /\ NoneSkipped

\* A function with one value more or another one.
LEMMA WithMore ==
    ASSUME NEW f, NEW c, NEW v
    PROVE  /\ DOMAIN With(f, c, v) = DOMAIN f \cup {c}
           /\ With(f, c, v)[c] = v
           /\ \A x \in DOMAIN f : x # c => With(f, c, v)[x] = f[x]
BY DEF With

\* What was true of what was held is true while more is held.
LEMMA HeldLater ==
    ASSUME NEW held, NEW later, \A c \in Calls, p \in DOMAIN Pages : later[c][p] >= held[c][p],
           held \in HeldType, later \in HeldType
    PROVE  /\ \A f : CachedIn(f, held) => CachedIn(f, later)
           /\ \A list : \A d \in Int : NamesSince(list, d, held) => NamesSince(list, d, later)
           /\ \A list : \A d \in Int : PlacesSince(list, d, held) => PlacesSince(list, d, later)
<1>1. ASSUME NEW f, CachedIn(f, held) PROVE CachedIn(f, later)
  <2> SUFFICES ASSUME NEW c \in DOMAIN f, f[c].page # Unknown PROVE later[c][f[c].page] >= f[c].ts
    BY <1>1 DEF CachedIn
  <2>1. c \in Calls /\ f[c].page \in DOMAIN Pages /\ f[c].ts \in Int /\ held[c][f[c].page] >= f[c].ts
    BY <1>1 DEF CachedIn, NameEntry
  <2>2. held[c][f[c].page] \in Int /\ later[c][f[c].page] \in Int /\ later[c][f[c].page] >= held[c][f[c].page]
    BY <2>1 DEF HeldType
  <2> QED
    BY <2>1, <2>2
<1>2. \A c \in Calls, p \in DOMAIN Pages : held[c][p] \in Int /\ later[c][p] \in Int
  BY DEF HeldType
<1>3. HitDays \in Int /\ GeoDays \in Int
  BY QrzAssumption
<1>4. ASSUME NEW list, NEW d \in Int, NamesSince(list, d, held) PROVE NamesSince(list, d, later)
  <2> SUFFICES ASSUME NEW c \in DOMAIN list PROVE c \in Calls /\ NameSince(c, list[c], d, later)
    BY DEF NamesSince
  <2>1. c \in Calls /\ NameSince(c, list[c], d, held)
    BY <1>4 DEF NamesSince
  <2>2. PICK p \in DOMAIN Pages \ {Unknown} :
             Pages[p].onAir = list[c] /\ held[c][p] >= 0 /\ (HitDays = 0 \/ held[c][p] >= d - HitDays)
    BY <2>1 DEF NameSince
  <2>3. held[c][p] \in Int /\ later[c][p] \in Int /\ later[c][p] >= held[c][p]
    BY <1>2, <2>1
  <2>4. later[c][p] >= 0 /\ (HitDays = 0 \/ later[c][p] >= d - HitDays)
    BY <1>3, <2>2, <2>3
  <2>5. Pages[p].onAir = list[c]
    BY <2>2
  <2>6. NameSince(c, list[c], d, later)
    BY <2>4, <2>5 DEF NameSince
  <2> QED
    BY <2>1, <2>6
<1>5. ASSUME NEW list, NEW d \in Int, PlacesSince(list, d, held) PROVE PlacesSince(list, d, later)
  <2> SUFFICES ASSUME NEW c \in DOMAIN list PROVE c \in Calls /\ PlaceSince(c, list[c], d, later)
    BY DEF PlacesSince
  <2>1. c \in Calls /\ PlaceSince(c, list[c], d, held)
    BY <1>5 DEF PlacesSince
  <2>2. PICK p \in DOMAIN Pages \ {Unknown} :
             Pages[p].place = list[c] /\ held[c][p] >= 0 /\ (GeoDays = 0 \/ held[c][p] >= d - GeoDays)
    BY <2>1 DEF PlaceSince
  <2>3. held[c][p] \in Int /\ later[c][p] \in Int /\ later[c][p] >= held[c][p]
    BY <1>2, <2>1
  <2>4. later[c][p] >= 0 /\ (GeoDays = 0 \/ later[c][p] >= d - GeoDays)
    BY <1>3, <2>2, <2>3
  <2>5. Pages[p].place = list[c]
    BY <2>2
  <2>6. PlaceSince(c, list[c], d, later)
    BY <2>4, <2>5 DEF PlaceSince
  <2> QED
    BY <2>1, <2>6
<1> QED
  BY <1>1, <1>4, <1>5

\* A page that changes, and a day that begins.
LEMMA QrzMoves ==
    ASSUME QrzInv, PageChanges \/ NextDay
    PROVE  QrzInv'
<1> USE DEF QrzInv
<1>1. /\ phase = "idle" /\ phase' = phase /\ rows' = rows /\ geoRows' = geoRows /\ todo' = todo
      /\ csv' = csv /\ geoCsv' = geoCsv /\ cache' = cache /\ disk' = disk
      /\ lastHeld' = HeldToday(day', qrz') /\ rows = <<>> /\ geoRows = <<>>
  BY DEF PageChanges, NextDay, run, outputs, PassTypes
<1>2. day' \in Nat /\ day' >= day /\ qrz' \in [Calls -> DOMAIN Pages] /\ day \in Nat
  <2>1. CASE PageChanges
    BY <2>1 DEF PageChanges, WorldInv
  <2>2. CASE NextDay
    BY <2>2 DEF NextDay, WorldInv
  <2> QED
    BY <2>1, <2>2
<1>3. lastHeld \in HeldType /\ \A c \in Calls, p \in DOMAIN Pages : lastHeld[c][p] \in Int /\ lastHeld[c][p] <= day
  BY DEF WorldInv, HeldType
<1>4. lastHeld' \in HeldType
  BY <1>1, <1>2, <1>3 DEF HeldToday, HeldType
<1>5. ASSUME NEW c \in Calls, NEW p \in DOMAIN Pages
      PROVE  lastHeld'[c][p] = IF p = qrz'[c] THEN day' ELSE lastHeld[c][p]
  BY <1>1, <1>2, <1>3 DEF HeldToday, HeldType
<1>6. WorldInv'
  BY <1>2, <1>3, <1>4, <1>5 DEF WorldInv
<1>7. \A c \in Calls, p \in DOMAIN Pages : lastHeld'[c][p] >= lastHeld[c][p]
  BY <1>2, <1>3, <1>5
<1>8. /\ \A f : CachedIn(f, lastHeld) => CachedIn(f, lastHeld')
      /\ \A list : \A d \in Int : NamesSince(list, d, lastHeld) => NamesSince(list, d, lastHeld')
      /\ \A list : \A d \in Int : PlacesSince(list, d, lastHeld) => PlacesSince(list, d, lastHeld')
  BY <1>3, <1>4, <1>7, HeldLater
<1>9. PassTypes' /\ OutputTypes'
  BY <1>1 DEF PassTypes, OutputTypes, Writing
<1>10. CachesTrue' /\ ListsRecent'
  BY <1>1, <1>8 DEF CachesTrue, ListsRecent, OutputTypes
<1>11. RowsRecent'
  <2>1. DOMAIN rows' = {} /\ DOMAIN geoRows' = {}
    BY <1>1
  <2> QED
    BY <2>1 DEF RowsRecent, NamesSince, PlacesSince
<1>12. NoneSkipped'
  BY <1>1 DEF NoneSkipped, Left
<1> QED
  BY <1>6, <1>9, <1>10, <1>11, <1>12

\* The head of a list without repetitions is not in its tail.
LEMMA HeadLeaves ==
    ASSUME NEW S, NEW s \in Seq(S), s # <<>>, \A i, j \in DOMAIN s : s[i] = s[j] => i = j
    PROVE  /\ Tail(s) \in Seq(S) /\ Head(s) \in S /\ LeftIn(s, Head(s))
           /\ \A i, j \in DOMAIN Tail(s) : Tail(s)[i] = Tail(s)[j] => i = j
           /\ \A c : LeftIn(Tail(s), c) <=> (LeftIn(s, c) /\ c # Head(s))
<1>1. /\ Len(s) \in Nat /\ Len(s) > 0 /\ DOMAIN s = 1 .. Len(s) /\ Head(s) = s[1] /\ Head(s) \in S
      /\ Tail(s) \in Seq(S) /\ DOMAIN Tail(s) = 1 .. (Len(s) - 1)
      /\ \A i \in 1 .. (Len(s) - 1) : Tail(s)[i] = s[i + 1]
  OBVIOUS
<1>2. LeftIn(s, Head(s))
  <2>1. 1 \in DOMAIN s
    BY <1>1
  <2> QED
    BY <1>1, <2>1 DEF LeftIn
<1>3. \A i \in DOMAIN Tail(s) : i + 1 \in DOMAIN s /\ i + 1 # 1 /\ Tail(s)[i] = s[i + 1] /\ i \in Int
  BY <1>1
<1>4. \A i, j \in DOMAIN Tail(s) : Tail(s)[i] = Tail(s)[j] => i = j
  <2> SUFFICES ASSUME NEW i \in DOMAIN Tail(s), NEW j \in DOMAIN Tail(s), Tail(s)[i] = Tail(s)[j] PROVE i = j
    OBVIOUS
  <2>1. i + 1 = j + 1
    BY <1>3
  <2> QED
    BY <1>3, <2>1
<1>5. ASSUME NEW c, LeftIn(Tail(s), c) PROVE LeftIn(s, c) /\ c # Head(s)
  <2>1. PICK i \in DOMAIN Tail(s) : Tail(s)[i] = c
    BY <1>5 DEF LeftIn
  <2>2. i + 1 \in DOMAIN s /\ i + 1 # 1 /\ s[i + 1] = c /\ 1 \in DOMAIN s
    BY <1>1, <1>3, <2>1
  <2>3. c # s[1]
    BY <2>2
  <2> QED
    BY <1>1, <2>2, <2>3 DEF LeftIn
<1>6. ASSUME NEW c, LeftIn(s, c), c # Head(s) PROVE LeftIn(Tail(s), c)
  <2>1. PICK i \in DOMAIN s : s[i] = c
    BY <1>6 DEF LeftIn
  <2>2. i # 1 /\ i \in 1 .. Len(s)
    BY <1>1, <1>6, <2>1
  <2>3. i - 1 \in 1 .. (Len(s) - 1) /\ (i - 1) + 1 = i
    BY <1>1, <2>2
  <2>4. i - 1 \in DOMAIN Tail(s) /\ Tail(s)[i - 1] = c
    BY <1>1, <2>1, <2>3
  <2> QED
    BY <2>4 DEF LeftIn
<1> QED
  BY <1>1, <1>2, <1>4, <1>5, <1>6

\* A page held on its entry's day is held as lately as the entry is.
LEMMA Lately ==
    ASSUME NEW a \in Int, NEW t \in Nat, NEW d \in Nat, NEW n \in Nat, a >= t, n = 0 \/ d - t <= n
    PROVE  a >= 0 /\ (n = 0 \/ a >= d - n)
OBVIOUS

\* A call is listed for its name.
LEMMA ListsName ==
    ASSUME NEW c, NEW e, Listing(c, e)
    PROVE  \A x : x \in DOMAIN rows' <=> (x \in DOMAIN rows \/ (x = c /\ NameOf(e) # ""))
<1>1. CASE NameOf(e) # ""
  BY <1>1 DEF Listing, With
<1>2. CASE NameOf(e) = ""
  BY <1>2 DEF Listing
<1> QED
  BY <1>1, <1>2

\* An entry listed is of a page held lately, and read right.
LEMMA ListsRight ==
    ASSUME ReadRight, QrzInv, NEW c \in Calls, NEW e \in NameEntry, Listing(c, e), now = day,
           opts.geo \in BOOLEAN,
           e.page # Unknown => lastHeld[c][e.page] >= e.ts,
           NameOf(e) # "" => Within(e, HitDays),
           opts.geo /\ e.geo => Within(e, GeoDays)
    PROVE  NamesSince(rows', day, lastHeld) /\ PlacesSince(geoRows', day, lastHeld)
<1> DEFINE p == e.page
<1>1. /\ day \in Nat /\ HitDays \in Nat /\ GeoDays \in Nat /\ e.ts \in Nat
      /\ NamesSince(rows, day, lastHeld) /\ PlacesSince(geoRows, day, lastHeld)
  BY QrzAssumption DEF QrzInv, WorldInv, RowsRecent, NameEntry
<1>2. p # Unknown => p \in DOMAIN Pages \ {Unknown} /\ lastHeld[c][p] \in Int /\ lastHeld[c][p] >= e.ts
  BY DEF NameEntry, QrzInv, WorldInv, HeldType
<1>3. ASSUME NameOf(e) # "" PROVE NameSince(c, NameOf(e), day, lastHeld)
  <2>1. p # Unknown /\ NameOf(e) = NameFrom(Pages[p].fields)
    BY <1>3 DEF NameOf
  <2>2. Pages[p].onAir = NameOf(e)
    BY <1>2, <1>3, <2>1 DEF ReadRight
  <2>3. lastHeld[c][p] >= 0 /\ (HitDays = 0 \/ lastHeld[c][p] >= day - HitDays)
    <3>1. lastHeld[c][p] \in Int /\ lastHeld[c][p] >= e.ts
      BY <1>2, <2>1
    <3>2. HitDays = 0 \/ day - e.ts <= HitDays
      BY <1>3 DEF Within
    <3>3. day \in Nat /\ HitDays \in Nat /\ e.ts \in Nat
      <4>1. day \in Nat
        BY DEF QrzInv, WorldInv
      <4>2. HitDays \in Nat
        BY QrzAssumption
      <4>3. e.ts \in Nat
        BY DEF NameEntry
      <4> QED
        BY <4>1, <4>2, <4>3
    <3> HIDE DEF p
    <3> QED
      BY <3>1, <3>2, <3>3, Lately
  <2> HIDE DEF p
  <2> QED
    BY <1>2, <2>1, <2>2, <2>3 DEF NameSince
<1>4. ASSUME opts.geo, e.geo, GeoOf(e) # NoGeo PROVE PlaceSince(c, GeoOf(e), day, lastHeld)
  <2>1. p # Unknown /\ GeoOf(e) = GeoFromEntry(Pages[p].fields, Table)
    BY <1>4 DEF GeoOf
  <2>2. Pages[p].place = GeoOf(e)
    BY <1>2, <1>4, <2>1 DEF ReadRight
  <2>3. lastHeld[c][p] >= 0 /\ (GeoDays = 0 \/ lastHeld[c][p] >= day - GeoDays)
    <3>1. lastHeld[c][p] \in Int /\ lastHeld[c][p] >= e.ts
      BY <1>2, <2>1
    <3>2. GeoDays = 0 \/ day - e.ts <= GeoDays
      BY <1>4 DEF Within
    <3>3. day \in Nat /\ GeoDays \in Nat /\ e.ts \in Nat
      <4>1. day \in Nat
        BY DEF QrzInv, WorldInv
      <4>2. GeoDays \in Nat
        BY QrzAssumption
      <4>3. e.ts \in Nat
        BY DEF NameEntry
      <4> QED
        BY <4>1, <4>2, <4>3
    <3> HIDE DEF p
    <3> QED
      BY <3>1, <3>2, <3>3, Lately
  <2> HIDE DEF p
  <2> QED
    BY <1>2, <2>1, <2>2, <2>3 DEF PlaceSince
<1>5. NamesSince(rows', day, lastHeld)
  <2>1. CASE NameOf(e) # ""
    <3>1. rows' = With(rows, c, NameOf(e))
      BY <2>1 DEF Listing
    <3>2. /\ DOMAIN rows' = DOMAIN rows \cup {c} /\ rows'[c] = NameOf(e)
          /\ \A x \in DOMAIN rows : x # c => rows'[x] = rows[x]
      BY <3>1 DEF With
    <3>3. NameSince(c, NameOf(e), day, lastHeld)
      BY <1>3, <2>1
    <3>4. ASSUME NEW x \in DOMAIN rows' PROVE x \in Calls /\ NameSince(x, rows'[x], day, lastHeld)
      BY <1>1, <3>2, <3>3, <3>4 DEF NamesSince
    <3> QED
      BY <2>1, <3>2, <3>4 DEF NamesSince
  <2>2. CASE NameOf(e) = ""
    BY <1>1, <2>2 DEF Listing
  <2> QED
    BY <2>1, <2>2
<1>6. PlacesSince(geoRows', day, lastHeld)
  <2>1. CASE opts.geo /\ e.geo /\ GeoOf(e) # NoGeo
    <3>1. geoRows' = With(geoRows, c, GeoOf(e))
      BY <2>1 DEF Listing
    <3>2. /\ DOMAIN geoRows' = DOMAIN geoRows \cup {c} /\ geoRows'[c] = GeoOf(e)
          /\ \A x \in DOMAIN geoRows : x # c => geoRows'[x] = geoRows[x]
      BY <3>1 DEF With
    <3>3. PlaceSince(c, GeoOf(e), day, lastHeld)
      BY <1>4, <2>1
    <3>4. ASSUME NEW x \in DOMAIN geoRows' PROVE x \in Calls /\ PlaceSince(x, geoRows'[x], day, lastHeld)
      BY <1>1, <3>2, <3>3, <3>4 DEF PlacesSince
    <3> QED
      BY <2>1, <3>2, <3>4 DEF PlacesSince
  <2>2. CASE ~(opts.geo /\ e.geo /\ GeoOf(e) # NoGeo)
    BY <1>1, <2>2 DEF Listing
  <2> QED
    BY <2>1, <2>2
<1> QED
  BY <1>5, <1>6

\* One call is dealt with: what the cache says of it afterwards is listed.
LEMMA OneDone ==
    ASSUME QrzInv, phase # "idle", phase' # "idle", todo # <<>>, todo' = Tail(todo), UNCHANGED <<opts, stopped>>,
           Call \in DOMAIN cache', \A c \in Calls : c # Call => (c \in DOMAIN cache' <=> c \in DOMAIN cache),
           \A c \in DOMAIN cache : c # Call => cache'[c] = cache[c],
           \A x : x \in DOMAIN rows' <=> (x \in DOMAIN rows \/ (x = Call /\ NameOf(cache'[Call]) # ""))
    PROVE  NoneSkipped'
<1>1. /\ todo \in Seq(Calls) /\ \A i, j \in DOMAIN todo : todo[i] = todo[j] => i = j
  BY DEF QrzInv, PassTypes, NoneSkipped
<1>2. /\ LeftIn(todo, Call) /\ Call \in Calls
      /\ \A i, j \in DOMAIN todo' : todo'[i] = todo'[j] => i = j
      /\ \A c : LeftIn(todo', c) <=> (LeftIn(todo, c) /\ c # Call)
  BY <1>1, HeadLeaves DEF Call
<1>3. ASSUME NEW c \in DOMAIN rows' PROVE c \in Calls /\ ~LeftIn(todo', c)
  BY <1>2, <1>3 DEF QrzInv, NoneSkipped, Left
<1>4. ASSUME Full', NEW c \in Calls, ~LeftIn(todo', c)
      PROVE  c \in DOMAIN cache' /\ (c \in DOMAIN rows' <=> NameOf(cache'[c]) # "")
  <2>1. CASE c = Call
    <3>1. c \notin DOMAIN rows
      BY <1>2, <2>1 DEF QrzInv, NoneSkipped, Left
    <3> QED
      BY <2>1, <3>1
  <2>2. CASE c # Call
    <3>1. Full /\ ~LeftIn(todo, c)
      BY <1>2, <1>4, <2>2 DEF Full
    <3>2. c \in DOMAIN cache /\ (c \in DOMAIN rows <=> NameOf(cache[c]) # "")
      BY <3>1 DEF QrzInv, NoneSkipped, Left
    <3>3. c \in DOMAIN cache' /\ cache'[c] = cache[c]
      BY <2>2, <3>2
    <3>4. c \in DOMAIN rows' <=> c \in DOMAIN rows
      BY <2>2
    <3> QED
      BY <3>2, <3>3, <3>4, Zenon
  <2> QED
    BY <2>1, <2>2
<1> QED
  BY <1>2, <1>3, <1>4 DEF NoneSkipped, Left, NameOf

\* Between runs nothing is collected.
LEMMA EmptyPass ==
    ASSUME rows = <<>>, geoRows = <<>>, todo = <<>>, cache = <<>>, phase = "idle"
    PROVE  /\ RowsRecent /\ NoneSkipped /\ PassTypes /\ \A held : CachedIn(cache, held)
<1>1. DOMAIN rows = {} /\ DOMAIN geoRows = {} /\ DOMAIN todo = {} /\ DOMAIN cache = {}
  OBVIOUS
<1> QED
  BY <1>1 DEF RowsRecent, NamesSince, PlacesSince, NoneSkipped, PassTypes, CachedIn, Writing

\* At first QRZ has shown what the old cache holds.
LEMMA QrzStarts == Init => QrzInv
<1> SUFFICES ASSUME Init PROVE QrzInv
  OBVIOUS
<1>1. qrz \in [Calls -> DOMAIN Pages]
  BY QrzAssumption DEF Init
<1>2. /\ day = 0 /\ rows = <<>> /\ geoRows = <<>> /\ todo = <<>> /\ cache = <<>> /\ phase = "idle"
      /\ csv = Torn /\ geoCsv = Torn
      /\ lastHeld = [c \in Calls |-> [p \in DOMAIN Pages |-> IF p = qrz[c] THEN 0 ELSE -1]]
  BY DEF Init
<1>3. WorldInv
  BY <1>1, <1>2 DEF WorldInv, HeldType
<1>4. PICK old \in SUBSET Calls : disk = [c \in old |-> [page |-> qrz[c], ts |-> 0, geo |-> FALSE]]
  BY DEF Init
<1>5. CachedIn(disk, lastHeld)
  <2> SUFFICES ASSUME NEW c \in DOMAIN disk
               PROVE  c \in Calls /\ disk[c] \in NameEntry /\ lastHeld[c][disk[c].page] >= disk[c].ts
    BY DEF CachedIn
  <2>1. c \in Calls /\ disk[c] = [page |-> qrz[c], ts |-> 0, geo |-> FALSE] /\ qrz[c] \in DOMAIN Pages
    BY <1>1, <1>4
  <2>2. disk[c] \in NameEntry /\ disk[c].page = qrz[c] /\ disk[c].ts = 0
    BY <2>1 DEF NameEntry
  <2>3. lastHeld[c][qrz[c]] = 0
    BY <1>2, <2>1
  <2> QED
    BY <2>1, <2>2, <2>3
<1>6. /\ csv = [rows |-> <<>>, day |-> 0, full |-> FALSE] /\ geoCsv = [rows |-> <<>>, day |-> 0, full |-> FALSE]
      /\ csv.rows = <<>> /\ geoCsv.rows = <<>> /\ DOMAIN csv.rows = {} /\ DOMAIN geoCsv.rows = {}
  BY <1>2 DEF Torn
<1>7. OutputTypes /\ ListsRecent
  BY <1>6 DEF OutputTypes, ListsRecent, NamesSince, PlacesSince
<1> QED
  BY <1>2, <1>3, <1>5, <1>7, EmptyPass DEF QrzInv, CachesTrue

\* The process is gone; the outputs are as they were, or filled.
LEMMA QrzIdles ==
    ASSUME QrzInv, UNCHANGED world, Idle, disk' \in {disk, cache}, OutputTypes', ListsRecent'
    PROVE  QrzInv'
<1>1. /\ rows' = <<>> /\ geoRows' = <<>> /\ todo' = <<>> /\ cache' = <<>> /\ phase' = "idle"
      /\ lastHeld' = lastHeld /\ day' = day /\ qrz' = qrz
  BY DEF Idle, Goto, world
<1>2. /\ RowsRecent' /\ NoneSkipped' /\ PassTypes' /\ CachedIn(cache', lastHeld)
  <2>1. DOMAIN rows' = {} /\ DOMAIN geoRows' = {} /\ DOMAIN todo' = {} /\ DOMAIN cache' = {}
    BY <1>1
  <2> QED
    BY <1>1, <2>1 DEF RowsRecent, NamesSince, PlacesSince, NoneSkipped, PassTypes, CachedIn, Writing
<1>3. WorldInv'
  BY <1>1 DEF QrzInv, WorldInv
<1>4. CachesTrue'
  BY <1>1, <1>2 DEF QrzInv, CachesTrue
<1> QED
  BY <1>2, <1>3, <1>4 DEF QrzInv

\* A run begins with every call to do.
LEMMA QrzBegins ==
    ASSUME QrzInv, Start
    PROVE  QrzInv'
<1> USE DEF QrzInv
<1>1. /\ phase = "idle" /\ phase' = "looking" /\ cache' = disk /\ disk' = disk /\ todo' = Candidates /\ now' = day
      /\ opts' \in [limit : Nat, cacheOnly : BOOLEAN, geo : BOOLEAN]
      /\ lastHeld' = lastHeld /\ day' = day /\ qrz' = qrz /\ csv' = csv /\ geoCsv' = geoCsv
      /\ rows' = <<>> /\ geoRows' = <<>> /\ DOMAIN rows' = {} /\ DOMAIN geoRows' = {}
  BY QrzAssumption DEF Start, Goto, world, outputs, PassTypes
<1>2. Candidates \in Seq(Calls) /\ \A i, j \in DOMAIN Candidates : Candidates[i] = Candidates[j] => i = j
  BY QrzAssumption DEF IsInjective
<1>3. \A c \in Calls : LeftIn(Candidates, c)
  BY DEF Calls, ToSet, LeftIn
<1>4. WorldInv' /\ OutputTypes' /\ ListsRecent'
  BY <1>1 DEF WorldInv, OutputTypes, ListsRecent
<1>5. PassTypes'
  BY <1>1, <1>2 DEF PassTypes, Writing
<1>6. CachesTrue' /\ RowsRecent'
  BY <1>1 DEF CachesTrue, RowsRecent, NamesSince, PlacesSince
<1>7. NoneSkipped'
  BY <1>1, <1>2, <1>3 DEF NoneSkipped, Left
<1> QED
  BY <1>4, <1>5, <1>6, <1>7

\* Without credentials the lists are emptied.
LEMMA QrzRefused ==
    ASSUME QrzInv, NoCredentials
    PROVE  QrzInv'
<1> USE DEF QrzInv
<1>1. /\ UNCHANGED <<world, disk, cache, run>> /\ csv' = [csv EXCEPT !.rows = <<>>, !.full = FALSE]
      /\ geoCsv' \in {geoCsv, [geoCsv EXCEPT !.rows = <<>>]}
  BY DEF NoCredentials
<1>2. WorldInv' /\ PassTypes' /\ CachesTrue' /\ RowsRecent' /\ NoneSkipped'
  BY <1>1 DEF world, run, WorldInv, PassTypes, CachesTrue, RowsRecent, NoneSkipped, Left, Full
<1>3. /\ csv'.rows = <<>> /\ csv'.day = csv.day /\ DOMAIN csv' = DOMAIN csv
      /\ \/ geoCsv' = geoCsv
         \/ geoCsv'.rows = <<>> /\ geoCsv'.day = geoCsv.day /\ DOMAIN geoCsv' = DOMAIN geoCsv
  BY <1>1 DEF OutputTypes
<1>4. lastHeld' = lastHeld /\ DOMAIN <<>> = {}
  BY <1>1 DEF world
<1>5. OutputTypes'
  BY <1>3 DEF OutputTypes
<1>6. NamesSince(csv'.rows, csv'.day, lastHeld)
  BY <1>3, <1>4 DEF NamesSince
<1>7. ReadRight => PlacesSince(geoCsv'.rows, geoCsv'.day, lastHeld)
  <2>1. CASE geoCsv' = geoCsv
    BY <2>1 DEF ListsRecent
  <2>2. CASE geoCsv'.rows = <<>>
    BY <1>4, <2>2 DEF PlacesSince
  <2> QED
    BY <1>3, <2>1, <2>2
<1> QED
  BY <1>2, <1>4, <1>5, <1>6, <1>7 DEF ListsRecent

\* The run goes on to another step, nothing more dealt with.
LEMMA QrzGoesOn ==
    ASSUME QrzInv, phase # "idle", UNCHANGED <<world, cache, todo, opts, now, rows, geoRows, stopped>>,
           disk' \in {disk, cache}, phase' \in {"looking", "asking", "saving"} \cup Writing,
           phase' = "asking" => todo # <<>>, phase' \in Writing => todo = <<>> /\ disk' = cache,
           OutputTypes', ListsRecent'
    PROVE  QrzInv'
<1> USE DEF QrzInv
<1>1. WorldInv'
  BY DEF WorldInv, world
<1>2. PassTypes'
  BY DEF PassTypes, Writing, world
<1>3. CachesTrue' /\ RowsRecent'
  BY DEF CachesTrue, RowsRecent, world
<1>4. NoneSkipped'
  BY DEF NoneSkipped, Left, Full
<1> QED
  BY <1>1, <1>2, <1>3, <1>4

\* The steps that ask and save.
LEMMA QrzAsks ==
    ASSUME QrzInv, Ask \/ Session \/ SessionExpired \/ Save \/ Close
    PROVE  QrzInv'
<1>1. /\ UNCHANGED <<world, cache, todo, opts, now, rows, geoRows, stopped, outputs>> /\ disk' \in {disk, cache}
      /\ phase # "idle" /\ phase' \in {"looking", "asking", "saving"} \cup Writing
      /\ phase' = "asking" => todo # <<>>
      /\ phase' \in Writing => todo = <<>> /\ disk' = cache
  <2>1. phase = "asking" => todo # <<>>
    BY DEF QrzInv, PassTypes
  <2>2. CASE Ask
    BY <2>2 DEF Ask, Looking, Goto, Writing
  <2>3. CASE Session
    BY <2>1, <2>3 DEF Session, Requesting, Writing
  <2>4. CASE SessionExpired
    BY <2>1, <2>4 DEF SessionExpired, Requesting, Writing
  <2>5. CASE Save
    BY <2>5 DEF Save, Goto, Writing
  <2>6. CASE Close
    BY <2>6 DEF Close, Goto, Writing
  <2> QED
    BY <2>2, <2>3, <2>4, <2>5, <2>6
<1>2. OutputTypes' /\ ListsRecent'
  BY <1>1 DEF QrzInv, OutputTypes, ListsRecent, world, outputs
<1> QED
  BY <1>1, <1>2, QrzGoesOn

\* An output file is emptied.
LEMMA QrzOpens ==
    ASSUME QrzInv, OpenNames \/ OpenPlaces
    PROVE  QrzInv'
<1>1. /\ UNCHANGED <<world, disk, cache, todo, opts, now, rows, geoRows, stopped>>
      /\ phase \in Writing /\ phase' \in Writing /\ phase' # "asking" /\ phase # "idle"
      /\ csv' \in {csv, Torn} /\ geoCsv' \in {geoCsv, Torn}
  BY DEF OpenNames, OpenPlaces, Goto, Writing
<1>2. todo = <<>> /\ disk = cache
  BY <1>1 DEF QrzInv, PassTypes
<1>3. Torn.rows = <<>> /\ Torn.day = 0 /\ DOMAIN Torn = {"rows", "day", "full"} /\ DOMAIN <<>> = {}
  BY DEF Torn
<1>4. OutputTypes'
  BY <1>1, <1>3 DEF QrzInv, OutputTypes
<1>5. lastHeld' = lastHeld
  BY <1>1 DEF world
<1>6. ReadRight => NamesSince(csv.rows, csv.day, lastHeld) /\ PlacesSince(geoCsv.rows, geoCsv.day, lastHeld)
  BY DEF QrzInv, ListsRecent
<1>7. NamesSince(Torn.rows, Torn.day, lastHeld) /\ PlacesSince(Torn.rows, Torn.day, lastHeld)
  BY <1>3 DEF NamesSince, PlacesSince
<1>8. ListsRecent'
  BY <1>1, <1>5, <1>6, <1>7 DEF ListsRecent
<1> QED
  BY <1>1, <1>2, <1>4, <1>8, QrzGoesOn

\* An output file is filled from what was collected; the run ends, or goes on to the places.
LEMMA QrzFills ==
    ASSUME QrzInv, FillNames \/ FillPlaces
    PROVE  QrzInv'
<1>1. /\ UNCHANGED <<world, disk>> /\ phase \in Writing /\ phase # "idle"
      /\ \/ csv' = [rows |-> rows, day |-> now, full |-> Full] /\ geoCsv' = geoCsv
         \/ geoCsv' = [rows |-> geoRows, day |-> now, full |-> Full] /\ csv' = csv
      /\ \/ Idle
         \/ phase' = "places" /\ UNCHANGED <<cache, todo, opts, now, rows, geoRows, stopped>>
  <2>1. CASE FillNames
    BY <2>1, Zenon DEF FillNames, Goto, Writing
  <2>2. CASE FillPlaces
    BY <2>2 DEF FillPlaces, Writing
  <2> QED
    BY <2>1, <2>2
<1>2. todo = <<>> /\ disk = cache /\ now = day /\ day \in Nat
  BY <1>1 DEF QrzInv, PassTypes, WorldInv
<1>3. lastHeld' = lastHeld
  BY <1>1 DEF world
<1>4. \A list, f : LET file == [rows |-> list, day |-> now, full |-> f]
                   IN file.rows = list /\ file.day = day /\ DOMAIN file = {"rows", "day", "full"}
  BY <1>2
<1>5. /\ \/ csv'.rows = rows /\ csv'.day = day /\ DOMAIN csv' = {"rows", "day", "full"} /\ geoCsv' = geoCsv
         \/ geoCsv'.rows = geoRows /\ geoCsv'.day = day /\ DOMAIN geoCsv' = {"rows", "day", "full"} /\ csv' = csv
  BY <1>1, <1>4
<1>6. OutputTypes'
  BY <1>2, <1>5 DEF QrzInv, OutputTypes
<1>7. ListsRecent'
  BY <1>3, <1>5 DEF QrzInv, ListsRecent, RowsRecent
<1>8. CASE Idle
  BY <1>1, <1>6, <1>7, <1>8, QrzIdles
<1>9. CASE phase' = "places" /\ UNCHANGED <<cache, todo, opts, now, rows, geoRows, stopped>>
  <2>1. phase' \in Writing /\ phase' # "asking" /\ disk' = cache
    BY <1>1, <1>2, <1>9 DEF Writing
  <2> QED
    BY <1>1, <1>2, <1>6, <1>7, <1>9, <2>1, QrzGoesOn
<1> QED
  BY <1>1, <1>8, <1>9

\* A lookup that fails stops the pass: the lists are not full.
LEMMA QrzFails ==
    ASSUME QrzInv, LookupFails
    PROVE  QrzInv'
<1> USE DEF QrzInv
<1>1. /\ UNCHANGED <<world, disk, cache, opts, now, rows, geoRows, outputs>> /\ phase = "asking"
      /\ stopped' /\ todo' = <<>> /\ phase' = "looking" /\ DOMAIN todo' = {}
  BY DEF LookupFails, Requesting, Goto
<1>2. WorldInv' /\ OutputTypes' /\ ListsRecent' /\ CachesTrue' /\ RowsRecent'
  BY <1>1 DEF WorldInv, OutputTypes, ListsRecent, CachesTrue, RowsRecent, world, outputs
<1>3. PassTypes'
  BY <1>1 DEF PassTypes, Writing, world
<1>4. NoneSkipped'
  <2>1. ~Full' /\ \A c : ~LeftIn(todo', c)
    BY <1>1 DEF Full, LeftIn
  <2> QED
    BY <1>1, <2>1 DEF NoneSkipped, Left
<1> QED
  BY <1>2, <1>3, <1>4

\* A call is passed over: a pass that is capped is not full.
LEMMA QrzPasses ==
    ASSUME QrzInv, PassOver
    PROVE  QrzInv'
<1> USE DEF QrzInv
<1>1. /\ UNCHANGED <<world, disk, cache, phase, opts, now, rows, geoRows, stopped, outputs>> /\ phase = "looking"
      /\ todo # <<>> /\ todo' = Tail(todo) /\ Capped
  BY DEF PassOver, Looking
<1>2. WorldInv' /\ OutputTypes' /\ ListsRecent' /\ CachesTrue' /\ RowsRecent'
  BY <1>1 DEF WorldInv, OutputTypes, ListsRecent, CachesTrue, RowsRecent, world, outputs
<1>3. todo \in Seq(Calls) /\ \A i, j \in DOMAIN todo : todo[i] = todo[j] => i = j
  BY DEF PassTypes, NoneSkipped
<1>4. /\ todo' \in Seq(Calls) /\ \A i, j \in DOMAIN todo' : todo'[i] = todo'[j] => i = j
      /\ \A c : LeftIn(todo', c) => LeftIn(todo, c)
  BY <1>1, <1>3, HeadLeaves
<1>5. PassTypes'
  BY <1>1, <1>4 DEF PassTypes, Writing, world
<1>6. ~Full'
  BY <1>1 DEF Capped, Full, PassTypes
<1>7. NoneSkipped'
  BY <1>1, <1>4, <1>6 DEF NoneSkipped, Left
<1> QED
  BY <1>2, <1>5, <1>7

\* One call is listed from an entry, of the cache or just made.
LEMMA QrzListed ==
    ASSUME QrzInv, phase \in {"looking", "asking"}, phase' \in {"looking", "saving"}, todo # <<>>, todo' = Tail(todo),
           UNCHANGED <<world, disk, opts, now, stopped, outputs>>,
           NEW e \in NameEntry, Listing(Call, e), DOMAIN cache' = DOMAIN cache \cup {Call}, cache'[Call] = e,
           \A c \in DOMAIN cache : c # Call => cache'[c] = cache[c],
           e.page # Unknown => lastHeld[Call][e.page] >= e.ts,
           NameOf(e) # "" => Within(e, HitDays),
           opts.geo /\ e.geo => Within(e, GeoDays)
    PROVE  QrzInv'
<1>1. todo \in Seq(Calls) /\ now = day /\ opts.geo \in BOOLEAN /\ Call \in Calls /\ todo' \in Seq(Calls)
  BY HeadLeaves DEF QrzInv, PassTypes, NoneSkipped, Call
<1>2. WorldInv' /\ OutputTypes' /\ ListsRecent'
  BY DEF QrzInv, WorldInv, OutputTypes, ListsRecent, world, outputs
<1>3. PassTypes'
  BY <1>1 DEF QrzInv, PassTypes, Writing, world
<1>4. lastHeld' = lastHeld /\ day' = day
  BY DEF world
<1>5. RowsRecent'
  <2> SUFFICES ASSUME ReadRight PROVE NamesSince(rows', day, lastHeld) /\ PlacesSince(geoRows', day, lastHeld)
    BY <1>4 DEF RowsRecent
  <2> QED
    BY <1>1, ListsRight
<1>6. CachedIn(cache', lastHeld)
  <2> SUFFICES ASSUME NEW c \in DOMAIN cache'
               PROVE  /\ c \in Calls /\ cache'[c] \in NameEntry
                      /\ cache'[c].page # Unknown => lastHeld[c][cache'[c].page] >= cache'[c].ts
    BY DEF CachedIn
  <2>1. CASE c = Call
    BY <1>1, <2>1
  <2>2. CASE c # Call
    BY <2>2 DEF QrzInv, CachesTrue, CachedIn
  <2> QED
    BY <2>1, <2>2
<1>7. CachesTrue'
  BY <1>4, <1>6 DEF QrzInv, CachesTrue
<1>8. NoneSkipped'
  <2>1. \A x : x \in DOMAIN rows' <=> (x \in DOMAIN rows \/ (x = Call /\ NameOf(cache'[Call]) # ""))
    BY ListsName
  <2> QED
    BY <2>1, OneDone
<1> QED
  BY <1>2, <1>3, <1>5, <1>7, <1>8 DEF QrzInv

\* A call listed from the cache: its entry is fresh.
LEMMA QrzReads ==
    ASSUME QrzInv, FromCache
    PROVE  QrzInv'
<1>1. /\ UNCHANGED <<world, disk, cache, phase, opts, now, stopped, outputs>> /\ phase = "looking" /\ todo # <<>>
      /\ todo' = Tail(todo) /\ Listing(Call, cache[Call]) /\ ~NeedsLookup(Call)
  BY DEF FromCache, Looking, Held
<1>2. Call \in DOMAIN cache /\ Fresh(cache[Call]) /\ (opts.geo => GeoFresh(cache[Call]))
  BY <1>1 DEF NeedsLookup
<1>3. /\ cache[Call] \in NameEntry
      /\ cache[Call].page # Unknown => lastHeld[Call][cache[Call].page] >= cache[Call].ts
  BY <1>2 DEF QrzInv, CachesTrue, CachedIn
<1>4. /\ NameOf(cache[Call]) # "" => Within(cache[Call], HitDays)
      /\ opts.geo /\ cache[Call].geo => Within(cache[Call], GeoDays)
  BY <1>2 DEF Fresh, Ttl, GeoFresh
<1>5. /\ DOMAIN cache' = DOMAIN cache \cup {Call} /\ cache'[Call] = cache[Call]
      /\ \A c \in DOMAIN cache : c # Call => cache'[c] = cache[c]
  BY <1>1, <1>2
<1> QED
  BY <1>1, <1>3, <1>4, <1>5, QrzListed

\* A call listed from an answer: QRZ holds that page today.
LEMMA QrzAnswered ==
    ASSUME QrzInv, phase = "asking", phase' \in {"looking", "saving"}, NEW p \in {qrz[Call], Unknown}, Answered(p)
    PROVE  QrzInv'
<1> DEFINE e == Entry(p, TRUE)
<1>1. /\ UNCHANGED <<world, disk, opts, now, stopped, outputs>> /\ todo' = Tail(todo)
      /\ cache' = With(cache, Call, e) /\ Listing(Call, cache'[Call])
  BY DEF Answered
<1>2. /\ DOMAIN cache' = DOMAIN cache \cup {Call} /\ cache'[Call] = e
      /\ \A c \in DOMAIN cache : c # Call => cache'[c] = cache[c]
  <2> HIDE DEF e
  <2>1. cache' = With(cache, Call, e)
    BY <1>1
  <2> QED
    BY <2>1 DEF With
<1>3. todo # <<>> /\ now = day /\ day \in Nat /\ Call \in Calls
  BY HeadLeaves DEF QrzInv, PassTypes, WorldInv, NoneSkipped, Call
<1>4. e.page = p /\ e.ts = day /\ e.geo = TRUE
  BY <1>3 DEF Entry
<1>5. p \in DOMAIN Pages \cup {Unknown}
  BY <1>3 DEF QrzInv, WorldInv
<1>6. e \in NameEntry
  BY <1>3, <1>5 DEF Entry, NameEntry
<1>7. e.page # Unknown => lastHeld[Call][e.page] >= e.ts
  BY <1>3, <1>4 DEF QrzInv, WorldInv
<1>8. \A n \in Nat : day - day <= n
  BY <1>3
<1>9. Within(e, HitDays) /\ Within(e, GeoDays)
  BY <1>3, <1>4, <1>8, QrzAssumption DEF Within
<1>10. Listing(Call, e)
  BY <1>1, <1>2
<1> HIDE DEF e
<1> QED
  BY <1>1, <1>2, <1>3, <1>6, <1>7, <1>9, <1>10, QrzListed

\* Every step keeps the invariant.
LEMMA QrzKeepsInv ==
    ASSUME QrzInv, Next \/ UNCHANGED vars
    PROVE  QrzInv'
<1>1. CASE PageChanges \/ NextDay
  BY <1>1, QrzMoves
<1>2. CASE Start
  BY <1>2, QrzBegins
<1>3. CASE NoCredentials
  BY <1>3, QrzRefused
<1>4. CASE FromCache
  BY <1>4, QrzReads
<1>5. CASE PassOver
  BY <1>5, QrzPasses
<1>6. CASE Ask \/ Session \/ SessionExpired \/ Save \/ Close
  BY <1>6, QrzAsks
<1>7. CASE Answer \/ Malformed
  <2>1. phase = "asking" /\ phase' \in {"looking", "saving"} /\ (Answered(qrz[Call]) \/ Answered(Unknown))
    BY <1>7 DEF Answer, Malformed, Requesting, Goto
  <2> QED
    BY <2>1, QrzAnswered
<1>8. CASE LookupFails
  BY <1>8, QrzFails
<1>9. CASE OpenNames \/ OpenPlaces
  BY <1>9, QrzOpens
<1>10. CASE FillNames \/ FillPlaces
  BY <1>10, QrzFills
<1>11. CASE Interrupt \/ Kill
  <2>1. UNCHANGED world /\ Idle /\ disk' \in {disk, cache} /\ UNCHANGED <<csv, geoCsv>>
    BY <1>11 DEF Interrupt, Kill, outputs
  <2>2. OutputTypes' /\ ListsRecent'
    BY <2>1 DEF QrzInv, OutputTypes, ListsRecent, world
  <2> QED
    BY <2>1, <2>2, QrzIdles
<1>12. CASE UNCHANGED vars
  BY <1>12 DEF vars, world, run, outputs, QrzInv, WorldInv, PassTypes, OutputTypes, CachesTrue, RowsRecent,
               ListsRecent, NoneSkipped, Left, Full
<1> QED
  BY <1>1, <1>2, <1>3, <1>4, <1>5, <1>6, <1>7, <1>8, <1>9, <1>10, <1>11, <1>12 DEF Next, Done

------------------------------------------------------------------------------
\* The sum of the tools

\* The invariant of QrzNames holds in its behaviours.
LEMMA QrzAlways == MCSpec => [](tool = "qrz" => QrzInv)
<1> DEFINE I == tool = "qrz" => QrzInv
<1>1. MCInit => I
  BY QrzStarts DEF MCInit
<1>2. I /\ [MCNext]_allVars => I'
  <2> SUFFICES ASSUME I, [MCNext]_allVars, tool' = "qrz" PROVE QrzInv'
    OBVIOUS
  <2>1. tool = "qrz" /\ (Next \/ UNCHANGED vars)
    BY DEF MCNext, allVars
  <2> QED
    BY <2>1, QrzKeepsInv
<1> QED
  BY <1>1, <1>2, PTL DEF MCSpec

\* A full pass has in the saved cache every call, and lists those of which it knows a name: for
\* every list of calls, pages, caps, and number of runs, faults and days.
THEOREM NoNameSkippedAlways == MCSpec => []NoNameSkipped
<1>1. \A s : s = <<>> => DOMAIN s = {}
  OBVIOUS
<1>2. (tool = "qrz" => QrzInv) => NoNameSkipped
  <2> SUFFICES ASSUME QrzInv, phase \in {"fill names", "places"}, Full
               PROVE  DOMAIN disk = Calls /\ DOMAIN rows = {c \in Calls : NameOf(disk[c]) # ""}
    BY DEF NoNameSkipped, FullPassListsAll
  <2>1. todo = <<>> /\ disk = cache /\ DOMAIN todo = {} /\ phase # "idle"
    <3>1. phase \in Writing /\ phase # "idle"
      BY DEF Writing
    <3> QED
      BY <1>1, <3>1 DEF QrzInv, PassTypes
  <2>2. \A c \in Calls : ~Left(c)
    BY <2>1 DEF Left, LeftIn
  <2>3. \A c \in Calls : c \in DOMAIN disk /\ (c \in DOMAIN rows <=> NameOf(disk[c]) # "")
    BY <2>1, <2>2 DEF QrzInv, NoneSkipped
  <2>4. \A c \in DOMAIN disk : c \in Calls
    BY DEF QrzInv, CachesTrue, CachedIn
  <2>5. \A c \in DOMAIN rows : c \in Calls
    BY DEF QrzInv, NoneSkipped
  <2> QED
    BY <2>3, <2>4, <2>5
<1> QED
  BY <1>2, QrzAlways, PTL

\* Whatever QRZ's pages, if the tool reads each as its reader would or finds nothing in it, a
\* name or a place is listed only when QRZ showed it for that call within its time to live, by
\* the day of the list: through runs, kills, failures and a cache of the older version.
THEOREM RecentNamesOnlyAlways == ASSUME ReadRight PROVE MCSpec => []RecentNamesOnly
<1>1. ReadRight => ((tool = "qrz" => QrzInv) => RecentNamesOnly)
  <2> SUFFICES ASSUME ReadRight, QrzInv PROVE ListedIsRecent
    BY DEF RecentNamesOnly
  <2>1. NamesSince(csv.rows, csv.day, lastHeld) /\ PlacesSince(geoCsv.rows, geoCsv.day, lastHeld)
    BY DEF QrzInv, ListsRecent
  <2> QED
    BY <2>1 DEF ListedIsRecent, WasShown, NamesSince, NameSince, PlacesSince, PlaceSince
<1> QED
  BY <1>1, QrzAlways, PTL

\* The manifest of the UDC mirror is true of its files, and a file is fetched
\* once: for every site, page size and number of runs, failures and kills.
THEOREM MirrorIsTrueAlways == MCSpec => []MirrorIsTrue
<1> DEFINE I == tool = "udc" => UdcInv
<1>1. MCInit => I
  BY UdcStarts DEF MCInit
<1>2. I /\ [MCNext]_allVars => I'
  <2> SUFFICES ASSUME I, [MCNext]_allVars, tool' = "udc" PROVE UdcInv'
    OBVIOUS
  <2>1. tool = "udc" /\ (U!Next \/ UNCHANGED udcVars)
    BY DEF MCNext, allVars
  <2> QED
    BY <2>1, UdcKeepsInv
<1>3. I => MirrorIsTrue
  <2> SUFFICES ASSUME UdcInv PROVE U!MirrorIsTrue
    BY DEF MirrorIsTrue
  <2>1. U!HashIsTrue
    BY DEF U!HashIsTrue, UdcInv, RecordsTrue, TrueIn
  <2>2. U!DownloadedOnce
    <3> SUFFICES ASSUME NEW s \in U!Slugs, \A t \in U!Slugs \ {s} : FileName[t] # FileName[s] PROVE fetched[s] <= 1
      BY DEF U!DownloadedOnce
    <3>1. Lone(s)
      BY DEF Lone
    <3>2. fetched[s] = 0 \/ fetched[s] = 1
      BY <3>1 DEF UdcInv, FetchedOnce
    <3> QED
      BY <3>2
  <2> QED
    BY <2>1, <2>2 DEF U!MirrorIsTrue
<1> QED
  BY <1>1, <1>2, <1>3, PTL DEF MCSpec

------------------------------------------------------------------------------
\* Catalogues

\* What an entry is, and what is true of it in a catalogue of the kind k: a text
\* taken from a damaged file or from the widget set is flagged, and so is English in
\* a translation's place; in the help catalogue a text that is not flagged translates
\* the English it stands under. No reference is a vendored unit's.
EntryFields == {"ctx", "source", "target", "fuzzy", "obsolete", "refs", "skip", "salvaged"}
Borrowed == {"salvage", "widgetset"}
IsText(t) == DOMAIN t = {"by", "of", "flaw"} /\ (t.by = "nobody" => t = G!Empty)
IsRefs(refs) == \E W : refs \in Seq(W) /\ \A r \in W : r[1] # "log4d"
HonestEntry(k, e) ==
    /\ DOMAIN e = EntryFields
    /\ IsText(e.target) /\ IsRefs(e.refs)
    /\ e.fuzzy \in BOOLEAN /\ e.obsolete \in BOOLEAN
    /\ e.target.by \in Borrowed => e.fuzzy
    /\ e.target.by = "english" /\ ~e.obsolete => e.fuzzy
    /\ k = "help" /\ G!Translated(e) => e.target.of = e.source

\* A catalogue of such entries.
HonestList(k, c) == \E W : c \in Seq(W) /\ \A e \in W : HonestEntry(k, e)
\* The help catalogue is never empty, or it would be built anew from its ini.
HonestCat(k, c) == HonestList(k, c) /\ (k = "help" /\ TableIds # {} => c # <<>>)

HonestTable(t) == DOMAIN t = TableIds /\ \A id \in TableIds : IsText(t[id]) /\ t[id].by \notin Borrowed

CatInv ==
    /\ kind \in {"tr4w", "help"}
    /\ HonestCat(kind, cat)
    /\ seeding.running => HonestCat(kind, seeding.read)
    /\ HonestTable(table)
    /\ DOMAIN eng = G!Ids

LEMMA PlacesOf ==
    ASSUME NEW k, NEW c, HonestList(k, c)
    PROVE  /\ Len(c) \in Nat /\ DOMAIN c = 1 .. Len(c)
           /\ c = [i \in 1 .. Len(c) |-> c[i]]
           /\ \A i \in DOMAIN c : HonestEntry(k, c[i])
<1>1. PICK W : c \in Seq(W) /\ \A e \in W : HonestEntry(k, e)
  BY DEF HonestList
<1> HIDE DEF HonestEntry
<1>2. Len(c) \in Nat /\ DOMAIN c = 1 .. Len(c) /\ c \in [1 .. Len(c) -> W]
  BY <1>1
<1> QED
  BY <1>1, <1>2

LEMMA ListOf ==
    ASSUME NEW k, NEW n \in Nat, NEW c, c = [i \in 1 .. n |-> c[i]], \A i \in 1 .. n : HonestEntry(k, c[i])
    PROVE  HonestList(k, c)
<1> DEFINE W == {c[i] : i \in 1 .. n}
<1>1. c \in [1 .. n -> W]
  OBVIOUS
<1>2. \A e \in W : HonestEntry(k, e)
  OBVIOUS
<1> HIDE DEF W, HonestEntry
<1>3. c \in Seq(W)
  BY <1>1
<1> QED
  BY <1>2, <1>3 DEF HonestList

LEMMA MapOf ==
    ASSUME NEW k, NEW c, HonestList(k, c), NEW d, d = [i \in DOMAIN c |-> d[i]],
           \A i \in DOMAIN c : HonestEntry(k, d[i])
    PROVE  HonestList(k, d) /\ (c # <<>> => d # <<>>)
<1>1. Len(c) \in Nat /\ DOMAIN c = 1 .. Len(c) /\ c = [i \in 1 .. Len(c) |-> c[i]]
  BY PlacesOf
<1> HIDE DEF HonestEntry
<1>2. HonestList(k, d)
  BY <1>1, ListOf
<1>3. DOMAIN <<>> = {} /\ DOMAIN d = 1 .. Len(c)
  BY <1>1
<1>4. c # <<>> => 1 \in DOMAIN d
  BY <1>1, <1>3
<1> QED
  BY <1>2, <1>3, <1>4

LEMMA BothOf ==
    ASSUME NEW k, NEW c, HonestList(k, c), NEW d, HonestList(k, d)
    PROVE  HonestList(k, c \o d)
<1>1. PICK W : c \in Seq(W) /\ \A e \in W : HonestEntry(k, e)
  BY DEF HonestList
<1>2. PICK V : d \in Seq(V) /\ \A e \in V : HonestEntry(k, e)
  BY DEF HonestList
<1> HIDE DEF HonestEntry
<1>3. c \in Seq(W \cup V) /\ d \in Seq(W \cup V)
  BY <1>1, <1>2
<1>4. c \o d \in Seq(W \cup V)
  BY <1>3
<1> QED
  BY <1>1, <1>2, <1>4 DEF HonestList

\* The elements at some places are a sequence of those elements.
LEMMA ElementsOf ==
    ASSUME NEW W, NEW s \in Seq(W), NEW places, NEW V, \A i \in places \cap DOMAIN s : s[i] \in V
    PROVE  /\ G!Elements(s, places) \in Seq(V)
           /\ \A i \in places \cap DOMAIN s : s[i] \in G!ToSet(G!Elements(s, places))
<1> DEFINE N == Len(s)
           Next1(e, i) == IF i \in places THEN Append(e, s[i]) ELSE e
           Body(f, n) == [i \in 0 .. n |-> IF i = 0 THEN <<>> ELSE Next1(f[i - 1], i)]
           Upto(f, n) == f \in [0 .. n -> Seq(V)] /\ f = Body(f, n)
           S == {n \in 0 .. N : \E f : Upto(f, n)}
<1>1. N \in Nat /\ DOMAIN s = 1 .. N /\ \A i \in 1 .. N : i \in places => s[i] \in V
  OBVIOUS
<1>2. ASSUME NEW i \in 1 .. N, NEW e \in Seq(V)
      PROVE  /\ Next1(e, i) \in Seq(V)
             /\ G!ToSet(e) \subseteq G!ToSet(Next1(e, i))
             /\ i \in places => s[i] \in G!ToSet(Next1(e, i))
  <2>1. CASE i \in places
    <3>1. s[i] \in V /\ Next1(e, i) = Append(e, s[i])
      BY <1>1, <2>1
    <3>2. /\ Append(e, s[i]) \in Seq(V) /\ Append(e, s[i])[Len(e) + 1] = s[i]
          /\ DOMAIN Append(e, s[i]) = 1 .. (Len(e) + 1) /\ Len(e) \in Nat /\ DOMAIN e = 1 .. Len(e)
          /\ \A j \in 1 .. Len(e) : Append(e, s[i])[j] = e[j]
      BY <3>1
    <3> HIDE DEF Next1
    <3> QED
      BY <3>1, <3>2 DEF G!ToSet
  <2>2. CASE i \notin places
    BY <2>2
  <2> QED
    BY <2>1, <2>2
<1> HIDE DEF N, Next1
<1>3. \A n \in 0 .. N : n \in S
  <2>1. 0 \in S
    <3>1. Upto([i \in 0 .. 0 |-> <<>>], 0)
      OBVIOUS
    <3> HIDE DEF Upto
    <3> QED
      BY <3>1, <1>1
  <2>2. ASSUME NEW n \in 1 .. N, n - 1 \in S PROVE n \in S
    <3>1. PICK g : Upto(g, n - 1)
      BY <2>2
    <3> DEFINE f == [i \in 0 .. n |-> IF i = n THEN Next1(g[n - 1], n) ELSE g[i]]
    <3>2. n \in Nat /\ n # 0 /\ n - 1 \in 0 .. (n - 1) /\ g[n - 1] \in Seq(V)
      BY <3>1, <1>1
    <3>3. f \in [0 .. n -> Seq(V)]
      <4>1. Next1(g[n - 1], n) \in Seq(V)
        BY <1>2, <3>2
      <4>2. \A i \in 0 .. n : i # n => g[i] \in Seq(V)
        BY <3>1, <3>2
      <4> QED
        BY <4>1, <4>2
    <3>4. ASSUME NEW i \in 0 .. n PROVE f[i] = IF i = 0 THEN <<>> ELSE Next1(f[i - 1], i)
      <4>1. CASE i = n
        <5>1. f[n] = Next1(g[n - 1], n) /\ f[n - 1] = g[n - 1]
          BY <3>2
        <5> QED
          BY <4>1, <5>1, <3>2
      <4>2. CASE i # n
        <5>1. i \in 0 .. (n - 1) /\ i \in 0 .. n /\ (i # 0 => i - 1 \in 0 .. n /\ i - 1 # n)
          BY <4>2, <3>2
        <5>2. f[i] = g[i] /\ (i # 0 => f[i - 1] = g[i - 1])
          BY <5>1, <4>2
        <5>3. g[i] = IF i = 0 THEN <<>> ELSE Next1(g[i - 1], i)
          BY <3>1, <5>1
        <5> QED
          BY <5>2, <5>3
      <4> QED
        BY <4>1, <4>2
    <3>5. Upto(f, n)
      BY <3>3, <3>4
    <3> HIDE DEF f, Upto
    <3> QED
      BY <3>5, <1>1
  <2> HIDE DEF S
  <2> QED
    BY <1>1, <2>1, <2>2, UpTo
<1>4. PICK f : Upto(f, N)
  <2>1. N \in S
    <3> HIDE DEF S
    <3> QED
      BY <1>1, <1>3
  <2> HIDE DEF Upto
  <2> QED
    BY <2>1
<1> DEFINE h == CHOOSE h : h = Body(h, N)
<1>5. h = Body(h, N)
  <2>1. f = Body(f, N)
    BY <1>4
  <2> HIDE DEF Body
  <2> QED
    BY <2>1
<1>6. DOMAIN h = 0 .. N /\ \A i \in 0 .. N : h[i] = IF i = 0 THEN <<>> ELSE Next1(h[i - 1], i)
  <2> HIDE DEF h
  <2> QED
    BY <1>5
<1>7. G!Elements(s, places) = h[N]
  BY DEF G!Elements, N, Next1
<1> HIDE DEF h
<1>8. \A i \in 0 .. N : i \in {n \in 0 .. N : /\ h[n] \in Seq(V)
                                        /\ \A m \in 1 .. n : m \in places => s[m] \in G!ToSet(h[n])}
  <2> DEFINE R == {n \in 0 .. N : /\ h[n] \in Seq(V)
                                  /\ \A m \in 1 .. n : m \in places => s[m] \in G!ToSet(h[n])}
  <2>1. 0 \in R
    <3>1. 0 \in 0 .. N /\ h[0] = <<>> /\ 1 .. 0 = {}
      BY <1>1, <1>6
    <3>2. <<>> \in Seq(V)
      OBVIOUS
    <3> QED
      BY <3>1, <3>2
  <2>2. ASSUME NEW n \in 1 .. N, n - 1 \in R PROVE n \in R
    <3>1. n \in 0 .. N /\ n - 1 \in 0 .. N /\ h[n] = Next1(h[n - 1], n) /\ h[n - 1] \in Seq(V)
      BY <1>1, <1>6, <2>2
    <3>2. /\ h[n] \in Seq(V) /\ G!ToSet(h[n - 1]) \subseteq G!ToSet(h[n])
          /\ n \in places => s[n] \in G!ToSet(h[n])
      BY <1>2, <3>1
    <3>3. \A m \in 1 .. n : m = n \/ m \in 1 .. (n - 1)
      BY <1>1
    <3>4. \A m \in 1 .. (n - 1) : m \in places => s[m] \in G!ToSet(h[n - 1])
      BY <2>2
    <3>5. \A m \in 1 .. n : m \in places => s[m] \in G!ToSet(h[n])
      BY <3>2, <3>3, <3>4
    <3> QED
      BY <3>1, <3>2, <3>5
  <2> HIDE DEF R
  <2>3. \A i \in 0 .. N : i \in R
    BY <1>1, <2>1, <2>2, UpTo
  <2> QED
    BY <2>3 DEF R
<1>9. N \in 0 .. N
  BY <1>1
<1> QED
  BY <1>1, <1>7, <1>8, <1>9

LEMMA SomeOf ==
    ASSUME NEW k, NEW c, HonestList(k, c), NEW places
    PROVE  HonestList(k, G!Elements(c, places))
<1>1. PICK W : c \in Seq(W) /\ \A e \in W : HonestEntry(k, e)
  BY DEF HonestList
<1>2. G!Elements(c, places) \in Seq(W)
  <2>1. \A i \in DOMAIN c : c[i] \in W
    BY <1>1
  <2> QED
    BY <1>1, <2>1, ElementsOf
<1> HIDE DEF HonestEntry
<1> QED
  BY <1>1, <1>2 DEF HonestList

LEMMA SomeThere ==
    ASSUME NEW W, NEW c \in Seq(W), NEW places, NEW i \in DOMAIN c, i \in places
    PROVE  G!Elements(c, places) # <<>>
<1>1. \A j \in DOMAIN c : c[j] \in W
  OBVIOUS
<1>2. c[i] \in G!ToSet(G!Elements(c, places))
  BY <1>1, ElementsOf
<1>3. DOMAIN <<>> = {}
  OBVIOUS
<1> QED
  BY <1>2, <1>3 DEF G!ToSet

\* The order of a finite set is a sequence of its elements, as long as the set is large.
LEMMA OrderOf ==
    ASSUME NEW S, IsFiniteSet(S)
    PROVE  /\ Cardinality(S) \in Nat
           /\ G!InOrder(S) \in [1 .. Cardinality(S) -> S]
           /\ DOMAIN G!InOrder(S) = 1 .. Cardinality(S)
           /\ S # {} => Cardinality(S) # 0
<1>1. Cardinality(S) \in Nat /\ ExistsBijection(1 .. Cardinality(S), S)
  BY FS_CardinalityType
<1>2. \E f \in [1 .. Cardinality(S) -> S] : G!IsInjective(f)
  BY <1>1 DEF ExistsBijection, Bijection, Injection, IsInjective, G!IsInjective
<1>3. G!InOrder(S) \in [1 .. Cardinality(S) -> S]
  <2>1. G!Cardinality(S) = Cardinality(S)
    BY Zenon DEF G!Cardinality, Cardinality
  <2> QED
    BY <1>2, <2>1 DEF G!InOrder, G!SetToSeq
<1>4. S # {} => Cardinality(S) # 0
  BY FS_EmptySet
<1> QED
  BY <1>1, <1>3, <1>4

\* A list made of a finite set, an entry for each element.
LEMMA ListFrom ==
    ASSUME NEW k, NEW S, IsFiniteSet(S), NEW c,
           c = [n \in DOMAIN G!InOrder(S) |-> c[n]],
           \A n \in DOMAIN G!InOrder(S) : G!InOrder(S)[n] \in S => HonestEntry(k, c[n])
    PROVE  HonestList(k, c) /\ (S # {} => c # <<>>)
<1> DEFINE N == Cardinality(S)
<1>1. N \in Nat /\ DOMAIN G!InOrder(S) = 1 .. N /\ (S # {} => N # 0)
      /\ \A n \in 1 .. N : G!InOrder(S)[n] \in S
  BY OrderOf
<1> HIDE DEF N, HonestEntry
<1>2. HonestList(k, c)
  BY <1>1, ListOf
<1>3. S # {} => 1 \in DOMAIN c
  BY <1>1
<1>4. DOMAIN <<>> = {}
  OBVIOUS
<1> QED
  BY <1>2, <1>3, <1>4

LEMMA FiniteIds ==
    /\ \A S : S \subseteq TableIds => IsFiniteSet(S)
    /\ \A S : S \subseteq G!Ids => IsFiniteSet(S)
BY IdsAssumption, FS_Subset DEF G!Ids

\* Empty is a text, and mending a text changes neither its writer nor what it translates.
LEMMA Texts ==
    /\ IsText(G!Empty) /\ G!Empty.by \notin Borrowed /\ G!Empty.by # "english"
    /\ \A w, x : w # "nobody" => IsText(G!By(w, x)) /\ G!By(w, x).by = w /\ G!By(w, x).of = x
    /\ \A t : IsText(t) => /\ IsText(G!Mended(t))
                           /\ G!Mended(t).by = t.by /\ G!Mended(t).of = t.of
                           /\ (t = G!Empty) <=> (G!Mended(t) = G!Empty)
<1>1. IsText(G!Empty) /\ G!Empty.by \notin Borrowed /\ G!Empty.by # "english"
  BY DEF IsText, G!Empty, Borrowed
<1>2. ASSUME NEW w, w # "nobody", NEW x PROVE IsText(G!By(w, x)) /\ G!By(w, x).by = w /\ G!By(w, x).of = x
  BY <1>2 DEF IsText, G!By
<1>3. ASSUME NEW t, IsText(t)
      PROVE  /\ IsText(G!Mended(t))
             /\ G!Mended(t).by = t.by /\ G!Mended(t).of = t.of
             /\ (t = G!Empty) <=> (G!Mended(t) = G!Empty)
  BY <1>3 DEF IsText, G!Mended, G!Empty
<1> QED
  BY <1>1, <1>2, <1>3

\* An entry a tool makes.
LEMMA NewIs ==
    ASSUME NEW k, NEW ctx, NEW source, NEW t, IsText(t), NEW f \in BOOLEAN, NEW refs, IsRefs(refs),
           t.by \in Borrowed \cup {"english"} => f,
           k = "help" /\ ~f /\ t # G!Empty => t.of = source
    PROVE  HonestEntry(k, G!NewEntry(ctx, source, t, f, refs))
BY DEF HonestEntry, G!NewEntry, EntryFields, G!Translated, G!Live, G!HasText

LEMMA FewRefs ==
    /\ IsRefs(<<>>)
    /\ \A u, x : u # "log4d" => IsRefs(<<<<u, x>>>>)
<1>1. IsRefs(<<>>)
  <2> DEFINE W == {}
  <2>1. \A r \in W : r[1] # "log4d"
    OBVIOUS
  <2> HIDE DEF W
  <2>2. <<>> \in Seq(W)
    OBVIOUS
  <2> QED
    BY <2>1, <2>2 DEF IsRefs
<1>2. ASSUME NEW u, NEW x, u # "log4d" PROVE IsRefs(<<<<u, x>>>>)
  <2> DEFINE r == <<u, x>>
             W == {r}
  <2>1. \A e \in W : e[1] # "log4d"
    BY <1>2
  <2>2. r \in W
    OBVIOUS
  <2> HIDE DEF r, W
  <2>3. <<r>> \in Seq(W)
    BY <2>2
  <2>4. IsRefs(<<r>>)
    BY <2>1, <2>3 DEF IsRefs
  <2> QED
    BY <2>4 DEF r
<1> QED
  BY <1>1, <1>2

\* An entry whose text and flag a tool replaces.
LEMMA Retold ==
    ASSUME NEW k, NEW e, HonestEntry(k, e), NEW t, IsText(t), NEW f \in BOOLEAN,
           t.by \in Borrowed => f, t.by = "english" /\ ~e.obsolete => f,
           k = "help" /\ ~f /\ t # G!Empty /\ ~e.obsolete => t.of = e.source
    PROVE  HonestEntry(k, [e EXCEPT !.target = t, !.fuzzy = f])
BY DEF HonestEntry, EntryFields, G!Translated, G!Live, G!HasText

\* Only its text.
LEMMA Retexted ==
    ASSUME NEW k, NEW e, HonestEntry(k, e), NEW t, IsText(t),
           t.by \in Borrowed => e.fuzzy, t.by = "english" /\ ~e.obsolete => e.fuzzy,
           k = "help" /\ ~e.fuzzy /\ t # G!Empty /\ ~e.obsolete => t.of = e.source
    PROVE  HonestEntry(k, [e EXCEPT !.target = t])
BY DEF HonestEntry, EntryFields, G!Translated, G!Live, G!HasText

\* Its flag is raised, or it is retired.
LEMMA Flagged ==
    ASSUME NEW k, NEW e, HonestEntry(k, e)
    PROVE  /\ HonestEntry(k, [e EXCEPT !.fuzzy = TRUE])
           /\ HonestEntry(k, [e EXCEPT !.obsolete = TRUE])
BY DEF HonestEntry, EntryFields, G!Translated, G!Live, G!HasText

LEMMA FirstOf ==
    ASSUME NEW k, NEW c, HonestList(k, c), c # <<>>
    PROVE  1 \in DOMAIN c /\ HonestEntry(k, c[1])
<1>1. PICK W : c \in Seq(W) /\ \A e \in W : HonestEntry(k, e)
  BY DEF HonestList
<1> HIDE DEF HonestEntry
<1> QED
  BY <1>1

\* The text of the first of some entries, or none.
LEMMA TextOfFirst ==
    ASSUME NEW k, NEW c, HonestList(k, c), NEW places
    PROVE  IsText(IF G!Elements(c, places) = <<>> THEN G!Empty ELSE G!Elements(c, places)[1].target)
<1>1. CASE G!Elements(c, places) = <<>>
  BY <1>1, Texts
<1>2. CASE G!Elements(c, places) # <<>>
  <2>1. HonestEntry(k, G!Elements(c, places)[1])
    BY <1>2, SomeOf, FirstOf
  <2> QED
    BY <1>2, <2>1 DEF HonestEntry
<1> QED
  BY <1>1, <1>2

\* po_merge keeps the entries at some places and adds new ones after them.
StayingIn(c) == {i \in DOMAIN c : /\ ~G!IsThirdParty(c[i])
                                  /\ G!Live(c[i])
                                  /\ G!IsTranslatable(c[i].source) \/ G!HasText(c[i])}

LEMMA MergeIs ==
    ASSUME NEW k, NEW c, HonestList(k, c), NEW W, NEW template \in Seq(W),
           \A t \in W : \E u, x : t.refs = <<<<u, x>>>>
    PROVE  \E new : HonestList(k, new) /\ G!Merge(c, template) = G!Elements(c, StayingIn(c)) \o new
<1> DEFINE Added(t) == G!NewEntry(t.ctx, t.source, G!BySource(c, t.source), TRUE, t.refs)
           New(places) == [i \in DOMAIN G!Elements(template, places) |-> Added(G!Elements(template, places)[i])]
<1> DEFINE Ours == {t \in W : ~G!IsThirdParty(t)}
<1>1. ASSUME NEW t \in Ours PROVE HonestEntry(k, Added(t))
  <2>1. IsText(G!BySource(c, t.source))
    BY TextOfFirst DEF G!BySource, G!Those
  <2>2. IsRefs(t.refs)
    <3>1. PICK u, x : t.refs = <<<<u, x>>>>
      OBVIOUS
    <3>2. t.refs # <<>> /\ t.refs[1][1] = u
      BY <3>1
    <3>3. u # "log4d"
      BY <3>2 DEF G!IsThirdParty
    <3> QED
      BY <3>1, <3>3, FewRefs
  <2> QED
    BY <2>1, <2>2, NewIs
<1>2. ASSUME NEW places, \A i \in places \cap DOMAIN template : template[i] \in Ours
      PROVE  HonestList(k, New(places))
  <2>1. G!Elements(template, places) \in Seq(Ours)
    BY <1>2, ElementsOf
  <2>2. DOMAIN G!Elements(template, places) = 1 .. Len(G!Elements(template, places))
        /\ Len(G!Elements(template, places)) \in Nat
    BY <2>1
  <2> HIDE DEF Added, Ours
  <2>3. \A i \in 1 .. Len(G!Elements(template, places)) : HonestEntry(k, New(places)[i])
    BY <1>1, <2>1, <2>2
  <2>4. New(places) = [i \in 1 .. Len(G!Elements(template, places)) |-> New(places)[i]]
    BY <2>2
  <2> HIDE DEF New
  <2> QED
    BY <2>2, <2>3, <2>4, ListOf
<1> DEFINE q == {i \in DOMAIN template : /\ G!IsTranslatable(template[i].source)
                                         /\ ~G!IsKnown(template[i], c)
                                         /\ ~G!IsThirdParty(template[i])}
<1>3. G!Merge(c, template) = G!Elements(c, StayingIn(c)) \o New(q)
  <2> HIDE DEF G!NewEntry
  <2> QED
    BY Zenon DEF G!Merge, G!Those, G!MapEntries, StayingIn
<1>4. \A i \in q : template[i] \in Ours
  OBVIOUS
<1> HIDE DEF New, Ours, q
<1> QED
  BY <1>2, <1>3, <1>4

LEMMA MergeHonest ==
    ASSUME NEW k, NEW c, HonestList(k, c), NEW W, NEW template \in Seq(W),
           \A t \in W : \E u, x : t.refs = <<<<u, x>>>>
    PROVE  HonestList(k, G!Merge(c, template))
<1>1. HonestList(k, G!Elements(c, StayingIn(c)))
  BY SomeOf
<1>2. PICK new : HonestList(k, new) /\ G!Merge(c, template) = G!Elements(c, StayingIn(c)) \o new
  BY MergeIs
<1> QED
  BY <1>1, <1>2, BothOf

\* The better of two copies has the higher rank.
Rank(x) == (IF G!HasText(x) THEN 8 ELSE 0) + (IF ~x.fuzzy THEN 4 ELSE 0)
           + (IF G!IsAudited(x) THEN 2 ELSE 0) + (IF G!RefRank(x) THEN 1 ELSE 0)

LEMMA BetterIs ==
    ASSUME NEW e, NEW d
    PROVE  G!Better(e, d) <=> Rank(d) < Rank(e)
<1> DEFINE Key(x) == <<G!HasText(x), ~x.fuzzy, G!IsAudited(x), G!RefRank(x)>>
<1>1. G!Better(e, d) <=> \E k \in 1 .. 4 : /\ \A j \in 1 .. (k - 1) : Key(e)[j] = Key(d)[j]
                                           /\ Key(e)[k] /\ ~Key(d)[k]
  BY DEF G!Better
<1>2. ASSUME NEW x PROVE /\ Key(x)[1] <=> G!HasText(x)
                         /\ Key(x)[2] <=> ~x.fuzzy
                         /\ Key(x)[3] <=> G!IsAudited(x)
                         /\ Key(x)[4] <=> G!RefRank(x)
                         /\ \A i \in 1 .. 4 : Key(x)[i] \in BOOLEAN
  <2>1. PICK h \in BOOLEAN, f \in BOOLEAN, a \in BOOLEAN, r \in BOOLEAN :
          (h <=> G!HasText(x)) /\ (f <=> ~x.fuzzy) /\ (a <=> G!IsAudited(x)) /\ (r <=> G!RefRank(x))
    OBVIOUS
  <2>2. Key(x) = <<h, f, a, r>>
    <3>1. h = G!HasText(x)
      BY <2>1 DEF G!HasText
    <3>2. f = ~x.fuzzy
      BY <2>1
    <3>3. a = G!IsAudited(x)
      BY <2>1 DEF G!IsAudited
    <3>4. r = G!RefRank(x)
      BY <2>1 DEF G!RefRank
    <3> QED
      BY <3>1, <3>2, <3>3, <3>4
  <2> HIDE DEF Key
  <2> QED
    BY <2>1, <2>2
<1> HIDE DEF Key
<1>3. G!Better(e, d) <=>
        \/ Key(e)[1] /\ ~Key(d)[1]
        \/ Key(e)[1] = Key(d)[1] /\ Key(e)[2] /\ ~Key(d)[2]
        \/ Key(e)[1] = Key(d)[1] /\ Key(e)[2] = Key(d)[2] /\ Key(e)[3] /\ ~Key(d)[3]
        \/ Key(e)[1] = Key(d)[1] /\ Key(e)[2] = Key(d)[2] /\ Key(e)[3] = Key(d)[3] /\ Key(e)[4] /\ ~Key(d)[4]
  BY <1>1
<1> QED
  BY <1>2, <1>3 DEF Rank

LEMMA PickIs ==
    ASSUME NEW k, NEW c, HonestList(k, c), c # <<>>
    PROVE  \E i \in DOMAIN c : G!Pick(c) = c[i] /\ \A j \in DOMAIN c : Rank(c[j]) <= Rank(c[i])
<1> DEFINE Best(i) == \A j \in DOMAIN c : ~G!Better(c[j], c[i]) /\ (j < i => G!Better(c[i], c[j]))
<1>1. DOMAIN c = 1 .. Len(c) /\ Len(c) \in Nat /\ (\A i \in DOMAIN c : HonestEntry(k, c[i])) /\ 1 \in DOMAIN c
  BY PlacesOf, FirstOf
<1>2. \E i \in DOMAIN c : Best(i)
  <2> DEFINE R(i) == Rank(c[i])
             S == {15 - R(i) : i \in DOMAIN c}
  <2>1. \A i : R(i) \in 0 .. 15
    BY DEF Rank
  <2> HIDE DEF R
  <2>2. S \subseteq Nat /\ S # {}
    BY <1>1, <2>1
  <2>3. PICK m \in S : \A y \in S : m <= y
    <3> HIDE DEF S
    <3> QED
      BY <2>2, LeastOf
  <2> DEFINE Tops == {i \in DOMAIN c : 15 - R(i) = m}
  <2>4. Tops \subseteq Nat /\ Tops # {}
    BY <1>1, <2>3
  <2>5. PICK i \in Tops : \A j \in Tops : i <= j
    <3> HIDE DEF Tops
    <3> QED
      BY <2>4, LeastOf
  <2>6. ASSUME NEW j \in DOMAIN c PROVE R(j) <= R(i) /\ (j < i => R(j) < R(i))
    <3>1. 15 - R(j) \in S /\ 15 - R(i) = m /\ i \in DOMAIN c
      BY <2>5
    <3>2. m <= 15 - R(j) /\ R(j) \in 0 .. 15 /\ R(i) \in 0 .. 15
      BY <2>1, <2>3, <3>1
    <3>3. 15 - R(j) = m => i <= j
      BY <2>5
    <3>4. i \in Nat /\ j \in Nat
      BY <1>1, <3>1
    <3> HIDE DEF S, Tops
    <3>5. R(j) <= R(i)
      BY <3>1, <3>2
    <3>6. j < i => R(j) # R(i)
      BY <3>1, <3>3, <3>4
    <3> QED
      BY <3>2, <3>5, <3>6
  <2>7. \A j \in DOMAIN c : (G!Better(c[j], c[i]) <=> R(i) < R(j)) /\ (G!Better(c[i], c[j]) <=> R(j) < R(i))
    BY BetterIs DEF R
  <2>8. Best(i)
    BY <2>1, <2>6, <2>7
  <2> QED
    BY <2>5, <2>8
<1> DEFINE i == CHOOSE i \in DOMAIN c : Best(i)
<1>3. i \in DOMAIN c /\ Best(i)
  BY <1>2
<1>4. G!Pick(c) = c[i]
  BY DEF G!Pick
<1>5. \A j \in DOMAIN c : Rank(c[j]) <= Rank(c[i])
  <2>1. \A j \in DOMAIN c : ~ (Rank(c[i]) < Rank(c[j]))
    BY <1>3, BetterIs
  <2>2. \A x : Rank(x) \in Nat
    BY DEF Rank
  <2> HIDE DEF i
  <2> QED
    BY <2>1, <2>2
<1> HIDE DEF i
<1> QED
  BY <1>3, <1>4, <1>5

\* Of a group of copies the one that stays takes the text and the flag of the best.
LEMMA JoinedIs ==
    ASSUME NEW k, k # "help", NEW e, HonestEntry(k, e), NEW w, HonestEntry(k, w), G!Live(w),
           NEW r, IsRefs(r), NEW s, NEW v
    PROVE  HonestEntry(k, [e EXCEPT !.target = w.target, !.fuzzy = w.fuzzy, !.refs = r, !.skip = s, !.salvaged = v])
BY DEF HonestEntry, EntryFields, G!Live

\* The first copies of a list's elements are all its elements.
LEMMA UniqueIs ==
    ASSUME NEW s, IsRefs(s)
    PROVE  IsRefs(G!Unique(s)) /\ G!ToSet(s) \subseteq G!ToSet(G!Unique(s))
<1> DEFINE places == {i \in DOMAIN s : \A j \in 1 .. (i - 1) : s[j] # s[i]}
<1>1. PICK W : s \in Seq(W) /\ \A r \in W : r[1] # "log4d"
  BY DEF IsRefs
<1>2. DOMAIN s = 1 .. Len(s) /\ Len(s) \in Nat /\ \A i \in DOMAIN s : s[i] \in W
  BY <1>1
<1>3. G!Unique(s) = G!Elements(s, places)
  BY Zenon DEF G!Unique
<1>4. ASSUME NEW i \in DOMAIN s PROVE \E m \in places : s[m] = s[i]
  <2> DEFINE At == {j \in DOMAIN s : s[j] = s[i]}
  <2>1. At \subseteq Nat /\ At # {}
    BY <1>2
  <2>2. PICK m \in At : \A j \in At : m <= j
    <3> HIDE DEF At
    <3> QED
      BY <2>1, LeastOf
  <2>3. m \in 1 .. Len(s) /\ s[m] = s[i]
    BY <1>2, <2>2
  <2>4. ASSUME NEW j \in 1 .. (m - 1) PROVE s[j] # s[m]
    <3>1. j \in DOMAIN s /\ ~ (m <= j)
      BY <1>2, <2>3
    <3> QED
      BY <2>2, <2>3, <3>1
  <2> QED
    BY <1>2, <2>3, <2>4
<1>5. /\ G!Elements(s, places) \in Seq(W)
      /\ \A i \in places \cap DOMAIN s : s[i] \in G!ToSet(G!Elements(s, places))
  <2> HIDE DEF places
  <2>1. \A i \in places \cap DOMAIN s : s[i] \in W
    BY <1>2
  <2> QED
    BY <1>1, <2>1, ElementsOf
<1>6. G!ToSet(s) \subseteq G!ToSet(G!Unique(s))
  <2> SUFFICES ASSUME NEW i \in DOMAIN s PROVE s[i] \in G!ToSet(G!Unique(s))
    BY DEF G!ToSet
  <2>1. PICK m \in places : s[m] = s[i]
    BY <1>4
  <2> QED
    BY <1>3, <1>5, <2>1
<1> HIDE DEF places
<1> QED
  BY <1>1, <1>3, <1>5, <1>6 DEF IsRefs

LEMMA TogetherIs ==
    ASSUME NEW W, NEW a \in Seq(W), NEW b \in Seq(W)
    PROVE  G!ToSet(a) \subseteq G!ToSet(a \o b) /\ G!ToSet(b) \subseteq G!ToSet(a \o b)
<1>1. /\ Len(a) \in Nat /\ Len(b) \in Nat
      /\ DOMAIN a = 1 .. Len(a) /\ DOMAIN b = 1 .. Len(b) /\ DOMAIN (a \o b) = 1 .. (Len(a) + Len(b))
      /\ \A i \in 1 .. Len(a) : (a \o b)[i] = a[i]
      /\ \A i \in 1 .. Len(b) : (a \o b)[Len(a) + i] = b[i]
  OBVIOUS
<1>2. \A i \in 1 .. Len(a) : i \in 1 .. (Len(a) + Len(b))
  BY <1>1
<1>3. \A i \in 1 .. Len(b) : Len(a) + i \in 1 .. (Len(a) + Len(b))
  BY <1>1
<1>4. G!ToSet(a) \subseteq G!ToSet(a \o b)
  BY <1>1, <1>2 DEF G!ToSet
<1>5. G!ToSet(b) \subseteq G!ToSet(a \o b)
  BY <1>1, <1>3 DEF G!ToSet
<1> QED
  BY <1>4, <1>5

LEMMA FirstList ==
    ASSUME NEW k, NEW c, HonestList(k, c), NEW d, HonestList(k, d)
    PROVE  G!ToSet(c) \subseteq G!ToSet(c \o d)
<1>1. PICK A : c \in Seq(A)
  BY DEF HonestList
<1>2. PICK B : d \in Seq(B)
  BY DEF HonestList
<1>3. c \in Seq(A \cup B) /\ d \in Seq(A \cup B)
  BY <1>1, <1>2
<1> QED
  BY <1>3, TogetherIs

\* Some lists one after the other are a list with the elements of each.
LEMMA FlattenIs ==
    ASSUME NEW n \in Nat, NEW ss, ss = [i \in 1 .. n |-> ss[i]], \A i \in 1 .. n : IsRefs(ss[i])
    PROVE  /\ IsRefs(G!FlattenSeq(ss))
           /\ \A i \in 1 .. n : G!ToSet(ss[i]) \subseteq G!ToSet(G!FlattenSeq(ss))
<1> DEFINE W == UNION {G!ToSet(ss[i]) : i \in 1 .. n}
           Body(f, m) == [i \in 1 .. m |-> IF i = 1 THEN ss[i] ELSE f[i - 1] \o ss[i]]
           Upto(f, m) == f \in [1 .. m -> Seq(W)] /\ f = Body(f, m)
           S == {m \in 0 .. n : \E f : Upto(f, m)}
<1>1. \A i \in 1 .. n : ss[i] \in Seq(W) /\ \A r \in G!ToSet(ss[i]) : r[1] # "log4d"
  <2> SUFFICES ASSUME NEW i \in 1 .. n PROVE ss[i] \in Seq(W) /\ \A r \in G!ToSet(ss[i]) : r[1] # "log4d"
    OBVIOUS
  <2>1. PICK V : ss[i] \in Seq(V) /\ \A r \in V : r[1] # "log4d"
    BY DEF IsRefs
  <2>2. G!ToSet(ss[i]) \subseteq W
    OBVIOUS
  <2>3. /\ Len(ss[i]) \in Nat /\ ss[i] \in [1 .. Len(ss[i]) -> V]
        /\ DOMAIN ss[i] = 1 .. Len(ss[i])
    BY <2>1
  <2>4. G!ToSet(ss[i]) = {ss[i][j] : j \in DOMAIN ss[i]}
    BY DEF G!ToSet
  <2> HIDE DEF W
  <2>5. ss[i] \in [1 .. Len(ss[i]) -> W]
    BY <2>2, <2>3, <2>4
  <2> QED
    BY <2>1, <2>3, <2>4, <2>5
<1>2. \A r \in W : r[1] # "log4d"
  BY <1>1
<1> HIDE DEF W
<1>3. \A m \in 0 .. n : m \in S
  <2>1. 0 \in S
    <3>1. 0 \in 0 .. n /\ 1 .. 0 = {}
      OBVIOUS
    <3>2. Upto([i \in 1 .. 0 |-> <<>>], 0)
      BY <3>1
    <3> HIDE DEF Upto
    <3> QED
      BY <3>1, <3>2
  <2>2. ASSUME NEW m \in 1 .. n, m - 1 \in S PROVE m \in S
    <3>1. PICK g : Upto(g, m - 1)
      BY <2>2
    <3> DEFINE f == [i \in 1 .. m |-> IF i = m THEN IF m = 1 THEN ss[m] ELSE g[m - 1] \o ss[m] ELSE g[i]]
    <3>2. m \in Nat /\ (m # 1 => m - 1 \in 1 .. (m - 1) /\ g[m - 1] \in Seq(W))
      <4>1. m \in Nat /\ (m # 1 => m - 1 \in 1 .. (m - 1))
        OBVIOUS
      <4>2. g \in [1 .. (m - 1) -> Seq(W)]
        BY <3>1
      <4> QED
        BY <4>1, <4>2
    <3>3. f \in [1 .. m -> Seq(W)]
      <4>1. m # 1 => g[m - 1] \o ss[m] \in Seq(W)
        BY <1>1, <3>2
      <4>2. ASSUME NEW i \in 1 .. m, i # m PROVE g[i] \in Seq(W)
        <5>1. i \in 1 .. (m - 1)
          BY <3>2, <4>2
        <5>2. g \in [1 .. (m - 1) -> Seq(W)]
          BY <3>1
        <5> QED
          BY <5>1, <5>2
      <4> QED
        BY <1>1, <4>1, <4>2
    <3>4. ASSUME NEW i \in 1 .. m PROVE f[i] = IF i = 1 THEN ss[i] ELSE f[i - 1] \o ss[i]
      <4>1. CASE i = m
        <5>1. m # 1 => m - 1 \in 1 .. m /\ m - 1 # m
          BY <3>2
        <5>2. f[m] = IF m = 1 THEN ss[m] ELSE g[m - 1] \o ss[m]
          OBVIOUS
        <5>3. m # 1 => f[m - 1] = g[m - 1]
          BY <5>1
        <5> QED
          BY <4>1, <5>2, <5>3
      <4>2. CASE i # m
        <5>1. i \in 1 .. (m - 1) /\ (i # 1 => i - 1 \in 1 .. m /\ i - 1 # m)
          BY <4>2, <3>2
        <5>2. f[i] = g[i] /\ (i # 1 => f[i - 1] = g[i - 1])
          BY <5>1, <4>2
        <5>3. g[i] = IF i = 1 THEN ss[i] ELSE g[i - 1] \o ss[i]
          BY <3>1, <5>1
        <5> QED
          BY <5>2, <5>3
      <4> QED
        BY <4>1, <4>2
    <3>5. Upto(f, m)
      BY <3>3, <3>4
    <3> HIDE DEF f, Upto
    <3> QED
      BY <3>5
  <2> HIDE DEF S
  <2> QED
    BY <2>1, <2>2, UpTo
<1>4. DOMAIN ss = 1 .. n /\ Len(ss) = n
  BY <1>1
<1> DEFINE h == CHOOSE h : h = Body(h, n)
<1>5. h = Body(h, n)
  <2>1. n \in S
    <3> HIDE DEF S
    <3> QED
      BY <1>3
  <2>2. PICK f : f = Body(f, n)
    BY <2>1
  <2> HIDE DEF Body
  <2> QED
    BY <2>2
<1>6. \A i \in 1 .. n : h[i] = IF i = 1 THEN ss[i] ELSE h[i - 1] \o ss[i]
  <2> HIDE DEF h
  <2> QED
    BY <1>5
<1>7. CASE n = 0
  <2>1. G!FlattenSeq(ss) = ss /\ ss \in Seq({}) /\ 1 .. n = {}
    BY <1>4, <1>7 DEF G!FlattenSeq
  <2> QED
    BY <2>1 DEF IsRefs
<1>8. CASE n # 0
  <2>1. G!FlattenSeq(ss) = h[n]
    BY <1>4, <1>8 DEF G!FlattenSeq
  <2> HIDE DEF h
  <2> DEFINE Whole(m) == h[m] \in Seq(W) /\ \A i \in 1 .. m : G!ToSet(ss[i]) \subseteq G!ToSet(h[m])
             R == {m \in 0 .. n : m # 0 => Whole(m)}
  <2>2. ASSUME NEW m \in 1 .. n, m - 1 \in R PROVE m \in R
    <3>1. CASE m = 1
      <4>1. h[m] = ss[m] /\ ss[m] \in Seq(W) /\ \A i \in 1 .. m : i = m
        BY <1>1, <1>6, <3>1
      <4> QED
        BY <4>1
    <3>2. CASE m # 1
      <4>1. h[m] = h[m - 1] \o ss[m] /\ ss[m] \in Seq(W) /\ Whole(m - 1)
        <5>1. h[m] = h[m - 1] \o ss[m] /\ ss[m] \in Seq(W)
          BY <1>1, <1>6, <3>2
        <5>2. m - 1 # 0
          BY <3>2
        <5> HIDE DEF Whole
        <5>3. Whole(m - 1)
          BY <2>2, <5>2
        <5> QED
          BY <5>1, <5>3
      <4>2. h[m] \in Seq(W)
        BY <4>1
      <4>3. G!ToSet(h[m - 1]) \subseteq G!ToSet(h[m]) /\ G!ToSet(ss[m]) \subseteq G!ToSet(h[m])
        BY <4>1, TogetherIs
      <4>4. \A i \in 1 .. m : i = m \/ i \in 1 .. (m - 1)
        OBVIOUS
      <4>5. \A i \in 1 .. (m - 1) : G!ToSet(ss[i]) \subseteq G!ToSet(h[m])
        BY <4>1, <4>3
      <4>6. Whole(m)
        BY <4>2, <4>3, <4>4, <4>5
      <4> HIDE DEF Whole
      <4> QED
        BY <4>6
    <3> QED
      BY <3>1, <3>2
  <2>3. 0 \in R
    OBVIOUS
  <2> HIDE DEF R
  <2>4. n \in R
    BY <2>2, <2>3, UpTo
  <2>5. Whole(n)
    BY <1>8, <2>4 DEF R
  <2> QED
    BY <1>2, <2>1, <2>5 DEF IsRefs
<1> QED
  BY <1>7, <1>8

\* po_dedupe: the copies of an entry, what becomes of it, and the places that stay.
SameAs(e, d) == G!Live(e) /\ G!Live(d) /\ e.ctx = d.ctx /\ e.source = d.source
GroupOf(c, e) == G!Elements(c, {i \in DOMAIN c : SameAs(e, c[i])})
RefsOf(c, e) == G!Unique(G!FlattenSeq(G!MapEntries(GroupOf(c, e), LAMBDA d : d.refs)))
JoinedOf(c, e) == [e EXCEPT !.target = G!Pick(GroupOf(c, e)).target, !.fuzzy = G!Pick(GroupOf(c, e)).fuzzy,
                            !.refs = RefsOf(c, e),
                            !.skip = \E d \in G!Entries(GroupOf(c, e)) : d.skip,
                            !.salvaged = \E d \in G!Entries(GroupOf(c, e)) : d.salvaged]
AfterOf(c, e) == IF Len(GroupOf(c, e)) > 1 THEN JoinedOf(c, e) ELSE e
PlacesIn(c) == [i \in DOMAIN c |-> i]
FirstIn(c, i) == \A j \in 1 .. (i - 1) : ~ SameAs(c[i], c[j])
KeptOf(c) == G!Elements(PlacesIn(c), {i \in DOMAIN PlacesIn(c) : FirstIn(c, PlacesIn(c)[i])})

LEMMA DedupeIs ==
    ASSUME NEW c
    PROVE  G!Dedupe(c) = [n \in DOMAIN KeptOf(c) |-> AfterOf(c, c[KeptOf(c)[n]])]
BY Zenon DEF G!Dedupe, G!Those, SameAs, GroupOf, RefsOf, JoinedOf, AfterOf, PlacesIn, FirstIn, KeptOf

LEMMA GroupIs ==
    ASSUME NEW k, NEW c, HonestList(k, c), NEW e
    PROVE  /\ HonestList(k, GroupOf(c, e))
           /\ \A j \in DOMAIN GroupOf(c, e) : SameAs(e, GroupOf(c, e)[j])
           /\ \A i \in DOMAIN c : SameAs(e, c[i]) => c[i] \in G!ToSet(GroupOf(c, e))
           /\ IsRefs(RefsOf(c, e))
           /\ \A j \in DOMAIN GroupOf(c, e) : G!ToSet(GroupOf(c, e)[j].refs) \subseteq G!ToSet(RefsOf(c, e))
<1> DEFINE V == {x \in {c[i] : i \in DOMAIN c} : SameAs(e, x)}
           places == {i \in DOMAIN c : SameAs(e, c[i])}
           g == GroupOf(c, e)
           ss == [i \in DOMAIN g |-> g[i].refs]
<1>1. PICK W : c \in Seq(W)
  BY DEF HonestList
<1>2. g \in Seq(V) /\ \A i \in places \cap DOMAIN c : c[i] \in G!ToSet(g)
  <2>1. \A i \in places \cap DOMAIN c : c[i] \in V
    OBVIOUS
  <2>2. g = G!Elements(c, places)
    BY Zenon DEF GroupOf
  <2> HIDE DEF V, places, g
  <2> QED
    BY <1>1, <2>1, <2>2, ElementsOf
<1>3. HonestList(k, g)
  BY SomeOf DEF GroupOf
<1>4. Len(g) \in Nat /\ DOMAIN g = 1 .. Len(g) /\ \A j \in DOMAIN g : g[j] \in V /\ HonestEntry(k, g[j])
  <2> HIDE DEF V, g
  <2> QED
    BY <1>2, <1>3, PlacesOf
<1>5. RefsOf(c, e) = G!Unique(G!FlattenSeq(ss))
  BY Zenon DEF RefsOf, G!MapEntries
<1> HIDE DEF g
<1>6. ss = [i \in 1 .. Len(g) |-> ss[i]] /\ \A i \in 1 .. Len(g) : ss[i] = g[i].refs /\ IsRefs(ss[i])
  BY <1>4 DEF HonestEntry
<1> HIDE DEF ss
<1>7. IsRefs(G!FlattenSeq(ss)) /\ \A i \in 1 .. Len(g) : G!ToSet(ss[i]) \subseteq G!ToSet(G!FlattenSeq(ss))
  BY <1>4, <1>6, FlattenIs
<1>8. IsRefs(RefsOf(c, e)) /\ G!ToSet(G!FlattenSeq(ss)) \subseteq G!ToSet(RefsOf(c, e))
  BY <1>5, <1>7, UniqueIs
<1>9. \A j \in DOMAIN g : SameAs(e, g[j]) /\ G!ToSet(g[j].refs) \subseteq G!ToSet(RefsOf(c, e))
  BY <1>4, <1>6, <1>7, <1>8
<1>10. \A i \in DOMAIN c : SameAs(e, c[i]) => c[i] \in G!ToSet(g)
  BY <1>2
<1> QED
  BY <1>3, <1>8, <1>9, <1>10 DEF g

LEMMA KeptIs ==
    ASSUME NEW k, NEW c, HonestList(k, c)
    PROVE  /\ Len(KeptOf(c)) \in Nat /\ DOMAIN KeptOf(c) = 1 .. Len(KeptOf(c))
           /\ \A n \in DOMAIN KeptOf(c) : KeptOf(c)[n] \in DOMAIN c
           /\ \A i \in DOMAIN c : FirstIn(c, i) => \E n \in DOMAIN KeptOf(c) : KeptOf(c)[n] = i
<1> DEFINE places == {i \in DOMAIN PlacesIn(c) : FirstIn(c, PlacesIn(c)[i])}
<1>1. DOMAIN c = 1 .. Len(c) /\ Len(c) \in Nat
  BY PlacesOf
<1>2. PlacesIn(c) \in Seq(DOMAIN c) /\ DOMAIN PlacesIn(c) = DOMAIN c /\ \A i \in DOMAIN c : PlacesIn(c)[i] = i
  BY <1>1 DEF PlacesIn
<1>3. KeptOf(c) = G!Elements(PlacesIn(c), places)
  BY Zenon DEF KeptOf
<1>4. \A i \in DOMAIN c : FirstIn(c, i) => i \in places
  BY <1>2
<1> HIDE DEF places
<1>5. \A i \in places \cap DOMAIN PlacesIn(c) : PlacesIn(c)[i] \in DOMAIN c
  BY <1>2
<1>6. /\ KeptOf(c) \in Seq(DOMAIN c)
      /\ \A i \in places \cap DOMAIN PlacesIn(c) : PlacesIn(c)[i] \in G!ToSet(KeptOf(c))
  BY <1>2, <1>3, <1>5, ElementsOf
<1>7. \A i \in DOMAIN c : FirstIn(c, i) => i \in G!ToSet(KeptOf(c))
  BY <1>2, <1>4, <1>6
<1>8. Len(KeptOf(c)) \in Nat /\ DOMAIN KeptOf(c) = 1 .. Len(KeptOf(c)) /\ \A n \in DOMAIN KeptOf(c) : KeptOf(c)[n] \in DOMAIN c
  BY <1>6
<1> QED
  BY <1>7, <1>8 DEF G!ToSet

LEMMA DedupeHonest ==
    ASSUME NEW k, k # "help", NEW c, HonestList(k, c)
    PROVE  HonestList(k, G!Dedupe(c))
<1>1. \A i \in DOMAIN c : HonestEntry(k, c[i])
  BY PlacesOf
<1>2. ASSUME NEW e, HonestEntry(k, e) PROVE HonestEntry(k, AfterOf(c, e))
  <2>1. CASE Len(GroupOf(c, e)) > 1
    <3>1. /\ HonestList(k, GroupOf(c, e)) /\ IsRefs(RefsOf(c, e))
          /\ \A j \in DOMAIN GroupOf(c, e) : SameAs(e, GroupOf(c, e)[j])
      BY GroupIs
    <3>2. GroupOf(c, e) # <<>>
      <4>1. Len(<<>>) = 0
        OBVIOUS
      <4> QED
        BY <2>1, <4>1
    <3>3. PICK j \in DOMAIN GroupOf(c, e) : G!Pick(GroupOf(c, e)) = GroupOf(c, e)[j]
      BY <3>1, <3>2, PickIs
    <3>4. HonestEntry(k, G!Pick(GroupOf(c, e))) /\ G!Live(G!Pick(GroupOf(c, e)))
      BY <3>1, <3>3, PlacesOf DEF SameAs
    <3>5. HonestEntry(k, JoinedOf(c, e))
      BY <1>2, <3>1, <3>4, JoinedIs DEF JoinedOf
    <3> QED
      BY <2>1, <3>5 DEF AfterOf
  <2>2. CASE ~ (Len(GroupOf(c, e)) > 1)
    BY <1>2, <2>2 DEF AfterOf
  <2> QED
    BY <2>1, <2>2
<1>3. Len(KeptOf(c)) \in Nat /\ DOMAIN KeptOf(c) = 1 .. Len(KeptOf(c)) /\ \A n \in DOMAIN KeptOf(c) : KeptOf(c)[n] \in DOMAIN c
  BY KeptIs
<1>4. \A n \in 1 .. Len(KeptOf(c)) : HonestEntry(k, AfterOf(c, c[KeptOf(c)[n]]))
  BY <1>1, <1>2, <1>3
<1>5. G!Dedupe(c) = [n \in 1 .. Len(KeptOf(c)) |-> AfterOf(c, c[KeptOf(c)[n]])]
  BY <1>3, DedupeIs
<1> QED
  BY <1>3, <1>4, <1>5, ListOf

\* po_rekey: a new first reference, and those it does not replace.
WantOf(unit, e) == <<unit, IF e.ctx[1] = "" THEN e.ctx[2] ELSE e.ctx>>
RekeyedRefs(unit, e) ==
    <<WantOf(unit, e)>> \o
      G!Elements(e.refs, {i \in DOMAIN e.refs : e.refs[i][2] # WantOf(unit, e)[2] \/ e.refs[i][1] = "form"})

LEMMA RekeyIs ==
    ASSUME NEW c, NEW unit, NEW i \in DOMAIN c
    PROVE  G!Rekey(c, unit)[i] \in {c[i], [c[i] EXCEPT !.refs = RekeyedRefs(unit, c[i])]}
<1> DEFINE Rekeyed(e) == IF e.obsolete \/ e.ctx = G!NoCtx \/ G!Contains(e.refs, WantOf(unit, e)) THEN e
                         ELSE [e EXCEPT !.refs = RekeyedRefs(unit, e)]
<1>1. G!Rekey(c, unit) = [n \in DOMAIN c |-> Rekeyed(c[n])]
  BY Zenon DEF G!Rekey, G!MapEntries, G!Those, WantOf, RekeyedRefs
<1> HIDE DEF Rekeyed
<1>2. G!Rekey(c, unit)[i] = Rekeyed(c[i])
  BY <1>1
<1> QED
  BY <1>2 DEF Rekeyed

LEMMA RekeyedRefsAre ==
    ASSUME NEW unit, unit # "log4d", NEW e, IsRefs(e.refs)
    PROVE  /\ IsRefs(RekeyedRefs(unit, e))
           /\ WantOf(unit, e) \in G!ToSet(RekeyedRefs(unit, e))
           /\ \A r \in G!ToSet(e.refs) : r[2] = WantOf(unit, e)[2] \/ r \in G!ToSet(RekeyedRefs(unit, e))
<1> DEFINE places == {i \in DOMAIN e.refs : e.refs[i][2] # WantOf(unit, e)[2] \/ e.refs[i][1] = "form"}
           rest == G!Elements(e.refs, places)
           first == <<WantOf(unit, e)>>
<1>1. PICK W : e.refs \in Seq(W) /\ \A r \in W : r[1] # "log4d"
  BY DEF IsRefs
<1>2. WantOf(unit, e)[1] = unit
  BY DEF WantOf
<1>3. RekeyedRefs(unit, e) = first \o rest
  BY Zenon DEF RekeyedRefs
<1>4. \A i \in DOMAIN e.refs : e.refs[i][2] = WantOf(unit, e)[2] \/ i \in places
  OBVIOUS
<1> HIDE DEF places
<1>5. \A i \in places \cap DOMAIN e.refs : e.refs[i] \in W
  BY <1>1
<1>6. rest \in Seq(W) /\ \A i \in places \cap DOMAIN e.refs : e.refs[i] \in G!ToSet(rest)
  BY <1>1, <1>5, ElementsOf
<1> DEFINE V == W \cup {WantOf(unit, e)}
<1>7. first \in Seq(V) /\ Len(first) = 1 /\ first[1] = WantOf(unit, e)
  OBVIOUS
<1> HIDE DEF rest, first
<1>8. rest \in Seq(V) /\ first \o rest \in Seq(V)
  BY <1>6, <1>7
<1>9. WantOf(unit, e) \in G!ToSet(first)
  <2>1. 1 \in DOMAIN first
    BY <1>7
  <2> QED
    BY <1>7, <2>1 DEF G!ToSet
<1>10. G!ToSet(first) \subseteq G!ToSet(first \o rest) /\ G!ToSet(rest) \subseteq G!ToSet(first \o rest)
  <2> HIDE DEF V
  <2> QED
    BY <1>7, <1>8, TogetherIs
<1>11. WantOf(unit, e) \in G!ToSet(first \o rest)
  BY <1>9, <1>10
<1>12. \A r \in G!ToSet(e.refs) : r[2] = WantOf(unit, e)[2] \/ r \in G!ToSet(rest)
  BY <1>4, <1>6 DEF G!ToSet
<1>13. IsRefs(first \o rest)
  BY <1>1, <1>2, <1>8 DEF IsRefs, V
<1> QED
  BY <1>3, <1>10, <1>11, <1>12, <1>13

LEMMA RekeyHonest ==
    ASSUME NEW k, NEW c, HonestList(k, c), NEW unit, unit # "log4d"
    PROVE  HonestList(k, G!Rekey(c, unit))
<1>1. \A e, r : HonestEntry(k, e) /\ IsRefs(r) => HonestEntry(k, [e EXCEPT !.refs = r])
  BY DEF HonestEntry, EntryFields, G!Translated, G!Live, G!HasText
<1>2. ASSUME NEW i \in DOMAIN c PROVE HonestEntry(k, c[i]) /\ IsRefs(RekeyedRefs(unit, c[i]))
  <2>1. HonestEntry(k, c[i])
    BY PlacesOf
  <2>2. IsRefs(c[i].refs)
    BY <2>1 DEF HonestEntry
  <2> QED
    BY <2>1, <2>2, RekeyedRefsAre
<1> HIDE DEF HonestEntry
<1>3. G!Rekey(c, unit) = [i \in DOMAIN c |-> G!Rekey(c, unit)[i]]
  BY DEF G!Rekey, G!MapEntries
<1>4. ASSUME NEW i \in DOMAIN c PROVE HonestEntry(k, G!Rekey(c, unit)[i])
  <2>1. HonestEntry(k, c[i]) /\ HonestEntry(k, [c[i] EXCEPT !.refs = RekeyedRefs(unit, c[i])])
    BY <1>1, <1>2
  <2> QED
    BY <2>1, RekeyIs
<1> QED
  BY <1>3, <1>4, MapOf

LEMMA PruneHonest ==
    ASSUME NEW k, NEW c, HonestList(k, c), NEW english
    PROVE  HonestList(k, G!Prune(c, english))
<1>1. \A i \in DOMAIN c : HonestEntry(k, c[i]) /\ HonestEntry(k, [c[i] EXCEPT !.obsolete = TRUE])
  BY PlacesOf, Flagged
<1> HIDE DEF HonestEntry
<1>2. G!Prune(c, english) = [i \in DOMAIN c |-> G!Prune(c, english)[i]]
  BY DEF G!Prune, G!MapEntries
<1>3. \A i \in DOMAIN c : HonestEntry(k, G!Prune(c, english)[i])
  BY <1>1 DEF G!Prune, G!MapEntries
<1> QED
  BY <1>2, <1>3, MapOf

LEMMA SalvageHonest ==
    ASSUME NEW k, NEW c, HonestList(k, c), NEW found
    PROVE  HonestList(k, G!Salvage(c, found))
<1>1. ASSUME NEW e, HonestEntry(k, e)
      PROVE  HonestEntry(k, [e EXCEPT !.target = G!Repaired(e.source), !.fuzzy = TRUE, !.salvaged = TRUE])
  <2>1. HonestEntry(k, [e EXCEPT !.target = G!Repaired(e.source), !.fuzzy = TRUE])
    BY <1>1, Retold, Texts DEF G!Repaired
  <2> QED
    BY <1>1, <2>1 DEF HonestEntry, EntryFields, G!Translated, G!Live, G!HasText
<1>2. \A i \in DOMAIN c : HonestEntry(k, c[i])
  BY PlacesOf
<1> HIDE DEF HonestEntry
<1>3. G!Salvage(c, found) = [i \in DOMAIN c |-> G!Salvage(c, found)[i]]
  BY DEF G!Salvage, G!MapEntries
<1>4. \A i \in DOMAIN c :
        \/ G!Salvage(c, found)[i] = c[i]
        \/ G!Salvage(c, found)[i]
             = [c[i] EXCEPT !.target = G!Repaired(c[i].source), !.fuzzy = TRUE, !.salvaged = TRUE]
  BY DEF G!Salvage, G!MapEntries
<1>5. ASSUME NEW i \in DOMAIN c PROVE HonestEntry(k, G!Salvage(c, found)[i])
  <2>1. HonestEntry(k, c[i])
    BY <1>2
  <2>2. HonestEntry(k, [c[i] EXCEPT !.target = G!Repaired(c[i].source), !.fuzzy = TRUE, !.salvaged = TRUE])
    BY <1>1, <2>1
  <2> QED
    BY <1>4, <2>1, <2>2
<1> QED
  BY <1>3, <1>5, MapOf

LEMMA SpacedHonest ==
    ASSUME NEW k, NEW c, HonestCat(k, c)
    PROVE  HonestCat(k, G!FixSpacing(c))
<1> USE DEF HonestCat
<1>1. ASSUME NEW e, HonestEntry(k, e)
      PROVE  HonestEntry(k, [e EXCEPT !.target = G!Mended(e.target)])
  <2>1. IsText(e.target) /\ (e.target.by \in Borrowed => e.fuzzy) /\ (e.target.by = "english" /\ ~e.obsolete => e.fuzzy)
        /\ (k = "help" /\ ~e.fuzzy /\ e.target # G!Empty /\ ~e.obsolete => e.target.of = e.source)
    BY <1>1 DEF HonestEntry, G!Translated, G!Live, G!HasText
  <2> QED
    BY <1>1, <2>1, Retexted, Texts
<1>2. \A i \in DOMAIN c : HonestEntry(k, c[i])
  BY PlacesOf
<1> HIDE DEF HonestEntry
<1>3. G!FixSpacing(c) = [i \in DOMAIN c |-> G!FixSpacing(c)[i]]
  BY DEF G!FixSpacing, G!MapEntries
<1>4. \A i \in DOMAIN c : HonestEntry(k, G!FixSpacing(c)[i])
  BY <1>1, <1>2 DEF G!FixSpacing, G!MapEntries
<1> QED
  BY <1>3, <1>4, MapOf

LEMMA LintHonest ==
    ASSUME NEW k, NEW c, HonestCat(k, c)
    PROVE  HonestCat(k, G!LintFix(c))
<1> USE DEF HonestCat
<1> DEFINE Found(e) == e.fuzzy \/ "english" \in G!LintFinds(e)
           Text(e) == IF "seam" \in G!LintFinds(e) THEN G!Mended(e.target) ELSE e.target
           Fixed(e) == [e EXCEPT !.fuzzy = Found(e), !.target = Text(e)]
<1>1. ASSUME NEW e, HonestEntry(k, e) PROVE HonestEntry(k, Fixed(e))
  <2>1. /\ IsText(e.target) /\ e.fuzzy \in BOOLEAN /\ (e.target.by \in Borrowed => e.fuzzy)
        /\ e.target.by = "english" /\ ~e.obsolete => e.fuzzy
        /\ k = "help" /\ ~e.fuzzy /\ e.target # G!Empty /\ ~e.obsolete => e.target.of = e.source
    BY <1>1 DEF HonestEntry, G!Translated, G!Live, G!HasText
  <2>2. /\ IsText(Text(e)) /\ Text(e).by = e.target.by /\ Text(e).of = e.target.of
        /\ e.target = G!Empty <=> Text(e) = G!Empty
    BY <2>1, Texts
  <2>3. PICK f \in BOOLEAN : f <=> Found(e)
    OBVIOUS
  <2>4. f = Found(e)
    BY <2>3
  <2> HIDE DEF Text, Found
  <2>5. HonestEntry(k, [e EXCEPT !.target = Text(e), !.fuzzy = f])
    <3>1. e.fuzzy => f
      BY <2>3 DEF Found
    <3> QED
      BY <1>1, <2>1, <2>2, <3>1, Retold
  <2>6. [e EXCEPT !.target = Text(e), !.fuzzy = f] = [e EXCEPT !.fuzzy = f, !.target = Text(e)]
    OBVIOUS
  <2> QED
    BY <2>4, <2>5, <2>6
<1>2. \A i \in DOMAIN c : HonestEntry(k, c[i])
  BY PlacesOf
<1>3. G!LintFix(c) = [i \in DOMAIN c |-> Fixed(c[i])]
  BY Zenon DEF G!LintFix, G!MapEntries
<1> HIDE DEF HonestEntry, Fixed
<1>4. \A i \in DOMAIN c : HonestEntry(k, Fixed(c[i]))
  BY <1>1, <1>2
<1> QED
  BY <1>3, <1>4, MapOf

\* A list made of some elements of a finite set.
LEMMA ListFromSome ==
    ASSUME NEW k, NEW S, IsFiniteSet(S), NEW places, NEW c,
           c = [n \in DOMAIN G!Elements(G!InOrder(S), places) |-> c[n]],
           \A n \in DOMAIN c : G!Elements(G!InOrder(S), places)[n] \in S => HonestEntry(k, c[n])
    PROVE  HonestList(k, c)
<1> DEFINE some == G!Elements(G!InOrder(S), places)
<1>1. G!InOrder(S) \in Seq(S)
  BY OrderOf
<1>2. some \in Seq(S)
  BY <1>1, ElementsOf
<1> HIDE DEF some
<1>3. Len(some) \in Nat /\ DOMAIN some = 1 .. Len(some) /\ \A n \in DOMAIN some : some[n] \in S
  BY <1>2
<1> HIDE DEF HonestEntry
<1>4. c = [n \in 1 .. Len(some) |-> c[n]] /\ \A n \in 1 .. Len(some) : HonestEntry(k, c[n])
  BY <1>3 DEF some
<1> QED
  BY <1>3, <1>4, ListOf

\* po_backfill adds to a catalogue.
LEMMA BackfillHonest ==
    ASSUME NEW k, k # "help", NEW c, HonestList(k, c), NEW english, NEW t, HonestTable(t)
    PROVE  HonestList(k, G!Backfill(c, english, t)) /\ G!ToSet(c) \subseteq G!ToSet(G!Backfill(c, english, t))
<1> DEFINE S == G!Declared(english) \cap TableIds
           Filled(id) == G!NewEntry(G!Bare(id), english[id], t[id],
                                    t[id] = G!Empty \/ G!SameAsEnglish(t[id]), <<<<"utr4wstrings", id>>>>)
           New(places) == [n \in DOMAIN G!Elements(G!InOrder(S), places)
                             |-> Filled(G!Elements(G!InOrder(S), places)[n])]
<1>1. ASSUME NEW id \in S PROVE HonestEntry(k, Filled(id))
  <2>1. IsText(t[id]) /\ t[id].by \notin Borrowed
    BY DEF HonestTable
  <2>2. PICK f \in BOOLEAN : f <=> (t[id] = G!Empty \/ G!SameAsEnglish(t[id]))
    OBVIOUS
  <2>3. f = (t[id] = G!Empty \/ G!SameAsEnglish(t[id]))
    BY <2>2
  <2>4. t[id].by = "english" => f
    BY <2>2 DEF G!SameAsEnglish
  <2>5. IsRefs(<<<<"utr4wstrings", id>>>>)
    BY FewRefs
  <2> QED
    BY <2>1, <2>3, <2>4, <2>5, NewIs
<1>2. IsFiniteSet(S)
  BY FiniteIds
<1>3. ASSUME NEW places PROVE HonestList(k, New(places))
  <2> HIDE DEF S, Filled
  <2>1. \A n \in DOMAIN New(places) : New(places)[n] = Filled(G!Elements(G!InOrder(S), places)[n])
    OBVIOUS
  <2>2. New(places) = [n \in DOMAIN G!Elements(G!InOrder(S), places) |-> New(places)[n]]
    OBVIOUS
  <2> HIDE DEF New
  <2> QED
    BY <1>1, <1>2, <2>1, <2>2, ListFromSome
<1>4. \E places : G!Backfill(c, english, t) = c \o New(places)
  <2> HIDE DEF G!NewEntry
  <2> QED
    BY Zenon DEF G!Backfill, G!Those
<1> HIDE DEF New
<1> QED
  BY <1>3, <1>4, BothOf, FirstList

\* What a tool makes of the text of a name English no longer has.
LEMMA ExtraIs ==
    ASSUME NEW k, NEW ctx, NEW t, IsText(t), t.by \notin Borrowed
    PROVE  HonestEntry(k, [G!NewEntry(ctx, G!Foreign, t, FALSE, <<>>) EXCEPT !.obsolete = TRUE])
BY FewRefs DEF HonestEntry, G!NewEntry, EntryFields, G!Translated, G!Live, G!HasText

LEMMA KeyIsEntry ==
    ASSUME NEW k, NEW c, HonestList(k, c), NEW ctx, NEW e \in G!ByKey(c, ctx)
    PROVE  HonestEntry(k, e) /\ G!Live(e)
<1>1. \E i \in DOMAIN c : e = c[i] /\ G!Live(c[i])
  BY DEF G!ByKey
<1> QED
  BY <1>1, PlacesOf

\* pas2po takes English for a translation only where a reviewer did: nowhere.
LEMMA EmitHonest ==
    ASSUME NEW k, k # "help", NEW c, HonestList(k, c), NEW english, NEW t, HonestTable(t)
    PROVE  HonestList(k, G!Emit(c, english, t))
<1> DEFINE S == G!LiveResourcestrings(english)
           X == {id \in TableIds \ G!Declared(english) : t[id] # G!Empty}
           Flag(id) == \/ t[id] = G!Empty
                       \/ /\ G!SameAsEnglish(t[id])
                          /\ ~ (\E e \in G!ByKey(c, G!Bare(id)) : ~e.fuzzy /\ e.target = t[id])
           Rebuilt(id) == G!NewEntry(G!Bare(id), english[id], t[id], Flag(id), <<>>)
           Extra(id) == [G!NewEntry(G!Bare(id), G!Foreign, t[id], FALSE, <<>>) EXCEPT !.obsolete = TRUE]
           New(places) == [n \in DOMAIN G!Elements(G!InOrder(S), places)
                             |-> Rebuilt(G!Elements(G!InOrder(S), places)[n])]
           Old == [n \in DOMAIN G!InOrder(X) |-> Extra(G!InOrder(X)[n])]
<1>1. \A id \in TableIds : IsText(t[id]) /\ t[id].by \notin Borrowed
  BY DEF HonestTable
<1>2. ASSUME NEW id \in S PROVE HonestEntry(k, Rebuilt(id))
  <2>1. PICK f \in BOOLEAN : f <=> Flag(id)
    OBVIOUS
  <2>2. f = Flag(id)
    BY <2>1
  <2>3. id \in TableIds
    BY DEF G!LiveResourcestrings
  <2>4. t[id].by = "english" => f
    <3>1. SUFFICES ASSUME t[id].by = "english", NEW e \in G!ByKey(c, G!Bare(id)), ~e.fuzzy, e.target = t[id]
                   PROVE  FALSE
      BY <2>1 DEF G!SameAsEnglish
    <3>2. HonestEntry(k, e) /\ G!Live(e)
      BY KeyIsEntry
    <3> QED
      BY <3>1, <3>2 DEF HonestEntry, G!Live
  <2> HIDE DEF Flag
  <2> QED
    BY <1>1, <2>2, <2>3, <2>4, NewIs, FewRefs
<1>3. \A id \in X : HonestEntry(k, Extra(id))
  BY <1>1, ExtraIs
<1>4. IsFiniteSet(S) /\ IsFiniteSet(X)
  BY FiniteIds DEF G!LiveResourcestrings
<1>5. ASSUME NEW places PROVE HonestList(k, New(places))
  <2> HIDE DEF S, Rebuilt
  <2>1. \A n \in DOMAIN New(places) : New(places)[n] = Rebuilt(G!Elements(G!InOrder(S), places)[n])
    OBVIOUS
  <2>2. New(places) = [n \in DOMAIN G!Elements(G!InOrder(S), places) |-> New(places)[n]]
    OBVIOUS
  <2> HIDE DEF New
  <2> QED
    BY <1>2, <1>4, <2>1, <2>2, ListFromSome
<1>6. HonestList(k, Old)
  <2> HIDE DEF X, Extra
  <2>1. \A n \in DOMAIN G!InOrder(X) : Old[n] = Extra(G!InOrder(X)[n])
    OBVIOUS
  <2>2. Old = [n \in DOMAIN G!InOrder(X) |-> Old[n]]
    OBVIOUS
  <2> HIDE DEF Old
  <2> QED
    BY <1>3, <1>4, <2>1, <2>2, ListFrom
<1>7. \E places : G!Emit(c, english, t) = New(places) \o Old
  <2> HIDE DEF G!NewEntry
  <2> QED
    BY Zenon DEF G!Emit, G!Those
<1> HIDE DEF New, Old
<1> QED
  BY <1>5, <1>6, <1>7, BothOf

LEMMA RetainedHonest ==
    ASSUME NEW k, NEW c, NEW english, NEW ini, HonestTable(ini)
    PROVE  HonestList(k, G!RetainedExtras(c, english, ini))
<1> DEFINE X == {id \in TableIds \ G!HelpIds(english) : /\ ini[id] # G!Empty
                                                    /\ \A e \in G!Entries(c) : e.ctx # G!Bare(id)}
           Extra(id) == [G!NewEntry(G!Bare(id), G!Foreign, ini[id], FALSE, <<>>) EXCEPT !.obsolete = TRUE]
           Old == [n \in DOMAIN G!InOrder(X) |-> Extra(G!InOrder(X)[n])]
<1>1. \A id \in X : HonestEntry(k, Extra(id))
  BY ExtraIs DEF HonestTable
<1>2. IsFiniteSet(X)
  BY FiniteIds
<1>3. G!RetainedExtras(c, english, ini) = Old
  <2> HIDE DEF G!NewEntry
  <2> QED
    BY Zenon DEF G!RetainedExtras
<1> HIDE DEF X, Extra
<1>4. \A n \in DOMAIN G!InOrder(X) : Old[n] = Extra(G!InOrder(X)[n])
  OBVIOUS
<1>5. Old = [n \in DOMAIN G!InOrder(X) |-> Old[n]]
  OBVIOUS
<1> HIDE DEF Old
<1> QED
  BY <1>1, <1>2, <1>3, <1>4, <1>5, ListFrom

\* A concatenation is empty if both are.
LEMMA OneIsSome ==
    ASSUME NEW k, NEW c, HonestList(k, c), NEW d, HonestList(k, d), c # <<>> \/ d # <<>>
    PROVE  c \o d # <<>>
<1>1. PICK A : c \in Seq(A)
  BY DEF HonestList
<1>2. PICK B : d \in Seq(B)
  BY DEF HonestList
<1>3. c \in Seq(A \cup B) /\ d \in Seq(A \cup B)
  BY <1>1, <1>2
<1>4. Len(c) # 0 \/ Len(d) # 0
  BY <1>3
<1>5. Len(c \o d) = Len(c) + Len(d) /\ Len(c) \in Nat /\ Len(d) \in Nat
  BY <1>3
<1>6. Len(<<>>) = 0
  OBVIOUS
<1> QED
  BY <1>4, <1>5, <1>6

\* Every help section that has English, with the ini's text of it.
LEMMA FreshHonest ==
    ASSUME NEW k, NEW english, NEW ini, HonestTable(ini),
           \A id \in TableIds : ini[id].by = "human" => ini[id].of = english[id],
           \A id \in TableIds : ini[id] = G!Empty \/ ini[id].by \in {"human", "english"},
           TableIds \subseteq G!Declared(english)
    PROVE  HonestCat(k, G!BuildFresh(english, ini))
<1> DEFINE S == G!HelpIds(english)
           Built(id) == G!NewEntry(G!Bare(id), english[id], ini[id], ~G!Real(ini[id]), <<>>)
           New == [n \in DOMAIN G!InOrder(S) |-> Built(G!InOrder(S)[n])]
<1>1. S = TableIds /\ IsFiniteSet(S)
  BY FiniteIds DEF G!HelpIds
<1>2. ASSUME NEW id \in S PROVE HonestEntry(k, Built(id))
  <2>1. PICK f \in BOOLEAN : f <=> ~G!Real(ini[id])
    OBVIOUS
  <2>2. f = ~G!Real(ini[id])
    BY <2>1
  <2>3. IsText(ini[id]) /\ ini[id].by \notin Borrowed
    BY <1>1 DEF HonestTable
  <2>4. ~f /\ ini[id] # G!Empty => ini[id].of = english[id]
    <3>1. SUFFICES ASSUME ~f, ini[id] # G!Empty PROVE ini[id].by = "human"
      BY <1>1
    <3>2. ini[id].by # "english" /\ ini[id].by \in {"human", "english"}
      BY <1>1, <2>1, <3>1 DEF G!Real, G!SameAsEnglish
    <3> QED
      BY <1>1, <3>2
  <2>5. ini[id].by = "english" => f
    BY <2>1 DEF G!Real, G!SameAsEnglish
  <2> QED
    BY <2>2, <2>3, <2>4, <2>5, NewIs, FewRefs
<1>3. HonestList(k, New) /\ (TableIds # {} => New # <<>>)
  <2> HIDE DEF Built
  <2>1. \A n \in DOMAIN G!InOrder(S) : New[n] = Built(G!InOrder(S)[n])
    OBVIOUS
  <2>2. New = [n \in DOMAIN G!InOrder(S) |-> New[n]]
    OBVIOUS
  <2> HIDE DEF New, S
  <2> QED
    BY <1>1, <1>2, <2>1, <2>2, ListFrom
<1>4. G!BuildFresh(english, ini) = New \o G!RetainedExtras(New, english, ini)
  <2> HIDE DEF G!NewEntry
  <2> QED
    BY Zenon DEF G!BuildFresh
<1>5. HonestList(k, G!RetainedExtras(New, english, ini))
  BY RetainedHonest
<1> HIDE DEF New
<1> QED
  BY <1>3, <1>4, <1>5, BothOf, OneIsSome DEF HonestCat

\* The last live entry of a context is the one its key finds.
LEMMA LastIsFound ==
    ASSUME NEW k, NEW c, HonestList(k, c), NEW i \in DOMAIN c, G!Live(c[i])
    PROVE  \E j \in DOMAIN c : G!Live(c[j]) /\ c[j] \in G!ByKey(c, c[j].ctx)
<1> DEFINE At == {j \in DOMAIN c : c[j].ctx = c[i].ctx /\ G!Live(c[j])}
           S == {Len(c) - j : j \in At}
<1>1. DOMAIN c = 1 .. Len(c) /\ Len(c) \in Nat
  BY PlacesOf
<1>2. S \subseteq Nat /\ S # {}
  BY <1>1
<1>3. PICK m \in S : \A y \in S : m <= y
  <2> HIDE DEF S
  <2> QED
    BY <1>2, LeastOf
<1>4. PICK j \in At : m = Len(c) - j
  BY <1>3
<1>5. \A n \in At : n <= j
  <2> SUFFICES ASSUME NEW n \in At PROVE n <= j
    OBVIOUS
  <2>1. Len(c) - n \in S
    OBVIOUS
  <2>2. Len(c) - j <= Len(c) - n
    BY <1>3, <1>4, <2>1
  <2>3. n \in Nat /\ j \in Nat
    BY <1>1, <1>4
  <2> QED
    BY <1>1, <2>2, <2>3
<1>6. c[j] \in G!ByKey(c, c[j].ctx)
  <2>1. At = {n \in DOMAIN c : c[n].ctx = c[j].ctx /\ G!Live(c[n])}
    BY <1>4
  <2>2. G!ByKey(c, c[j].ctx) = {c[n] : n \in {n \in At : \A l \in At : l <= n}}
    BY <2>1 DEF G!ByKey
  <2> HIDE DEF At
  <2> QED
    BY <1>4, <1>5, <2>2
<1> QED
  BY <1>4, <1>6

\* A help entry whose English was reworded loses a machine's text or is flagged.
LEMMA RewordedIs ==
    ASSUME NEW k, NEW e, HonestEntry(k, e), NEW text, NEW tr
    PROVE  HonestEntry(k, G!Reworded(e, text, tr))
<1>1. HonestEntry(k, [e EXCEPT !.source = text, !.fuzzy = TRUE])
  BY DEF HonestEntry, EntryFields, G!Translated, G!Live, G!HasText
<1>2. HonestEntry(k, [e EXCEPT !.source = text, !.target = G!Empty])
  BY Texts DEF HonestEntry, EntryFields, G!Translated, G!Live, G!HasText
<1> HIDE DEF HonestEntry
<1> QED
  BY <1>1, <1>2 DEF G!Reworded

LEMMA SectionHonest ==
    ASSUME NEW k, NEW c, HonestList(k, c), NEW english, NEW ini, NEW id, IsText(ini[id])
    PROVE  HonestEntry(k, G!Section(c, english, ini, id))
<1> DEFINE old == G!ByKey(c, G!Bare(id))
           Text == IF G!Real(ini[id]) THEN ini[id] ELSE G!Memory(c, english[id])
           Added == G!NewEntry(G!Bare(id), english[id], Text, TRUE, <<>>)
           Merged(e) == IF e.source # english[id] THEN G!Reworded(e, english[id], ini[id])
                        ELSE IF ~G!HasText(e) /\ G!Real(ini[id])
                             THEN [e EXCEPT !.target = ini[id], !.fuzzy = TRUE]
                        ELSE e
<1>1. HonestEntry(k, Added)
  <2>1. IsText(G!Memory(c, english[id]))
    BY TextOfFirst DEF G!Memory, G!Those
  <2>2. IsText(Text)
    BY <2>1
  <2> HIDE DEF Text
  <2> QED
    BY <2>2, NewIs, FewRefs
<1>2. ASSUME NEW e, HonestEntry(k, e) PROVE HonestEntry(k, Merged(e))
  <2>1. HonestEntry(k, G!Reworded(e, english[id], ini[id]))
    BY <1>2, RewordedIs
  <2>2. HonestEntry(k, [e EXCEPT !.target = ini[id], !.fuzzy = TRUE])
    BY <1>2, Retold
  <2> QED
    BY <1>2, <2>1, <2>2
<1>3. old # {} => HonestEntry(k, CHOOSE e \in old : TRUE)
  BY KeyIsEntry
<1>4. G!Section(c, english, ini, id) = IF old # {} THEN Merged(CHOOSE e \in old : TRUE) ELSE Added
  BY DEF G!Section
<1> HIDE DEF Added, Merged, old
<1> QED
  BY <1>1, <1>2, <1>3, <1>4

LEMMA IniMergeHonest ==
    ASSUME NEW k, NEW c, HonestList(k, c), NEW english, NEW ini, HonestTable(ini)
    PROVE  HonestList(k, G!IniMerge(c, english, ini)) /\ (c # <<>> => G!IniMerge(c, english, ini) # <<>>)
<1> DEFINE S == G!HelpIds(english)
           New == [n \in DOMAIN G!InOrder(S) |-> G!Section(c, english, ini, G!InOrder(S)[n])]
           Lost == {i \in DOMAIN c : /\ G!Live(c[i]) /\ c[i] \in G!ByKey(c, c[i].ctx)
                                    /\ c[i].ctx[2] \notin S}
           gone == G!Retired(c, english)
           Past == {i \in DOMAIN c : /\ c[i].obsolete
                                    /\ \/ c[i].ctx[2] \notin S
                                       \/ G!ByKey(c, G!Bare(c[i].ctx[2])) # {}}
           past == G!LongGone(c, english)
           all == New \o gone \o past
<1>1. IsFiniteSet(S) /\ \A id \in S : HonestEntry(k, G!Section(c, english, ini, id))
  BY FiniteIds, SectionHonest DEF G!HelpIds, HonestTable
<1>2. HonestList(k, New) /\ (S # {} => New # <<>>)
  <2> HIDE DEF S
  <2>1. \A n \in DOMAIN G!InOrder(S) : New[n] = G!Section(c, english, ini, G!InOrder(S)[n])
    OBVIOUS
  <2>2. New = [n \in DOMAIN G!InOrder(S) |-> New[n]]
    OBVIOUS
  <2> HIDE DEF New
  <2> QED
    BY <1>1, <2>1, <2>2, ListFrom
<1>3. gone = [i \in DOMAIN G!Elements(c, Lost) |-> [G!Elements(c, Lost)[i] EXCEPT !.obsolete = TRUE]]
  BY Zenon DEF G!Retired, G!Those, G!MapEntries
<1>4. past = G!Elements(c, Past)
  BY Zenon DEF G!LongGone, G!Those
<1>5. G!IniMerge(c, english, ini) = all \o G!RetainedExtras(all, english, ini)
  BY Zenon DEF G!IniMerge
<1> HIDE DEF gone, past
<1>6. HonestList(k, gone) /\ (G!Elements(c, Lost) # <<>> => gone # <<>>)
  <2>1. HonestList(k, G!Elements(c, Lost))
    BY SomeOf
  <2>2. \A i \in DOMAIN G!Elements(c, Lost) : HonestEntry(k, [G!Elements(c, Lost)[i] EXCEPT !.obsolete = TRUE])
    BY <2>1, PlacesOf, Flagged
  <2> HIDE DEF Lost, HonestEntry
  <2>3. gone = [i \in DOMAIN G!Elements(c, Lost) |-> gone[i]]
        /\ \A i \in DOMAIN G!Elements(c, Lost) : HonestEntry(k, gone[i])
    BY <1>3, <2>2
  <2> QED
    BY <2>1, <2>3, MapOf
<1>7. HonestList(k, past)
  BY <1>4, SomeOf
<1>8. c # <<>> => New # <<>> \/ gone # <<>> \/ past # <<>>
  <2> SUFFICES ASSUME c # <<>>, S = {} PROVE gone # <<>> \/ past # <<>>
    BY <1>2
  <2>1. 1 \in DOMAIN c
    BY FirstOf
  <2>2. PICK W : c \in Seq(W)
    BY DEF HonestList
  <2>3. CASE c[1].obsolete
    <3>1. 1 \in Past
      BY <2>1, <2>3
    <3> HIDE DEF Past
    <3> QED
      BY <1>4, <2>1, <2>2, <3>1, SomeThere
  <2>4. CASE ~c[1].obsolete
    <3>1. PICK j \in DOMAIN c : G!Live(c[j]) /\ c[j] \in G!ByKey(c, c[j].ctx)
      BY <2>1, <2>4, LastIsFound DEF G!Live
    <3>2. j \in Lost
      BY <3>1
    <3> HIDE DEF Lost
    <3>3. G!Elements(c, Lost) # <<>>
      BY <2>2, <3>1, <3>2, SomeThere
    <3> QED
      BY <1>6, <3>3
  <2> QED
    BY <2>3, <2>4
<1> HIDE DEF New
<1>9. HonestList(k, New \o gone) /\ (New # <<>> \/ gone # <<>> => New \o gone # <<>>)
  BY <1>2, <1>6, BothOf, OneIsSome
<1>10. HonestList(k, all) /\ (c # <<>> => all # <<>>)
  BY <1>7, <1>8, <1>9, BothOf, OneIsSome
<1> HIDE DEF all
<1> QED
  BY <1>5, <1>10, RetainedHonest, BothOf, OneIsSome

\* mt_seed: a machine's text goes, and what is empty is drafted.
LEMMA WipedHonest ==
    ASSUME NEW k, NEW c, HonestCat(k, c), NEW only, NEW reseed \in BOOLEAN
    PROVE  HonestCat(k, G!SeedFrom(c, only, reseed))
<1>1. HonestCat(k, G!Wiped(c, only))
  <2>1. \A i \in DOMAIN c : HonestEntry(k, c[i]) /\ HonestEntry(k, [c[i] EXCEPT !.target = G!Empty])
    BY PlacesOf, Retexted, Texts DEF HonestCat
  <2> HIDE DEF HonestEntry
  <2>2. G!Wiped(c, only) = [i \in DOMAIN c |-> G!Wiped(c, only)[i]]
    BY DEF G!Wiped, G!MapEntries
  <2>3. \A i \in DOMAIN c : G!Wiped(c, only)[i] \in {c[i], [c[i] EXCEPT !.target = G!Empty]}
    BY DEF G!Wiped, G!MapEntries
  <2>4. \A i \in DOMAIN c : HonestEntry(k, G!Wiped(c, only)[i])
    BY <2>1, <2>3
  <2> QED
    BY <2>2, <2>4, MapOf DEF HonestCat
<1> QED
  BY <1>1 DEF G!SeedFrom

LEMMA SeedHonest ==
    ASSUME NEW k, NEW c, HonestCat(k, c), NEW only, NEW flaw, NEW words, NEW drafts,
           \A i \in DOMAIN c : drafts[c[i].source] = G!Drafted(flaw, c[i].source)
    PROVE  HonestCat(k, G!Seed(c, only, G!Widgets(words), drafts))
<1> DEFINE Filled(e) == IF ~G!ToSeed(e, only) THEN e
                        ELSE IF G!HasWords(e, G!Widgets(words)) THEN G!FromWidgetSet(e, G!Widgets(words))
                        ELSE G!FromEngine(e, drafts[e.source])
<1>1. ASSUME NEW e, HonestEntry(k, e), e.source \in WidgetTexts
      PROVE  HonestEntry(k, G!FromWidgetSet(e, G!Widgets(words)))
  <2> DEFINE t == [G!By("widgetset", e.source) EXCEPT !.flaw = words]
  <2>1. G!Widgets(words)[e.source] = t
    BY <1>1 DEF G!Widgets
  <2>2. IsText(t) /\ t.by = "widgetset"
    BY DEF IsText, G!By
  <2> HIDE DEF t
  <2>3. HonestEntry(k, [e EXCEPT !.target = t, !.fuzzy = TRUE])
    BY <1>1, <2>2, Retold
  <2> QED
    BY <2>1, <2>3 DEF G!FromWidgetSet, t
<1>2. ASSUME NEW e, HonestEntry(k, e)
      PROVE  HonestEntry(k, G!FromEngine(e, G!Drafted(flaw, e.source)))
  <2> DEFINE d == G!Drafted(flaw, e.source)
  <2>1. IsText(d) /\ d.by \notin Borrowed /\ d.by # "english" /\ d.of = e.source
    BY DEF G!Drafted, IsText, Borrowed
  <2> HIDE DEF d
  <2>2. IsText(G!Mended(d)) /\ G!Mended(d).by \notin Borrowed /\ G!Mended(d).by # "english" /\ G!Mended(d).of = e.source
    BY <2>1, Texts
  <2>3. HonestEntry(k, [e EXCEPT !.target = G!Mended(d)])
    BY <1>2, <2>2, Retexted
  <2> HIDE DEF HonestEntry
  <2>4. HonestEntry(k, G!FromEngine(e, d))
    BY <1>2, <2>3 DEF G!FromEngine
  <2> QED
    BY <2>4 DEF d
<1>3. \A e : G!HasWords(e, G!Widgets(words)) => e.source \in WidgetTexts
  BY DEF G!HasWords, G!Widgets
<1>4. \A i \in DOMAIN c : HonestEntry(k, Filled(c[i]))
  <2> SUFFICES ASSUME NEW i \in DOMAIN c PROVE HonestEntry(k, Filled(c[i]))
    OBVIOUS
  <2>1. HonestEntry(k, c[i])
    BY PlacesOf DEF HonestCat
  <2>2. drafts[c[i].source] = G!Drafted(flaw, c[i].source)
    OBVIOUS
  <2> HIDE DEF HonestEntry
  <2> QED
    BY <1>1, <1>2, <1>3, <2>1, <2>2
<1>5. G!Seed(c, only, G!Widgets(words), drafts) = [i \in DOMAIN c |-> Filled(c[i])]
  BY Zenon DEF G!Seed, G!MapEntries
<1> HIDE DEF Filled, HonestEntry
<1> QED
  BY <1>4, <1>5, MapOf DEF HonestCat

LEMMA IniEmitHonest ==
    ASSUME NEW c, HonestCat("help", c), NEW english, NEW ini, HonestTable(ini)
    PROVE  HonestCat("help", G!IniEmit(c, english, ini))
<1>1. CASE c = <<>>
  <2>1. TableIds = {}
    BY <1>1 DEF HonestCat
  <2>2. HonestCat("help", G!BuildFresh(english, ini))
    BY <2>1, FreshHonest
  <2> QED
    BY <1>1, <2>2 DEF G!IniEmit
<1>2. CASE c # <<>>
  <2>1. HonestList("help", G!IniMerge(c, english, ini)) /\ G!IniMerge(c, english, ini) # <<>>
    BY <1>2, IniMergeHonest DEF HonestCat
  <2> QED
    BY <1>2, <2>1 DEF G!IniEmit, HonestCat
<1> QED
  BY <1>1, <1>2

LEMMA NoTableIsHonest == HonestTable(G!NoTable)
BY Texts DEF HonestTable, G!NoTable

\* po2pas puts reviewed text into the table.
LEMMA ReviewedIs ==
    ASSUME NEW k, NEW e, HonestEntry(k, e), G!Translated(e)
    PROVE  IsText(e.target) /\ e.target.by \notin Borrowed
BY DEF HonestEntry, G!Translated

LEMMA ApplyHonest ==
    ASSUME NEW k, NEW c, HonestList(k, c), NEW english, NEW t, HonestTable(t)
    PROVE  HonestTable(G!Apply(c, english, t))
<1> DEFINE Applied(id) == {e.target : e \in {x \in {e \in G!ByKey(c, G!Bare(id)) : G!Translated(e)} :
                                                 ~G!DraftDefects(x.target)}}
<1>1. ASSUME NEW id, NEW x \in Applied(id) PROVE IsText(x) /\ x.by \notin Borrowed
  <2>1. PICK e \in G!ByKey(c, G!Bare(id)) : G!Translated(e) /\ x = e.target
    OBVIOUS
  <2>2. HonestEntry(k, e)
    BY KeyIsEntry
  <2> QED
    BY <2>1, <2>2, ReviewedIs
<1>2. G!Apply(c, english, t)
        = [id \in DOMAIN t |-> IF t[id] = G!Empty \/ Applied(id) = {} THEN t[id]
                               ELSE CHOOSE x \in Applied(id) : TRUE]
  BY Zenon DEF G!Apply
<1>3. \A id : Applied(id) # {} => (CHOOSE x \in Applied(id) : TRUE) \in Applied(id)
  OBVIOUS
<1> HIDE DEF Applied
<1>4. DOMAIN G!Apply(c, english, t) = TableIds
  BY <1>2 DEF HonestTable
<1>5. ASSUME NEW id \in TableIds
      PROVE  IsText(G!Apply(c, english, t)[id]) /\ G!Apply(c, english, t)[id].by \notin Borrowed
  <2>1. \/ G!Apply(c, english, t)[id] = t[id]
        \/ G!Apply(c, english, t)[id] \in Applied(id)
    BY <1>2, <1>3 DEF HonestTable
  <2>2. IsText(t[id]) /\ t[id].by \notin Borrowed
    BY DEF HonestTable
  <2> QED
    BY <1>1, <2>1, <2>2
<1> QED
  BY <1>4, <1>5 DEF HonestTable

LEMMA CreateHonest ==
    ASSUME NEW k, NEW c, HonestList(k, c), NEW english
    PROVE  HonestTable(G!CreateTable(c, english))
<1> DEFINE found(id) == {e \in G!Entries(c) : e.ctx = G!Bare(id) /\ G!Translated(e)}
<1>1. G!CreateTable(c, english)
        = [id \in TableIds |-> IF english[id] = G!Gone THEN G!Empty
                               ELSE IF found(id) = {} THEN G!By("english", english[id])
                               ELSE (CHOOSE e \in found(id) : TRUE).target]
  BY Zenon DEF G!CreateTable
<1>2. ASSUME NEW id, NEW e \in found(id) PROVE IsText(e.target) /\ e.target.by \notin Borrowed
  <2>1. HonestEntry(k, e)
    BY PlacesOf DEF G!Entries
  <2> QED
    BY <2>1, ReviewedIs
<1>3. \A id : found(id) # {} => (CHOOSE e \in found(id) : TRUE) \in found(id)
  OBVIOUS
<1> HIDE DEF found
<1>4. ASSUME NEW id \in TableIds
      PROVE  IsText(G!CreateTable(c, english)[id]) /\ G!CreateTable(c, english)[id].by \notin Borrowed
  <2>1. \/ G!CreateTable(c, english)[id] = G!Empty
        \/ G!CreateTable(c, english)[id] = G!By("english", english[id])
        \/ \E e \in found(id) : G!CreateTable(c, english)[id] = e.target
    BY <1>1, <1>3
  <2>2. "english" \notin Borrowed
    BY DEF Borrowed
  <2> QED
    BY <1>2, <2>1, <2>2, Texts
<1>5. DOMAIN G!CreateTable(c, english) = TableIds
  BY <1>1
<1> QED
  BY <1>4, <1>5 DEF HonestTable

\* Poedit saves one entry changed, and takes the flags off entries without text.
LEMMA PoeditHonest ==
    ASSUME NEW k, NEW c, HonestCat(k, c), NEW i \in DOMAIN c, NEW e, HonestEntry(k, e)
    PROVE  HonestCat(k, G!MapEntries([c EXCEPT ![i] = e],
                                     LAMBDA x : IF G!HasText(x) THEN x ELSE [x EXCEPT !.fuzzy = FALSE]))
<1> DEFINE Saved(x) == IF G!HasText(x) THEN x ELSE [x EXCEPT !.fuzzy = FALSE]
           d == [j \in DOMAIN c |-> Saved([c EXCEPT ![i] = e][j])]
<1>1. ASSUME NEW x, HonestEntry(k, x) PROVE HonestEntry(k, Saved(x))
  BY <1>1, Texts DEF HonestEntry, EntryFields, G!Translated, G!Live, G!HasText
<1>2. \A j \in DOMAIN c : HonestEntry(k, [c EXCEPT ![i] = e][j])
  <2>1. \A j \in DOMAIN c : HonestEntry(k, c[j])
    BY PlacesOf DEF HonestCat
  <2> HIDE DEF HonestEntry
  <2> QED
    BY <2>1
<1>3. \A j \in DOMAIN c : HonestEntry(k, d[j])
  <2> HIDE DEF Saved, HonestEntry
  <2> QED
    BY <1>1, <1>2
<1>4. G!MapEntries([c EXCEPT ![i] = e], LAMBDA x : IF G!HasText(x) THEN x ELSE [x EXCEPT !.fuzzy = FALSE]) = d
  <2>1. DOMAIN [c EXCEPT ![i] = e] = DOMAIN c
    OBVIOUS
  <2> QED
    BY <2>1, Zenon DEF G!MapEntries
<1> HIDE DEF Saved
<1>5. d = [j \in DOMAIN c |-> d[j]]
  OBVIOUS
<1> HIDE DEF d, HonestEntry
<1> QED
  BY <1>3, <1>4, <1>5, MapOf DEF HonestCat

LEMMA CatStarts == G!Init => CatInv
<1> SUFFICES ASSUME G!Init PROVE CatInv
  OBVIOUS
<1>1. /\ kind \in {"tr4w", "help"} /\ eng \in [G!Ids -> English \cup {G!Gone}]
      /\ \A id \in G!Ids : (eng[id] = G!Gone) = (id \in AppIds)
      /\ table \in [TableIds -> G!Targets]
      /\ \A id \in TableIds : table[id] \in {G!Empty, G!By("human", eng[id]), G!By("english", eng[id])}
      /\ cat = IF kind = "help" THEN G!IniEmit(<<>>, eng, table) ELSE G!Emit(<<>>, eng, table)
      /\ seeding = G!Idle
  BY DEF G!Init
<1>2. HonestTable(table)
  <2>1. "human" \notin Borrowed /\ "english" \notin Borrowed
    BY DEF Borrowed
  <2> QED
    BY <1>1, <2>1, Texts DEF HonestTable
<1>3. TableIds \subseteq G!Declared(eng)
  BY <1>1, IdsAssumption DEF G!Declared, G!Ids
<1>4. CASE kind = "help"
  <2>1. ASSUME NEW id \in TableIds
        PROVE  /\ table[id].by = "human" => table[id].of = eng[id]
               /\ table[id] = G!Empty \/ table[id].by \in {"human", "english"}
    <3>1. G!Empty.by = "nobody"
      BY DEF G!Empty
    <3> QED
      BY <1>1, <3>1, Texts
  <2>2. /\ \A id \in TableIds : table[id].by = "human" => table[id].of = eng[id]
        /\ \A id \in TableIds : table[id] = G!Empty \/ table[id].by \in {"human", "english"}
    <3>1. \A id \in TableIds : table[id].by = "human" => table[id].of = eng[id]
      BY <2>1
    <3>2. \A id \in TableIds : table[id] = G!Empty \/ table[id].by \in {"human", "english"}
      BY <2>1
    <3> QED
      BY <3>1, <3>2, Zenon
  <2>3. HonestCat("help", G!BuildFresh(eng, table))
    <3> HIDE DEF HonestTable, HonestCat
    <3> QED
      BY <1>2, <1>3, <2>2, FreshHonest
  <2>4. cat = G!BuildFresh(eng, table)
    BY <1>1, <1>4 DEF G!IniEmit
  <2> QED
    BY <1>1, <1>2, <1>4, <2>3, <2>4 DEF CatInv, G!Idle
<1>5. CASE kind = "tr4w"
  <2>1. HonestList("tr4w", <<>>)
    <3> DEFINE W == {}
    <3>1. \A e \in W : HonestEntry("tr4w", e)
      OBVIOUS
    <3> HIDE DEF W
    <3>2. <<>> \in Seq(W)
      OBVIOUS
    <3> QED
      BY <3>1, <3>2 DEF HonestList
  <2>2. HonestList("tr4w", G!Emit(<<>>, eng, table))
    BY <1>2, <2>1, EmitHonest
  <2> QED
    BY <1>1, <1>2, <1>5, <2>2 DEF CatInv, HonestCat, G!Idle
<1> QED
  BY <1>1, <1>4, <1>5

\* Every step of a tool, of a developer and of a translator.
LEMMA CatIdles == CatInv /\ UNCHANGED catVars => CatInv'
BY DEF CatInv, catVars, HonestCat, HonestList, HonestTable

LEMMA CatSaved ==
    ASSUME CatInv, UNCHANGED <<kind, table, seeding>>, DOMAIN eng' = DOMAIN eng, HonestCat(kind, cat')
    PROVE  CatInv'
BY DEF CatInv, HonestCat, HonestList, HonestTable

LEMMA CatSavedTr4w ==
    ASSUME CatInv, kind = "tr4w", UNCHANGED <<kind, eng, table, seeding>>, HonestList(kind, cat')
    PROVE  CatInv'
BY CatSaved DEF HonestCat

LEMMA HarvestIs ==
    ASSUME CatInv
    PROVE  \E W : G!Template(eng) \in Seq(W) /\ \A t \in W : \E u, x : t.refs = <<<<u, x>>>>
<1> DEFINE names == G!InOrder(G!Declared(eng))
           t == G!Template(eng)
           W == {t[n] : n \in DOMAIN names}
<1>1. IsFiniteSet(G!Declared(eng))
  BY FiniteIds DEF CatInv, G!Declared
<1>2. DOMAIN t = DOMAIN names /\ t = [n \in DOMAIN names |-> t[n]]
  BY DEF G!Template
<1>3. DOMAIN names = 1 .. Cardinality(G!Declared(eng)) /\ Cardinality(G!Declared(eng)) \in Nat
  BY <1>1, OrderOf
<1>4. \A n \in DOMAIN names : \E u, x : t[n].refs = <<<<u, x>>>>
  BY DEF G!Template, G!NewEntry
<1> HIDE DEF t, names
<1>5. t \in [1 .. Cardinality(G!Declared(eng)) -> W]
  BY <1>2, <1>3
<1>6. \A e \in W : \E u, x : e.refs = <<<<u, x>>>>
  BY <1>4
<1> HIDE DEF W
<1>7. t \in Seq(W)
  BY <1>3, <1>5
<1> QED
  BY <1>6, <1>7 DEF t

LEMMA CatMerged == CatInv /\ G!RunMerge => CatInv'
<1> SUFFICES ASSUME CatInv, G!RunMerge PROVE CatInv'
  OBVIOUS
<1>1. kind = "tr4w" /\ cat' = G!Merge(cat, G!Template(eng)) /\ UNCHANGED <<kind, eng, table, seeding>>
  BY DEF G!RunMerge, G!OnTr4w, G!Run
<1>2. HonestList(kind, cat')
  BY <1>1, HarvestIs, MergeHonest DEF CatInv, HonestCat
<1> QED
  BY <1>1, <1>2, CatSavedTr4w

LEMMA CatSeeded == CatInv /\ G!SeedWrite => CatInv'
<1> SUFFICES ASSUME CatInv, G!SeedWrite PROVE CatInv'
  OBVIOUS
<1>1. seeding.running /\ seeding' = G!Idle /\ UNCHANGED <<kind, eng, table>>
  BY DEF G!SeedWrite, G!SeedEnds
<1>2. PICK flaw, words \in G!Flaws, reseed \in BOOLEAN :
        LET only == G!Claims(seeding.read)
            opened == G!SeedFrom(seeding.read, only, reseed)
            drafts == [text \in {e.source : e \in G!Entries(opened)} |-> G!Drafted(flaw, text)]
        IN  cat' \in {cat, G!Seed(opened, only, G!Widgets(words), drafts)}
  BY Zenon DEF G!SeedWrite
<1> DEFINE only == G!Claims(seeding.read)
           opened == G!SeedFrom(seeding.read, only, reseed)
           drafts == [text \in {e.source : e \in G!Entries(opened)} |-> G!Drafted(flaw, text)]
<1>3. cat' \in {cat, G!Seed(opened, only, G!Widgets(words), drafts)}
  BY <1>2
<1>4. HonestCat(kind, opened)
  BY <1>1, WipedHonest DEF CatInv
<1> HIDE DEF only, opened
<1>5. \A i \in DOMAIN opened : drafts[opened[i].source] = G!Drafted(flaw, opened[i].source)
  BY DEF G!Entries
<1> HIDE DEF drafts
<1>6. HonestCat(kind, cat')
  BY <1>3, <1>4, <1>5, SeedHonest DEF CatInv
<1> QED
  BY <1>1, <1>6 DEF CatInv, G!Idle, HonestCat, HonestList, HonestTable

LEMMA CatAppended ==
    ASSUME CatInv, NEW id, NEW text, G!AppendByHand(id, text)
    PROVE  CatInv'
<1>1. PICK target \in {G!Empty, G!By("human", text)} :
        cat' = Append(cat, G!NewEntry(G!NoCtx, text, target, target = G!Empty, <<<<"uappstrings", id>>>>))
  BY DEF G!AppendByHand
<1>2. kind = "tr4w" /\ eng' = [eng EXCEPT ![id] = text] /\ UNCHANGED <<kind, table, seeding>>
  BY DEF G!AppendByHand
<1> DEFINE e == G!NewEntry(G!NoCtx, text, target, target = G!Empty, <<<<"uappstrings", id>>>>)
<1>3. HonestEntry(kind, e)
  <2>1. PICK f \in BOOLEAN : f <=> target = G!Empty
    OBVIOUS
  <2>2. f = (target = G!Empty)
    BY <2>1
  <2>3. IsText(target) /\ target.by \notin Borrowed /\ target.by # "english"
    BY Texts DEF Borrowed
  <2>4. IsRefs(<<<<"uappstrings", id>>>>)
    BY FewRefs
  <2> QED
    BY <1>2, <2>2, <2>3, <2>4, NewIs
<1> HIDE DEF e
<1>4. PICK W : cat \in Seq(W) /\ \A x \in W : HonestEntry(kind, x)
  BY DEF CatInv, HonestCat, HonestList
<1> HIDE DEF HonestEntry
<1>5. Append(cat, e) \in Seq(W \cup {e})
  BY <1>4
<1>6. HonestList(kind, cat')
  BY <1>1, <1>3, <1>4, <1>5, SMTT(40) DEF HonestList, e
<1> QED
  BY <1>2, <1>6, CatSaved DEF HonestCat

LEMMA CatEdited ==
    ASSUME CatInv, NEW i \in DOMAIN cat, G!Review(i) \/ G!SendBack(i) \/ G!MarkSkip(i)
    PROVE  CatInv'
<1>1. \E e : HonestEntry(kind, e) /\ G!Poedit(i, e)
  <2>1. HonestEntry(kind, cat[i])
    BY PlacesOf DEF CatInv, HonestCat
  <2>2. CASE G!Review(i)
    <3>1. PICK flaw : G!Poedit(i, [cat[i] EXCEPT !.fuzzy = FALSE,
                                     !.target = [by |-> "human", of |-> cat[i].source, flaw |-> flaw]])
      BY <2>2 DEF G!Review
    <3> DEFINE t == [by |-> "human", of |-> cat[i].source, flaw |-> flaw]
    <3>2. IsText(t) /\ t.by \notin Borrowed /\ t.by # "english" /\ t.of = cat[i].source
      BY DEF IsText, Borrowed
    <3> HIDE DEF t
    <3>3. HonestEntry(kind, [cat[i] EXCEPT !.target = t, !.fuzzy = FALSE])
      BY <2>1, <3>2, Retold
    <3>4. [cat[i] EXCEPT !.target = t, !.fuzzy = FALSE] = [cat[i] EXCEPT !.fuzzy = FALSE, !.target = t]
      OBVIOUS
    <3> QED
      BY <3>1, <3>3, <3>4 DEF t
  <2>3. CASE G!SendBack(i)
    BY <2>1, <2>3, Flagged DEF G!SendBack
  <2>4. CASE G!MarkSkip(i)
    <3>1. HonestEntry(kind, [cat[i] EXCEPT !.skip = TRUE])
      BY <2>1 DEF HonestEntry, EntryFields, G!Translated, G!Live, G!HasText
    <3> QED
      BY <2>4, <3>1 DEF G!MarkSkip
  <2> QED
    BY <2>2, <2>3, <2>4
<1>2. PICK e : HonestEntry(kind, e) /\ G!Poedit(i, e)
  BY <1>1
<1> DEFINE d == G!MapEntries([cat EXCEPT ![i] = e],
                             LAMBDA x : IF G!HasText(x) THEN x ELSE [x EXCEPT !.fuzzy = FALSE])
<1>3. cat' = d /\ UNCHANGED <<kind, eng, table, seeding>>
  BY <1>2 DEF G!Poedit
<1>4. HonestCat(kind, d)
  BY <1>2, PoeditHonest DEF CatInv
<1> HIDE DEF d
<1> QED
  BY <1>3, <1>4, CatSaved

LEMMA CatKeepsInv == CatInv /\ (G!Next \/ UNCHANGED catVars) => CatInv'
<1> SUFFICES ASSUME CatInv, G!Next \/ UNCHANGED catVars PROVE CatInv'
  OBVIOUS
<1> USE DEF G!OnTr4w, G!Run
<1>1. HonestCat(kind, cat) /\ HonestList(kind, cat) /\ HonestTable(table)
  BY DEF CatInv, HonestCat
<1>2. CASE G!RunMerge
  BY <1>2, CatMerged
<1>3. CASE G!RunDedupe
  BY <1>1, <1>3, DedupeHonest, CatSavedTr4w DEF G!RunDedupe
<1>4. CASE G!RunRekey
  BY <1>1, <1>4, RekeyHonest, CatSavedTr4w DEF G!RunRekey
<1>5. CASE G!RunBackfill
  BY <1>1, <1>5, BackfillHonest, CatSavedTr4w DEF G!RunBackfill
<1>6. CASE G!RunPrune
  BY <1>1, <1>6, PruneHonest, CatSavedTr4w DEF G!RunPrune
<1>7. CASE G!RunSalvage
  BY <1>1, <1>7, SalvageHonest, CatSavedTr4w DEF G!RunSalvage
<1>8. CASE G!RunEmit \/ G!PasNewLang
  <2>1. \A t : HonestTable(t) /\ G!EmitFrom(t) => CatInv'
    BY <1>1, EmitHonest, CatSavedTr4w DEF G!EmitFrom
  <2> QED
    BY <1>1, <1>8, <2>1, NoTableIsHonest DEF G!RunEmit, G!PasNewLang
<1>9. CASE G!RunLintFix
  BY <1>1, <1>9, LintHonest, CatSaved DEF G!RunLintFix
<1>10. CASE G!RunFixSpacing
  BY <1>1, <1>10, SpacedHonest, CatSaved DEF G!RunFixSpacing
<1>11. CASE G!RunIni2Po \/ G!IniNewLang
  <2>1. PICK t : HonestTable(t) /\ kind = "help" /\ G!Run(G!IniEmit(cat, eng, t))
    BY <1>1, <1>11, NoTableIsHonest DEF G!RunIni2Po, G!IniNewLang
  <2>2. HonestCat(kind, G!IniEmit(cat, eng, t))
    BY <1>1, <2>1, IniEmitHonest
  <2> QED
    BY <2>1, <2>2, CatSaved
<1>12. CASE G!RunPo2Pas
  <2>1. HonestTable(table')
    BY <1>1, <1>12, ApplyHonest, CreateHonest DEF G!RunPo2Pas
  <2> QED
    BY <1>12, <2>1 DEF G!RunPo2Pas, CatInv, HonestCat, HonestList
<1>13. CASE G!SeedRead
  BY <1>13 DEF G!SeedRead, CatInv, HonestCat, HonestList, HonestTable
<1>14. CASE G!SeedWrite
  BY <1>14, CatSeeded
<1>15. CASE G!SeedStops
  BY <1>15 DEF G!SeedStops, G!SeedEnds, G!Idle, CatInv, HonestCat, HonestList, HonestTable
<1>16. CASE \E id \in G!Ids, text \in English \cup {G!Gone} : G!EditEnglish(id, text)
  BY <1>1, <1>16, CatSaved DEF G!EditEnglish
<1>17. CASE \E id \in AppIds, text \in English : G!AppendByHand(id, text)
  BY <1>17, CatAppended
<1>18. CASE \E i \in DOMAIN cat : G!Review(i) \/ G!SendBack(i) \/ G!MarkSkip(i)
  BY <1>18, CatEdited
<1>19. CASE G!Done \/ UNCHANGED catVars
  BY <1>19, CatIdles DEF G!Done, G!vars, catVars
<1> QED
  BY <1>2, <1>3, <1>4, <1>5, <1>6, <1>7, <1>8, <1>9, <1>10, <1>11, <1>12, <1>13, <1>14, <1>15, <1>16, <1>17, <1>18,
     <1>19 DEF G!Next

LEMMA CatalogueInvariant == MCSpec => [](tool = "catalogue" => CatInv)
<1> DEFINE I == tool = "catalogue" => CatInv
<1>1. MCInit => I
  BY CatStarts DEF MCInit
<1>2. I /\ [MCNext]_allVars => I'
  <2> SUFFICES ASSUME I, [MCNext]_allVars, tool' = "catalogue" PROVE CatInv'
    OBVIOUS
  <2>1. tool = "catalogue" /\ (G!Next \/ UNCHANGED catVars)
    BY DEF MCNext, allVars
  <2> QED
    BY <2>1, CatKeepsInv
<1> QED
  BY <1>1, <1>2, PTL DEF MCSpec

\* The flags of a catalogue tell the truth, whatever tools are run in whatever order.
THEOREM FlagsAreHonestAlways == MCSpec => []FlagsAreHonest
<1> DEFINE I == tool = "catalogue" => CatInv
<1>1. MCSpec => []I
  BY CatalogueInvariant
<1>2. I => FlagsAreHonest
  <2> SUFFICES ASSUME CatInv PROVE G!FlagsAreHonest
    BY DEF FlagsAreHonest
  <2>1. \A e \in G!Entries(cat) : HonestEntry(kind, e)
    BY PlacesOf DEF CatInv, HonestCat, G!Entries
  <2> QED
    BY <2>1 DEF G!FlagsAreHonest, G!BorrowedTextIsFlagged, G!HelpTranslatesItsEnglish, HonestEntry, Borrowed
<1> QED
  BY <1>1, <1>2, PTL

------------------------------------------------------------------------------
\* Reviewed work

IsReviewed(e) == G!Translated(e) /\ ~G!SameAsEnglish(e.target)

\* Reviewed work survives if each reviewed entry leaves a reviewed one that answers
\* for as many identifiers.
LEMMA KeptBy ==
    ASSUME NEW c, NEW d,
           \A i \in DOMAIN c : IsReviewed(c[i]) =>
               \E x \in G!ToSet(d) : IsReviewed(x) /\ G!IdsOf(c[i]) \subseteq G!IdsOf(x)
    PROVE  G!ReviewedIds(c) \subseteq G!ReviewedIds(d)
<1>1. \A i \in DOMAIN c : IsReviewed(c[i]) => G!IdsOf(c[i]) \subseteq G!ReviewedIds(d)
  <2> SUFFICES ASSUME NEW i \in DOMAIN c, IsReviewed(c[i]) PROVE G!IdsOf(c[i]) \subseteq G!ReviewedIds(d)
    OBVIOUS
  <2>1. PICK x \in G!ToSet(d) : IsReviewed(x) /\ G!IdsOf(c[i]) \subseteq G!IdsOf(x)
    OBVIOUS
  <2>2. x \in G!Entries(d)
    BY <2>1 DEF G!ToSet, G!Entries
  <2> QED
    BY <2>1, <2>2 DEF G!ReviewedIds, IsReviewed
<1>2. \A id \in G!ReviewedIds(c) : \E i \in DOMAIN c : IsReviewed(c[i]) /\ id \in G!IdsOf(c[i])
  BY DEF G!ReviewedIds, G!Entries, IsReviewed
<1> QED
  BY <1>1, <1>2

\* What an entry answers for: its context and its references, by their names.
LEMMA IdsGrow ==
    ASSUME NEW e, NEW x, x.ctx = e.ctx,
           \A r \in G!ToSet(e.refs) : \E q \in G!ToSet(x.refs) : q[2] = r[2]
    PROVE  G!IdsOf(e) \subseteq G!IdsOf(x)
<1>1. \A q, r : q[2] = r[2] => G!IdOf(q) = G!IdOf(r)
  BY DEF G!IdOf
<1> QED
  BY <1>1 DEF G!IdsOf, G!ClaimedIdentifiers

\* A tool that goes through the entries one by one.
LEMMA EachKept ==
    ASSUME NEW c, NEW d, DOMAIN d = DOMAIN c,
           \A i \in DOMAIN c : IsReviewed(c[i]) =>
               IsReviewed(d[i]) /\ d[i].ctx = c[i].ctx /\ d[i].refs = c[i].refs
    PROVE  G!ReviewedIds(c) \subseteq G!ReviewedIds(d)
<1>1. ASSUME NEW i \in DOMAIN c, IsReviewed(c[i])
      PROVE  \E x \in G!ToSet(d) : IsReviewed(x) /\ G!IdsOf(c[i]) \subseteq G!IdsOf(x)
  <2>1. IsReviewed(d[i]) /\ G!IdsOf(c[i]) \subseteq G!IdsOf(d[i])
    BY <1>1, IdsGrow
  <2> QED
    BY <2>1 DEF G!ToSet
<1> QED
  BY <1>1, KeptBy

LEMMA MergeKeeps ==
    ASSUME NEW k, NEW c, HonestList(k, c), NEW W, NEW template \in Seq(W),
           \A t \in W : \E u, x : t.refs = <<<<u, x>>>>
    PROVE  G!ReviewedIds(c) \subseteq G!ReviewedIds(G!Merge(c, template))
<1>1. PICK new : HonestList(k, new) /\ G!Merge(c, template) = G!Elements(c, StayingIn(c)) \o new
  BY MergeIs
<1>2. HonestList(k, G!Elements(c, StayingIn(c)))
  BY SomeOf
<1>3. G!ToSet(G!Elements(c, StayingIn(c))) \subseteq G!ToSet(G!Merge(c, template))
  BY <1>1, <1>2, FirstList
<1>4. PICK V : c \in Seq(V)
  BY DEF HonestList
<1>5. \A i \in StayingIn(c) \cap DOMAIN c : c[i] \in G!ToSet(G!Elements(c, StayingIn(c)))
  <2>1. \A i \in StayingIn(c) \cap DOMAIN c : c[i] \in V
    BY <1>4
  <2> QED
    BY <1>4, <2>1, ElementsOf
<1>6. ASSUME NEW i \in DOMAIN c, IsReviewed(c[i]) PROVE i \in StayingIn(c)
  <2>1. IsRefs(c[i].refs)
    BY PlacesOf DEF HonestEntry
  <2>2. ~G!IsThirdParty(c[i])
    <3>1. PICK R : c[i].refs \in Seq(R) /\ \A r \in R : r[1] # "log4d"
      BY <2>1 DEF IsRefs
    <3>2. c[i].refs # <<>> => c[i].refs[1] \in R
      BY <3>1
    <3> QED
      BY <3>1, <3>2 DEF G!IsThirdParty
  <2> QED
    BY <1>6, <2>2 DEF StayingIn, IsReviewed, G!Translated
<1> QED
  BY <1>3, <1>5, <1>6, KeptBy

LEMMA BackfillKeeps ==
    ASSUME NEW k, k # "help", NEW c, HonestList(k, c), NEW english, NEW t, HonestTable(t)
    PROVE  G!ReviewedIds(c) \subseteq G!ReviewedIds(G!Backfill(c, english, t))
<1>1. G!ToSet(c) \subseteq G!ToSet(G!Backfill(c, english, t))
  BY BackfillHonest
<1>2. \A i \in DOMAIN c : c[i] \in G!ToSet(c)
  BY DEF G!ToSet
<1> QED
  BY <1>1, <1>2, KeptBy

\* The best of some copies is reviewed if one of them is.
LEMMA BestIsReviewed ==
    ASSUME NEW k, NEW e, IsReviewed(e), NEW w, HonestEntry(k, w), G!Live(w), Rank(e) <= Rank(w)
    PROVE  IsReviewed(w)
<1>1. Rank(e) >= 12
  BY DEF Rank, IsReviewed, G!Translated
<1>2. G!HasText(w) /\ ~w.fuzzy
  <2>1. Rank(w) >= 12
    BY <1>1 DEF Rank
  <2> QED
    BY <2>1 DEF Rank
<1> QED
  BY <1>2 DEF IsReviewed, G!Translated, HonestEntry, G!Live, G!SameAsEnglish

\* The first copy of an entry stays.
LEMMA FirstCopy ==
    ASSUME NEW k, NEW c, HonestList(k, c), NEW i \in DOMAIN c, G!Live(c[i])
    PROVE  \E m \in DOMAIN c : SameAs(c[m], c[i]) /\ \E n \in DOMAIN KeptOf(c) : KeptOf(c)[n] = m
<1> DEFINE At == {j \in DOMAIN c : SameAs(c[j], c[i])}
<1>1. DOMAIN c = 1 .. Len(c) /\ Len(c) \in Nat
  BY PlacesOf
<1>2. At \subseteq Nat /\ At # {}
  BY <1>1 DEF SameAs
<1>3. PICK m \in At : \A j \in At : m <= j
  <2> HIDE DEF At
  <2> QED
    BY <1>2, LeastOf
<1>4. m \in DOMAIN c /\ SameAs(c[m], c[i])
  BY <1>3
<1>5. FirstIn(c, m)
  <2> SUFFICES ASSUME NEW j \in 1 .. (m - 1), SameAs(c[m], c[j]) PROVE FALSE
    BY DEF FirstIn
  <2>1. j \in DOMAIN c /\ ~ (m <= j)
    BY <1>1, <1>4
  <2>2. SameAs(c[j], c[i])
    BY <1>4 DEF SameAs
  <2> QED
    BY <1>3, <2>1, <2>2
<1> QED
  BY <1>4, <1>5, KeptIs

LEMMA DedupeKeeps ==
    ASSUME NEW k, NEW c, HonestList(k, c)
    PROVE  G!ReviewedIds(c) \subseteq G!ReviewedIds(G!Dedupe(c))
<1> SUFFICES ASSUME NEW i \in DOMAIN c, IsReviewed(c[i])
             PROVE  \E x \in G!ToSet(G!Dedupe(c)) : IsReviewed(x) /\ G!IdsOf(c[i]) \subseteq G!IdsOf(x)
  BY KeptBy
<1>1. PICK m \in DOMAIN c : SameAs(c[m], c[i]) /\ \E n \in DOMAIN KeptOf(c) : KeptOf(c)[n] = m
  BY FirstCopy DEF IsReviewed, G!Translated
<1>2. AfterOf(c, c[m]) \in G!ToSet(G!Dedupe(c))
  <2>1. PICK n \in DOMAIN KeptOf(c) : KeptOf(c)[n] = m
    BY <1>1
  <2>2. n \in DOMAIN G!Dedupe(c) /\ G!Dedupe(c)[n] = AfterOf(c, c[m])
    BY <2>1, DedupeIs
  <2> QED
    BY <2>2 DEF G!ToSet
<1> DEFINE g == GroupOf(c, c[m])
<1>3. /\ HonestList(k, g) /\ (\A j \in DOMAIN g : SameAs(c[m], g[j]))
      /\ (\A j \in DOMAIN c : SameAs(c[m], c[j]) => c[j] \in G!ToSet(g))
      /\ \A j \in DOMAIN g : G!ToSet(g[j].refs) \subseteq G!ToSet(RefsOf(c, c[m]))
  BY GroupIs
<1>4. /\ DOMAIN g = 1 .. Len(g) /\ Len(g) \in Nat /\ (\A j \in DOMAIN g : HonestEntry(k, g[j]))
      /\ HonestEntry(k, c[m])
  BY <1>3, PlacesOf
<1> HIDE DEF g
<1>5. PICK j \in DOMAIN g : g[j] = c[i]
  BY <1>1, <1>3 DEF G!ToSet
<1>6. CASE Len(g) > 1
  <2> DEFINE w == G!Pick(g)
             x == JoinedOf(c, c[m])
  <2>1. g # <<>>
    BY <1>5, DOMAIN <<>> = {}
  <2>2. PICK n \in DOMAIN g : w = g[n] /\ \A l \in DOMAIN g : Rank(g[l]) <= Rank(g[n])
    BY <1>3, <2>1, PickIs
  <2>3. HonestEntry(k, w) /\ G!Live(w) /\ Rank(c[i]) <= Rank(w)
    BY <1>3, <1>4, <1>5, <2>2 DEF SameAs
  <2> HIDE DEF w
  <2>4. IsReviewed(w)
    BY <2>3, BestIsReviewed
  <2>5. /\ x.target = w.target /\ x.fuzzy = w.fuzzy /\ x.obsolete = c[m].obsolete
        /\ x.ctx = c[m].ctx /\ x.refs = RefsOf(c, c[m])
    BY <1>4 DEF JoinedOf, HonestEntry, EntryFields, w, g
  <2> HIDE DEF x
  <2>6. IsReviewed(x)
    BY <1>1, <2>4, <2>5 DEF IsReviewed, G!Translated, G!HasText, G!Live, SameAs
  <2>7. x.ctx = c[i].ctx
    BY <1>1, <2>5 DEF SameAs
  <2>8. \A r \in G!ToSet(c[i].refs) : r \in G!ToSet(x.refs)
    BY <1>3, <1>5, <2>5
  <2>9. G!IdsOf(c[i]) \subseteq G!IdsOf(x)
    BY <2>7, <2>8, IdsGrow
  <2>10. AfterOf(c, c[m]) = x
    BY <1>6 DEF AfterOf, x, g
  <2> QED
    BY <1>2, <2>6, <2>9, <2>10
<1>7. CASE ~ (Len(g) > 1)
  <2>1. SameAs(c[m], c[m])
    BY <1>1 DEF SameAs
  <2>2. PICK l \in DOMAIN g : g[l] = c[m]
    BY <1>3, <2>1 DEF G!ToSet
  <2>3. l = j
    BY <1>4, <1>5, <1>7, <2>2
  <2>4. AfterOf(c, c[m]) = c[i]
    BY <1>5, <1>7, <2>2, <2>3 DEF AfterOf, g
  <2> QED
    BY <1>2, <2>4
<1> QED
  BY <1>6, <1>7

LEMMA RekeyKeeps ==
    ASSUME NEW k, NEW c, HonestList(k, c), NEW unit, unit # "log4d"
    PROVE  G!ReviewedIds(c) \subseteq G!ReviewedIds(G!Rekey(c, unit))
<1> SUFFICES ASSUME NEW i \in DOMAIN c, IsReviewed(c[i])
             PROVE  \E x \in G!ToSet(G!Rekey(c, unit)) : IsReviewed(x) /\ G!IdsOf(c[i]) \subseteq G!IdsOf(x)
  BY KeptBy
<1> DEFINE x == [c[i] EXCEPT !.refs = RekeyedRefs(unit, c[i])]
<1>1. HonestEntry(k, c[i])
  BY PlacesOf
<1>2. G!Rekey(c, unit)[i] \in G!ToSet(G!Rekey(c, unit))
  BY DEF G!ToSet, G!Rekey, G!MapEntries
<1>3. IsReviewed(x) /\ x.ctx = c[i].ctx /\ x.refs = RekeyedRefs(unit, c[i])
  BY <1>1 DEF HonestEntry, EntryFields, IsReviewed, G!Translated, G!HasText, G!Live
<1>4. \A r \in G!ToSet(c[i].refs) : \E q \in G!ToSet(RekeyedRefs(unit, c[i])) : q[2] = r[2]
  BY <1>1, RekeyedRefsAre DEF HonestEntry
<1> HIDE DEF x
<1>5. G!IdsOf(c[i]) \subseteq G!IdsOf(x)
  BY <1>3, <1>4, IdsGrow
<1>6. G!Rekey(c, unit)[i] \in {c[i], x}
  BY RekeyIs DEF x
<1> QED
  BY <1>2, <1>3, <1>5, <1>6

LEMMA SalvageKeeps ==
    ASSUME NEW c, NEW found
    PROVE  G!ReviewedIds(c) \subseteq G!ReviewedIds(G!Salvage(c, found))
<1>1. DOMAIN G!Salvage(c, found) = DOMAIN c
  BY DEF G!Salvage, G!MapEntries
<1>2. \A i \in DOMAIN c : IsReviewed(c[i]) => G!Salvage(c, found)[i] = c[i]
  BY DEF G!Salvage, G!MapEntries, IsReviewed
<1> QED
  BY <1>1, <1>2, EachKept

LEMMA SpacedKeeps ==
    ASSUME NEW c
    PROVE  G!ReviewedIds(c) \subseteq G!ReviewedIds(G!FixSpacing(c))
<1>1. DOMAIN G!FixSpacing(c) = DOMAIN c
  BY DEF G!FixSpacing, G!MapEntries
<1>2. \A i \in DOMAIN c : IsReviewed(c[i]) => G!FixSpacing(c)[i] = c[i]
  BY DEF G!FixSpacing, G!MapEntries, IsReviewed, G!Translated
<1> QED
  BY <1>1, <1>2, EachKept

LEMMA LintKeeps ==
    ASSUME NEW k, NEW c, HonestList(k, c)
    PROVE  G!ReviewedIds(c) \subseteq G!ReviewedIds(G!LintFix(c))
<1> DEFINE Found(e) == e.fuzzy \/ "english" \in G!LintFinds(e)
           Text(e) == IF "seam" \in G!LintFinds(e) THEN G!Mended(e.target) ELSE e.target
           Fixed(e) == [e EXCEPT !.fuzzy = Found(e), !.target = Text(e)]
<1>1. G!LintFix(c) = [i \in DOMAIN c |-> Fixed(c[i])]
  BY Zenon DEF G!LintFix, G!MapEntries
<1>2. ASSUME NEW i \in DOMAIN c, IsReviewed(c[i])
      PROVE  IsReviewed(Fixed(c[i])) /\ Fixed(c[i]).ctx = c[i].ctx /\ Fixed(c[i]).refs = c[i].refs
  <2>1. HonestEntry(k, c[i])
    BY PlacesOf
  <2>2. ~Found(c[i])
    BY <1>2 DEF IsReviewed, G!Translated, G!LintFinds
  <2>3. Text(c[i]) # G!Empty /\ Text(c[i]).by = c[i].target.by
    BY <1>2, <2>1, Texts DEF HonestEntry, IsReviewed, G!Translated, G!HasText
  <2> HIDE DEF Found, Text
  <2>4. /\ Fixed(c[i]).fuzzy = Found(c[i]) /\ Fixed(c[i]).target = Text(c[i])
        /\ Fixed(c[i]).obsolete = c[i].obsolete /\ Fixed(c[i]).ctx = c[i].ctx /\ Fixed(c[i]).refs = c[i].refs
    BY <2>1 DEF HonestEntry, EntryFields
  <2> HIDE DEF Fixed
  <2> QED
    BY <1>2, <2>2, <2>3, <2>4 DEF IsReviewed, G!Translated, G!HasText, G!Live, G!SameAsEnglish
<1> HIDE DEF Fixed
<1>3. DOMAIN G!LintFix(c) = DOMAIN c /\ \A i \in DOMAIN c : G!LintFix(c)[i] = Fixed(c[i])
  BY <1>1
<1> QED
  BY <1>2, <1>3, EachKept

LEMMA SeedKeeps ==
    ASSUME NEW c, NEW only, NEW reseed, NEW widgets, NEW drafts
    PROVE  G!ReviewedIds(c) \subseteq G!ReviewedIds(G!Seed(G!SeedFrom(c, only, reseed), only, widgets, drafts))
<1> DEFINE opened == G!SeedFrom(c, only, reseed)
           d == G!Seed(opened, only, widgets, drafts)
<1>1. /\ DOMAIN opened = DOMAIN c
      /\ \A i \in DOMAIN c : IsReviewed(c[i]) => opened[i] = c[i]
  <2>1. /\ DOMAIN G!Wiped(c, only) = DOMAIN c
        /\ \A i \in DOMAIN c : IsReviewed(c[i]) => G!Wiped(c, only)[i] = c[i]
    BY DEF G!Wiped, G!MapEntries, IsReviewed, G!Translated
  <2> QED
    BY <2>1 DEF G!SeedFrom
<1> HIDE DEF opened
<1>2. DOMAIN d = DOMAIN opened
  BY DEF G!Seed, G!MapEntries
<1>3. \A i \in DOMAIN opened : IsReviewed(opened[i]) => d[i] = opened[i]
  BY DEF G!Seed, G!MapEntries, G!ToSeed, IsReviewed, G!Translated
<1> HIDE DEF d
<1>4. DOMAIN d = DOMAIN c /\ \A i \in DOMAIN c : IsReviewed(c[i]) => d[i] = c[i]
  BY <1>1, <1>2, <1>3
<1>5. G!ReviewedIds(c) \subseteq G!ReviewedIds(d)
  BY <1>4, EachKept
<1> QED
  BY <1>5 DEF d, opened

\* The tools that add, join or mend take no reviewed text away.
LEMMA CatKeepsReviews == CatInv => G!ToolsKeepReviews
<1> SUFFICES ASSUME CatInv PROVE G!ToolsKeepReviews
  OBVIOUS
<1> USE DEF G!OnTr4w, G!Run
<1>1. HonestList(kind, cat) /\ HonestTable(table)
  BY DEF CatInv, HonestCat
<1> DEFINE Keeps == G!ReviewedIds(cat) \subseteq G!ReviewedIds(cat')
<1>2. G!RunMerge => Keeps
  BY <1>1, HarvestIs, MergeKeeps DEF G!RunMerge
<1>3. G!RunDedupe => Keeps
  BY <1>1, DedupeKeeps DEF G!RunDedupe
<1>4. G!RunRekey => Keeps
  BY <1>1, RekeyKeeps DEF G!RunRekey
<1>5. G!RunBackfill => Keeps
  BY <1>1, BackfillKeeps DEF G!RunBackfill
<1>6. G!RunSalvage => Keeps
  BY SalvageKeeps DEF G!RunSalvage
<1>7. G!RunLintFix => Keeps
  BY <1>1, LintKeeps DEF G!RunLintFix
<1>8. G!RunFixSpacing => Keeps
  BY SpacedKeeps DEF G!RunFixSpacing
<1>9. G!SeedWrite /\ seeding.read = cat => Keeps
  <2> SUFFICES ASSUME G!SeedWrite, seeding.read = cat PROVE Keeps
    OBVIOUS
  <2>1. PICK flaw, words \in G!Flaws, reseed \in BOOLEAN :
          LET only == G!Claims(seeding.read)
              opened == G!SeedFrom(seeding.read, only, reseed)
              drafts == [text \in {e.source : e \in G!Entries(opened)} |-> G!Drafted(flaw, text)]
          IN  cat' \in {cat, G!Seed(opened, only, G!Widgets(words), drafts)}
    BY Zenon DEF G!SeedWrite
  <2>2. \E only, drafts : cat' \in {cat, G!Seed(G!SeedFrom(cat, only, reseed), only, G!Widgets(words), drafts)}
    BY <2>1, Zenon
  <2> QED
    BY <2>2, SeedKeeps
<1> QED
  BY <1>2, <1>3, <1>4, <1>5, <1>6, <1>7, <1>8, <1>9 DEF G!ToolsKeepReviews

\* The tools that add to a catalogue, join or mend its entries take no reviewed
\* text away, whatever was done to it before.
THEOREM ReviewedWorkSurvivesAlways == MCSpec => ReviewedWorkSurvives
<1>1. MCSpec => [](tool = "catalogue" => CatInv)
  BY CatalogueInvariant
<1>2. (tool = "catalogue" => CatInv) /\ [MCNext]_allVars
        => [tool = "catalogue" => G!ToolsKeepReviews]_allVars
  BY CatKeepsReviews
<1> QED
  BY <1>1, <1>2, PTL DEF MCSpec, ReviewedWorkSurvives
==============================================================================
