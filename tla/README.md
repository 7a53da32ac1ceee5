# TLA+ for TR4W: the multi-operator network, and the tools beside it

TR4W is a contest logger for amateur radio (Free Pascal / Lazarus, `src/tr4w/src`). In a
multi-operator station several TR4Ws share one contest through a server, `tr4wserver`: each keeps
its own log in SQLite, and what one logs must reach the others and the server's log although links
break, programs are restarted and two people act at once. That part is where the program is
concurrent, and it is the core of this project: the send queue of a link, how a QSO is delivered
and redelivered, the link itself, and the server's table of stations.

Around the program stand its tools (`src/tools`, `src/tr4w/tools`, Python): they rewrite the
sources and the translations, build the data files, and test or watch radios and the server. A slip
there silently damages a catalogue of reviewed text, a source file or a data base, or lets a faulty
server pass. They are the second part.

Paths without a directory are under `src/tr4w/src/`. `PROJECT.json` holds the map from definitions
to source lines, the runs, the mutants, the hazards, the findings and the theorems; it is not
repeated here.

## 1. The system

One process per station, one server process. A station's threads, and what they share:

| thread | runs | shares |
|---|---|---|
| main | every form, timer and command; what others queued with `QueueAsyncCall`, in order | everything |
| connect thread | one per attempt (`ConnectThread`, `uNet.pas`) | `TNetClient`, `NetThreadID`, the session globals |
| reader | `TNetReader` (`uNetClient.pas`): reads, watches for a stalled write | `FConnected`, `GNetPending` under `GNetLock` |
| writer | `TNetSendWorker` (`uNetSendQueue.pas`): sends posted packets | the queue under its lock, `FOutcomes` under `TNetDelivery`'s |
| fetch thread | the catch-up's own connection (`uGetServerLog.pas`) | the fetched image, handed over with a queued call |

The server has a main thread and one Indy thread per connection, which does its work inside
`TThread.Synchronize`.

### Inventory

Each component: the state it keeps, its operations, what is hard, what makes it correct.

* **Send queue** (`uNetSendQueue.pas`, `uNetClient.pas`). State: the queue, `FIdle`, `FWake`, the
  stop flag, the worker. Operations: `Post`, `WaitIdle`, `Shutdown`, the worker's loop, the
  watchdog's cut. Hard: two critical sections maintain one event, an auto-reset event is set outside
  the lock, `Shutdown` may give up on a thread inside a write. Correct when nothing is lost,
  repeated or overtaken, `FIdle` is true, no wake-up is lost, and everything comes to an end.
* **QSO delivery** (`uNet.pas`, `uNetResend.pas`, `uGetServerLog.pas`, `uNetCatchUp.pas`,
  `uLogRepository.pas`, `uLogStore.pas`). State: `sent_to_server` and `server_dirty` of each row,
  the ledger `TNetDelivery`, `GResentKeys`, the fetch. Operations: log, edit, delete, settle,
  resend, fetch, merge, restock. Hard: the flags change when the packet is *written*, by the main
  thread, some time after; edits, link losses and crashes come in between. Correct when a flag never
  says more than was done, and everything arrives once at the server.
* **Link control** (`uNet.pas`, `uNetClient.pas`, `uNetLink.pas`, `uNetHello.pas`). State: the
  operator's wish, the attempt, `FConnected`/`FStopping`, `GNetPending`, the session, the refusals.
  Operations: connect, disconnect, reconnect, the retry tick, the attempt, the drain, the drop
  report. Hard: four threads without a lock, reports that arrive after the link they speak of.
  Correct when the wish is carried out, refusals are just and said once, and a wanted link comes up.
* **Server: clients** (`tr4wserverUnit.pas`, `uServerNet.pas`, `uNetHello.pas`). State: the
  table of 26 slots, the contexts. Operations: accept, handshake, HELLO, other messages, drop, run,
  stop. Hard: socket handles are reused, slots keep what the last station left, threads wait for the
  main thread. Correct when slots and ids are neither leaked nor shared, the HELLO gate holds and
  each station knows what the others announced.
* **Server log and index** (`tr4wserverUnit.pas`, `uServerQsoIndex.pas`). State: the log file,
  the index of QSO ids, the buffer of what came while the file was held. Operations: store, update,
  relay, hold, release, clear. Hard: relay and store are two steps.
* **Multi-op log** (both ends). Two stations' logs against the server's: relay, deduplication,
  concurrent edits, the merge. Correct when the logs converge.
* **Serial-number lockout** (`uNet.pas`, `tr4wserverUnit.pas`, `uProcessCommand.pas`,
  `trdos/logsubs1.pas`). State: numbers reserved per station. Correct when no number is given to two.
* **Stream framing** (`uNetFraming.pas`). Pure: message length by id, desynchronisation.
* **External logger delivery** (`uDurableExternalLogger.pas`, `uExternalDeliveryWorker.pas`,
  `domain/uExternalDelivery.pas`). A durable queue in the database, retries, batches, supersession.
* **QSO dispatcher and sinks** (`uQsoDispatcher.pas`, `uQsoSinks.pas`). Order and coalescing.
* **Backup copier** (`domain/uBackupCopier.pas`, `domain/uLogBackup.pas`). Generations, interruption.
* **Log store and database** (`domain/uLogDatabase.pas`, `uLogSource.pas`). SQL and migration;
  SQLite's transactions are taken as atomic by the models.
* **Main-thread hand-off** (`uMainThread.pas`, `uMainThreadWork.pas`). FIFO, used by the models.
* **Log-connection watch, TX-inhibit alert** (`domain/`). Small sequential state machines.
* **Radio links** (`uRadioLinkRetry.pas`, `uIcomNetworkTransport.pas`, drivers), **DX cluster**
  (`uTelnet.pas`, `uSpots.pas`), **WSJT-X, TCI, WebSocket, UDP**, **CW keyers**: protocol adapters and
  device I/O.
* **Contest rules and scoring** (`contestFactory/`, `trdos/`): pure, sequential, covered by the
  repository's tests.
* **User interface and settings.**

The tools:

* **Catalogue tools** (`tools/i18n`: `po_merge`, `po_dedupe`, `po_rekey`, `po_backfill`, `po_prune`,
  `salvage_lossy`, `po_lint`, `mt_seed`, `ini2po`, `pas2po`). State: a language's `.po` file, which
  people edit in between. Hard: any order of tools, and `mt_seed`, which reads the file, is away at
  an engine for minutes, and writes. Correct when a tool loses no reviewed text it does not say it
  loses, and no flag lies.
* **Text formats** (`pofile.py`, `pasconsts.py`, `po2pas.py`, `mt_seed.py`, `po_lint.py`,
  `po_defuzz.py`, `pas2res.py`). Correct
  when an edit changes what it is meant to change and nothing else, a draft that is kept is safe to
  show, and what is made of a file (a copy without flags, a unit of resourcestrings) says what it says.
* **Pascal formatter** (`format_pascal_beginend.py`). Passes until nothing changes. Correct when the
  program stays the program and the house style is reached.
* **Framers** (`k4panwatch.py`, `k4catwatch.py`, `tciclient.py`, `radiosim/core.py`). Correct when the
  messages do not depend on how the bytes come in.
* **Radio simulator** (`tools/radiosim`). Two threads over one state without a lock. Correct when a
  driver reads back what it set and pushes tell it what changed.
* **netprobe** (`tools/netprobe`). Hard: the server handles what was written whenever it gets to it.
  Correct when it fails no server that keeps the protocol and finds out those that do not.
* **ADIF validator** (`tools/adifvalidator`). Correct when it reads the records that were written.
* **K3 transmit watcher** (`k3watch.py`). It keys a transmitter. Hard: a rig with a backlog answers
  late, one command or answer may be lost, and Ctrl-C comes at any moment. Correct when the
  transmission ends, the rig is left as it was found and what is said at the exit is so.
* **UDC mirror** (`tools/udc/fetch_udc.py`), **names from QRZ**, **TRMASTER builder**
  (`tr4w/tools/trmaster`). Caches and outputs over many runs with failures and kills between any two
  steps. Correct when they neither go stale, lose nor skip.
* **UDC crosswalk, cross-checks against hamlib and DXLog.** One-pass reports.

Interaction: logging a contact posts to the *send queue* through *link control*'s `SendToNet`; the
queue reports outcomes to *delivery*, which changes the row's flags; *link control* tells *delivery*
that the server has answered, which starts the resend and the catch-up; the *server* judges the
HELLO, stores and relays.

## 2. The modules

The network:

| module | models | state ↔ code |
|---|---|---|
| `PacketOutbox` | the promise of the send queue, with no thread in it | `posted`, `settled`, `told`, `closed` |
| `NetSendQueue` | `TNetSendQueue` in full, and the writer and watchdog sides of `TNetClient` | `queue` FQueue, `wake` FWake, `idle` FIdle, `stopping` FStopping, `done` FDone, `worker` the thread, `owner` Shutdown/Destroy, `caller` a `Post` between lock and `SetEvent`, `cut` the closed socket; each `SetEvent` outside a critical section is a step of its own (`WakeWorker`, `WakeToStop`, `SignalDone`, `SignalIdle`); `posted`, `finished`, `reported`, `discarded` are history |
| `QsoDelivery` | one station's delivery to the server's log | `row` the two flags and a version, `edits`/`outcomes` `TNetDelivery`, `settleDue` the queued `Settle`, `resent` GResentKeys, `outq` the queue, `wire`, `server`, `sync`/`image` the catch-up, `dialog` the open edit dialog, `storing` a handler between its post and its store |
| `ServerClients` | the server's contexts and table | `ctx` TServerConn, `table` ClientsSoocketsArray, `heard` what each station was told of its peers, `main` the server's main thread |
| `NetLinkControl` | a station's link and the kinds of server it may meet | `wanted` GLinkWanted, `attempt` NetThreadID and where its thread is ("reader": the link is up and its reader not yet created), `client` FConnected/FStopping/FReader, `conn` the TCP connection, `mainq` QueueAsyncCall, `pending` GNetPending, `session` FServerHelloSeen, age of FHelloSentTick, GResendDue, GResentThisLink, `refused` FServerRefusedFor and FRefusedComputerID |
| `NetSendQueueProofs`, `ServerClientsProofs`, `NetLinkControlProofs` | theorems about them | |
| `QsoDeliveryTypes`, `QsoDeliveryProofs`, `QsoDeliveryEnds` | theorems about `QsoDelivery`, each module on the one before it | |

The tools. `TextTools` makes state machines of the operators of the modules above it in the table (a
job is set, turned over to the tool, and judged); the others are state machines of their own.

| module | models |
|---|---|
| `PoFile` | a catalogue as entries: who wrote a text, of what English, whether fuzzy |
| `CatalogueTools`, `Catalogue` | one run of each catalogue tool as a function; a release with developers, translators and tools in any order (`cat` the file, `seeding` what mt_seed read, `table` the older source). A language begins from a table or, with none, from `--new-lang`; a seeding ends with a write or, at a failure, without one |
| `PoText`, `PasText` | lines and escapes of a `.po` file, constants of a language table with the file's form; po_defuzz's copy; pas2res's unit; the text of a `.ts` file |
| `Captions` | a caption's way through mt_seed: accelerator, protection, repair, refusal, po_lint's questions; specifiers found as the two regular expressions find them |
| `PascalFormat`, `PascalPrograms` | the formatter's parser and rewriter, its passes up to `MAX_PASSES`, and what becomes of the file; small programs, layouts, and a compiler's reading of a text as the reference |
| `Framers` | the four framers, fed bytes in pieces; the panadapter's checks and tallies; the WebSocket reader's start with what the handshake left over, its answers and end; k4catwatch's report |
| `TextTools` | jobs on all of these; po2pas's application of a translation to a table |
| `RadioPersonalities`, `RadioSim` | commands of nine simulated radios, and those the program's drivers send them; the reader and the console thread over one state |
| `ProbedServer`, `NetProbeCases`, `NetProbe` | the server as the probe sees it, sound or with one of 25 faults; the cases as scripts; the probe's steps against the server's reads |
| `AdifRecord`, `AdifValidator` | what is said of a field and of a record's two sides (the station worked, one's own); the scanner state by state |
| `TransmitWatch` | k3watch, the rig (prompt, or as late as it likes) with its input queue, and the line |
| `UdcFetch` | listing, download, manifest, resume |
| `QrzEntry`, `QrzNames` | an entry of the cache; the lookups, session, limits, outputs |
| `TrMaster` | codec in both directions, SCP.DB's calls with the floor and who verified them, merge, both passes, months |
| `MCServerClients`, `MCTextTools`, `MCDownloads`, `MCBench` | instances for TLC. The last two are sums: the tools in them share no state, the first state chooses one and the variables of the others stand still; so one run asks each its own questions |
| `MCBenchProofs` | theorems about `TransmitWatch` and `RadioSim`, stated of the sum in `MCBench` |
| `MCDownloadsProofs` | theorems about `UdcFetch`, `QrzNames` and `Catalogue`, stated of the sum in `MCDownloads` |

Conventions. An action is a whole handler; where the code gives up a lock, posts or waits in the
middle, it is split there and nowhere else. Names are the source's. Variables called history
(`past`, `written`, `finished` ...) are read by properties, and twice by a guard that limits what
the outside does (`FetchFails`, by `leftOut`: on the last link only a fetch begun on an earlier one may
fail; `AcceptHelloOfAnotherProtocol`, by `past`: a station of another protocol speaks
it from its first HELLO on); no other guard looks at them. `Bug_...` operators stand before the
definition they are a faulty version of; the specification does not use them.

### What each model leaves out

* `NetSendQueue`: counters and log texts. A time-out may expire at any moment.
* `QsoDelivery`: content is a version number; write and report of its outcome are one step (between
  them nobody can tell the difference, the outcome waits for `Settle`); bytes read after a drop are
  bytes read before it; a resend stopped half way is one whose packets were posted and failed; the
  outcome of a resent offline QSO matters only when it failed; the rows of the other stations, the
  import judgement and the backup before a merge are absent. SERVER AUTO SYNCHRONIZE is an operator
  who says yes at once.
* `ServerClients`: telnet flag and spots, serial numbers, the log-sync listener, COMPUTERID of the
  old protocol, messages that are only relayed, a second id on a link.
* `NetLinkControl`: server address, catch-up, name resolution, a contest id that does not fit the
  HELLO (the attempt then ends like a failed one), program shutdown, the modal warning boxes (which
  run the message loop), what a refusal says. Messages are whole. `tCreateThread` starts the thread
  and stores its id in one step. Not a HELLO is one message, and kept only where the server could
  tell: as the first of a link.
* Tools: texts of messages, statistics, command lines, file names, HTML and HTTP below "an answer or a
  failure". A time is a day or a turn of a loop. `PROJECT.json` says per component what is left out.

## 3. What the runs check

`CHECK_DEADLOCK` is off in the four runs of the network and their violation runs, because these
systems may stop: the bounds run out, the last packet is posted and the
queue closed, nobody wants the link. All runs of the tools check deadlock; a tool that has ended
stutters by an action of its own.

Five runs expect a violation: each shows a place where the code does not do what a line of the
repository says it does (`PROJECT.json`, "findings", quotes the line). Section "Refuted statements" below
has more of the kind.

### NetSendQueue: 3 packets, 2 posting threads

`InOrder` (posted = finished, then the one in flight, then the queued, then those `Shutdown` freed),
`IdleIsTrue` (while the event WaitIdle waits for is signalled nothing is queued or in flight, and
while it is not something is; but for the moment when Shutdown has freed the queue, has left the lock and
has yet to set the event, lines 470-471), `NoLostWake`, `ImplementsOutbox` (refinement), `EveryPacketSettles` and `ShutdownEnds` under fairness. Two callers
are needed for a post between another's lock and its `SetEvent`; three packets for one in flight
with two behind it. The theorems say the same of any number.

### QsoDelivery: 1 QSO, 2 versions, 2 links, 1 accident

`FlagsTellTheTruth` (a row is "sent" only when it was written whole, and owes nothing only when the
version it holds was written), `EditsAreAccountedFor` (the ledger counts exactly the edits under way,
an unwritten edit keeps its row dirty, an outcome has a settle coming), `ServerMovesForward` (no step
duplicates or takes back), `EverythingArrives` (liveness). A row's flags, edits and outcomes concern
that row alone; the QSOs share only the queue and the settling. Two versions make an edit possible on
top of a delivery in flight, two links a loss and a resend, an accident is a crash or a row the log
refuses. Three versions with the same bounds also pass.

`QsoDeliveryEditRace` shows where the code does not do what it says: an edit made with no link loses
its need to an earlier edit's late outcome. Two more disagreements of this kind are in the model and
excused by a history variable, without a run of their own: a QSO the server lacks, already
marked sent and owing an edit, is given to it as an edit only (`leftOut`), and the modal edit dialog
stores the flags it read when it was opened.

### ServerClients: 3 connections, 2 handles, 2 slots, 2 ids, 2 contests

`SlotsAreOwned` (slots are counted, and the HELLO gate holds), `IdsAreUnique`, `PeersAreCurrent`,
`NoPeerOutlivesItsLink`, `RefusalsAreJust`. Three connections over two handles force a reused handle
while its old owner is still being dropped; with two slots and three connections the table is full;
two ids make a conflict and a reclaim. Handles, ids and contests are interchangeable (symmetry);
slots and connections are searched in order and are not. No liveness is checked under symmetry. What is
proved of them holds for any number: the proof attempt showed that with four connections
`RefusalsAreJust` was too strong as first written (two connections share a handle, the first to
end frees the other's slot, and its id stays in a slot that looks taken); it now excepts ids of
connections that shared a handle, as the code promises nothing of them.

`ServerClientsStop` shows that Stop with a station connected does not end: the main thread waits for
connection threads whose last step waits for the main thread. `ServerClientsNewcomer` shows a
station refused because its handle still belongs to a connection not yet dropped.

### NetLinkControl: 2 ids, 3 moves

A move is something the outside does: a command, a message of the main thread's own, a lost link, a
failed attempt, another server. Everything else (threads, queue, reader, server, timer) is
unbounded. Three moves hold the cases that matter: Connect, a loss, Disconnect; Connect, another
kind of server, Reconnect; a refused id, changed, and asked for again. With four moves the
invariants also hold. `MaxBehind = 0` lets the retry timer, which ticks seconds apart, find the queue
empty; with one call waiting when it ticks the run also passes.

`LiveLinkHasReader` (behind a link that counts as up stands a connection and its reader, or the connect
thread that has set the flag and creates the reader next: the code sets the flag first, on purpose,
`uNetClient.pas:477-482`), `UnwantedLinkIsDropped`, `RefusalsAreHonest` (a refusal has a cause, and the
operator is told of it once), `OfflineWorkGoesOnce` and, under fairness, `WantedLinkComesUp`.
`NetLinkControlHello` shows that HELLO is not always the first message of a link: it counts as up
before the connect thread has sent it.

### MCTextTools: about 20 000 jobs, 95 000 states

`TextIsSameProgram` and `TextIsHouseStyle`: 3 levels of statements (an `else` that could be bound
anew needs two, a body in a body three) and nests of loops up to five deep (the formatter gives up
after a number of passes), each in every choice of line breaks, other indents, a comment, a
directive or a frozen line. The reference is a reading of the text as a compiler's, not the
formatter's own parser. `StreamsAreMessages`: each stream in pieces of every size, with noise, an
escape byte before a preamble, a packet cut short at every byte, a sequence number that wraps, a ping,
a close and a masked frame; a WebSocket reader begins with any part of the stream left over from
the handshake (a packet is 12 bytes here, its header 8: the marker, the numbers and both
sums have their places, which is all the framer looks at); and what k4catwatch reports of a K4's
messages, a command that comes twice among them. `CaptionsAreSafe`:
every caption of five characters over two letters, `&`, `%` and a blank, and longer ones with widths,
controls, an ellipsis and names that are not sent, against an engine that answers
faithfully, drops, repeats, reorders, quotes or spells out what it is sent, or loses its words or
its line breaks. `EditStaysLocal`: one or more edits of a `.po` file or table with each line end,
with and without a mark, with mixed line ends, with damaged bytes; po2pas applies a translation or
refuses it (a specifier changed, NULs lost, nothing but blanks) and changes that constant alone; po_defuzz's copy, read again, is the catalogue but for
"fuzzy"; pas2res's unit has every constant the code can show once, with its value, its comment and the
context a translator needs, for every choice of what the sources use.

Of `tciclient.py` `StreamsAreMessages` asks that a stream read to its end have given out all, and that each
ping be answered with its payload. The answer is a text frame although the comment says PONG (lines 159-160), and what
came in whole with the handshake's answer waits for the next bytes.

### MCDownloads

`MirrorIsTrue`: three runs over a site that grows, pages of one entry so that a new one shifts the
rest, two files of one name, a failure and two kills (a kill while the manifest is out of date, and
one while the next run repairs it). Its second half is about an entry whose name is its own: of two
that share one, the last downloaded is what the file holds, and the manifest says so. The property speaks of files
that have a hash: a write cut short, by a kill or a full disk, leaves a file without one that every later
run takes for cached, whatever it holds, against the header's "resumes where it stopped".
`RecentNamesOnly`, `NoNameSkipped`: two runs over three days, with times to live of one and two
days, a changed page, a fault, limits 0 and 1. `CuratedSurvives`, `FileReadsBack`: two months, the first
output made the seed of the second or not; the universe of calls from `MASTER.DTA` or from SCP.DB above a
floor; calls that share a bucket, fields with 8-bit text. `CuratedSurvives` asks nothing of the order of
the downloads among themselves: a name of the FOC step, which may be last month's out of the seed, goes before this
month's CWops roster, against merge's docstring.

`FlagsAreHonest`, `ReviewedWorkSurvives`: a catalogue with 2 edits and 3 runs of tools, 4 of them
together; one string of each of the four kinds (table, form, application, vendored unit) over two English
texts, so that a text is reworded and reworded back, and two strings share their English. The
second is about the steps of the tools that add, join, mend and seed (`po_merge`, `po_dedupe`, `po_rekey`,
`po_backfill`, `salvage_lossy`, `po_lint --fix`, `mt_seed --fix-spacing`, `mt_seed`); for `mt_seed` only while
nobody else wrote the file while it was out: the tool writes what it read, and the review made in
between is lost, as its help admits. The rest is not in it because it does lose reviewed text. `ini2po` asks for
a new review when the English has changed, which is its purpose. `pas2po` writes the table's text over a newer review
although it says it preserves "any review decision already in the file". `po_prune`
retires every entry of a form or of `uAppStrings` that has a key, as it only knows the `TC_` and `RC_` names,
and the next `po_merge` deletes them. `po2pas` reads the catalogue and leaves it alone.

### MCBench

`ConfirmedMeansReceive`, `KeyedForABoundedTime`, `AiLevelComesBack`: the four polling modes with one
fault (an unkey the rig ignores, an answer lost), Ctrl-C at any moment, in the loop or outside it, and the rig
of either kind. A *prompt* rig has handled what waits when a sleep of 0.3 s is over and lets a command
wait for one turn at most; a *late* one answers when it likes, with up to `MaxWaiting = 2` commands in its
queue over a sleep or a turn (one more than the loop's poll: enough for an answer to an earlier question
to come in place of a later one's), which also stands for the backlog a burst makes. Of a late rig the
properties say what the tool can still know. Once the tool has given its `RX;`, a rig that obeys *ends* in receive
whatever still waits and whatever ends the tool; one that was confirmed and has handled everything receives,
although an order was ignored or an answer lost. The level the rig was found with holds, or stands in its queue,
last; and holds already if the tool says so. The bound on the time keyed is a prompt rig's. Two moments are
left out by name (`GotTo`): a Ctrl-C between the write of the level (line 291) and the `try` (341), and a second one
in the `finally` clause before the level, or the `RX;`, is written: the code then leaves the level changed or
the rig keyed. The configuration has a `VIEW`: once the loop is over nothing reads its variables, in a step or
in a property, so states that differ only in them count once (ten million states become half a million).

`SetsReadBack`, `StaleOnlyIfTakenBack`: two
commands and one key on each of nine radios: enough for a change and its taking back on either side
of a push. `NoFalseAlarm`, `FaultsAreFound`: each of the 13 cases against a sound server and each fault,
with every interleaving of the server's reads; a send on a connection the server has closed is lost, or
ends the case in error. The sleeps before a download and the settling of a link are taken as long enough,
and `FaultsAreFound` leaves out a run where a short wait ended before the server was done (`early`): the
tool cannot know, and passes such a server. Neither property would therefore catch a sleep that is too short.
`RecordsReadBack`: about 4000 files of
one or two records with every slip of a writer, and records that name a place (entity, state, county,
zones, squares) on either side, right, wrong, or of another place. It is about what is read of a
record; a complaint that is found and never written is `AdifValidatorTail`'s.

`AdifValidatorTail`: an error found in the last record by `verifyQSO` is counted and never written,
and the gate counts written lines.

### Refuted statements

Statements of the repository that the models refute, defined beside the properties. Put as the INVARIANT or
PROPERTY of a configuration of its module (the constants as in the component's run), TLC finds the
counterexample of each within a minute.

| definition | what is said | what happens |
|---|---|---|
| `ConfirmedIsSo` (`TransmitWatch`) | "Returns True if it did" act on `RX;` (`k3watch.py:119`) | a late rig's answer to a poll from before is taken for the confirmation |
| `LevelIsRestoredOnExit` (same) | "RESTORE WHAT WAS THERE" (`k3watch.py:276`, `189`) | Ctrl-C between the write and the `try` |
| `UnkeyedOnTheWayOut` (same) | "always sends RX; on the way out" (`k3watch.py:28-30`) | a second Ctrl-C while the level is put back |
| `CachedIsWhole` (`UdcFetch`; in `MCDownloads` by the same name) | "an interrupted run resumes", files "byte for byte" (`fetch_udc.py:10-17`) | a cut write leaves a file that is taken for cached (240, 228) |
| `NamesByPrecedence` (`TrMaster`; in `MCDownloads` by the same name) | "CWops > FOC > history" (`trmaster_build.py:10`, `274`) | FOC is applied last (305), the seed's members with it |
| `EmitKeepsDecisions` (`Catalogue`) | "preserving any review decision" (`pas2po.py:96`) | the table's text replaces a newer review (137) |
| `PruneRetiresOnlyTheGone` (same) | "when their key no longer exists in the source" (`po_prune.py:1`) | keys other than `TC_` and `RC_` are unknown to it (41, 122) |
| `EverythingIsPrinted` (`TextTools`) | "prints everything the server sends" (`tciclient.py:13`) | what came with the handshake waits for more (134-147) |

Noted while modelling, without a definition: a report equal to the last one stays in k3watch's buffer and
answers every later poll, so its paced loop does not wait for replies, though the header says it waits for each; an engine's draft put into an
entry that Poedit saved empty, and so without its fuzzy mark, is not marked fuzzy, although
`mt_seed` ends by saying that every seeded entry is (`mt_seed.py:719`, `744`); a killed download
leaves the UDC manifest without what it already has, which the next run recovers from the files.

### What is excused, and why

Some properties leave out a case the code does not handle; each is named by a history variable, so
that the property still speaks of everything else, and each is a hazard in `PROJECT.json`.

| excuse | case |
|---|---|
| `lostEdits` | an edit went to a socket and the server never read it; nothing repeats it |
| `leftOut` | the restock gave a missing QSO to nobody; the operator saved a stale dialog |
| `raced` | `QsoDeliveryEditRace` |
| `unstored` | the log refused a row whose packet had gone, or a crash came between |
| `shared` | a connection came with a handle whose old context was still there |
| `met` | its first HELLO was refused, a later one accepted |
| `seated` | the table was full |
| `stale` | drop reports of an earlier link were still to come |
| `missed` | Disconnect fell between the connect thread's look and its end |
| `early` | something went before HELLO |
| `lost`, a cause in `RefusalsAreHonest` | an ordinary loss between HELLO and answer looks like an old server |
| `muddled` | more than one HELLO, link or id is in question when the operator is told |
| `early` of netprobe | a short sleep ended before the server had done its part |
| `seeding.read = cat` | the catalogue was saved while `mt_seed` was away |
| `originalAi`, `prompt` | k3watch never heard the level; a late rig's time keyed |
| `GotTo` | Ctrl-C in k3watch before its `try`, or a second one before its `finally` clause has written |

### Fairness

Always weak. Threads that are runnable run (the operating system schedules them). In `NetSendQueue`
a write need not end, but the reader's watchdog cuts a stalled one after its time-out and a cut
write returns. In `QsoDelivery` a write on a link that stays up succeeds, the retry brings links
back, the server reads, a fetch ends, the operator answers a question and closes a dialog; a loss, a
crash, an edit is never owed, and is bounded, so "a link that stays" exists. In `NetLinkControl` the
connect thread, the reader, the main thread's queue, the timer and the server run; what the operator
and the network do is owed nothing. In `ServerClients` (only for `StopEnds`) each connection thread
whose socket is closed, each Synchronize and the return of `StopServer` are fair: even so Stop does
not end. The tools' properties are safety; what must happen at an end is stated of the state the
tool ends in.

Every property of a passing run has a mutant, a plausible slip in one definition (a reset left out, a
guard dropped, an order swapped), under which its run fails.

## 4. What is proved

With TLAPS, for every value of the constants that satisfies the modules' ASSUMEs (bounds are naturals,
model values are distinct, sets of callers, handles and contests are arbitrary).

* `NetSendQueueProofs`. `TypeCorrect`, `PacketsInOrder`, `IdleMeansIdle`, `WakeNotLost`,
  `QueueImplementsOutbox`. The inductive invariant is the four safety properties and `Lifecycle`,
  which ties the owner's place in `Shutdown` to the flags and the thread: without it `FreeQueued`
  could run beside a write, or `SignalIdle` find a packet queued again. Each action is one step of the proof. The refinement uses `InOrder` for the
  order of outcomes: the packet the thread finishes is the oldest that has none.
* `ServerClientsProofs`: all the safety of `ServerClients`. `TypeCorrect`, `OneStationPerId`,
  `SlotsAreTheirOwners`, `PeersHeardCurrent`, `PeersGoWithTheirLinks`, and the action property
  `RefusalsHaveAHolder`. Uniqueness of ids is inductive with the types alone: only `SetComputerID` gives
  an id to a slot, it looks at every other slot with a handle, and a slot without one counts for nothing
  until a station is put in it, which clears its id. The rest rests on `Order`: connections come in the
  order of their numbers, and of two that live with one handle at most one is working, and both are
  marked `shared` where the table could confuse them. Then a handle has at most as many slots as seated connections (`NotMoreThanSeated`), and an
  unshared one exactly its own (`HasSlot`): `SlotsAreCounted` for every table size. On this stand that
  a station's own slot says what the station said (`SlotFits`), that an id in the table is held by a
  seated connection (`IdIsHeld`), that nothing is relayed to a connection before its HELLO (`HeardLate`), and
  that what it was told is true (`HeardTrue`). Ids of connections that shared a handle are left
  out (`Clean`): the first of them to end frees whichever slot comes first.
* `NetLinkControlProofs`: all the safety of `NetLinkControl` that is stated of its own `Spec`.
  `TypeCorrect`, `LinkIsBacked`, `DisconnectTakesEffect`, `OfflineWorkIsSentOnce`,
  `RefusalsAreHonestAlways`. Typing is proved per group of actions. That the flag has a reader
  behind it needs one thing more (`Backed`): while the connect thread is about to create the reader there is none.
  Then every teardown takes flag, reader and connection, and the reader takes the flag down before it ends. (A
  report of an older drop can take the link down before its reader exists; the reader is created all the same, and
  has nothing to read: `Orphan`.) For Disconnect the statement must be strengthened from "no attempt" to "no
  attempt, or one that has looked" (`DisconnectInv`): once the thread has looked, only a Disconnect after
  the look can be missed. The two histories need the whole link in the invariant (`IInv`): flag,
  reader, connection and the drains queued fit (`Shape`); an attempt nothing was left over for
  starts with nothing to read (`CleanStart`); a report of a drop stands behind every drain (`Reports`);
  the answer to the HELLO is known, or read and about to be drained, or on the wire (`Answered`); the
  session's flag says whether the offline work went on this link (`Sent`); a server given up on has
  done something to be given up for (`RefusalHasACause`); a warning was one, with the link down and its
  cause standing (`Warned`); and a link carries one HELLO of ours and one refusal of it (`OneAnswer`), unless the
  connection was made over another's leftovers (`muddled`). TLC searched `IInv` to four moves first.

`QsoDelivery` has all its safety proved, for any number of QSOs, versions (at least one), links and
accidents; `None` is not a row with its QSO (`NoneAssumption`). The proof is in three modules:

* The first part of `QsoDeliveryTypes`: how many edits of a QSO a queue has, and what `FlattenSeq` puts into it.
  The resend posts all QSOs' packets in one step, so the count of one QSO's edits in the flattened
  sequence is the count in that QSO's own; this is shown over the steps of `FlattenSeq`, a recursive
  function, from a least counter-example.
* `QsoDeliveryTypes` and `QsoDeliveryProofs`: `TypeCorrect`, `AccountsCorrect`. The invariant `IInv`
  adds to the accounts that nothing is anywhere of a QSO not made (`MadeInv`) or not logged
  (`UnloggedInv`), that the open dialog holds the log's version (`DialogInv`), that a clean row about
  to be stored has nothing under way (`StoringInv`), and that there was a link before anything was posted
  (`LinkInv`: a Settle is queued on the number of its link, and 0 means none). Without `MadeInv` a new
  QSO's clean row could be stored beside an edit of it; without `DialogInv` the version saved could be
  any.
* `QsoDeliveryEnds`: `FlagsCorrect`. That a row marked sent was written whole needs the same of
  everything a row's flag can come from: a handler's row, the dialog, an outcome, the server, the fetched
  log, the wire, the restock's packets (`WholeInv`). That a clean row's version was written needs
  what the ledger does not have, versions: while an edit is in flight and none failed, the packet with
  the log's version is queued or was written (`FlightVer`); the settle that finds the ledger's count
  used up finds nothing queued (`LedgerExact`), so it was written (`CleanVer`).
* `QsoDeliveryEnds`: `ServerCorrect`. The versions of a QSO are in order from the server's log over
  the wire and the queue to the station's log (`OrderInv`); the server reads the first of the wire.

`MCBenchProofs`: two of the tools. Each stands still while another runs, so its invariant is one of
the sum.

* `ConfirmedMeansReceiveAlways`, `AiLevelComesBackAlways` (k3watch), for any number of faults, any
  `MaxWaiting` and Ctrl-C anywhere. `WatchInv` says of the rig's queue what is so however late the rig
  is: behind the unkey of `ensure_receive` no order to key waits (`UnkeyOnItsWay`); its question is the last
  command, so once that is handled a rig that transmits has said so, or two things went wrong
  (`KeyedIsReported`: with the unkey ignored *and* the answer lost an earlier poll's "0" is taken for the
  answer, hence `faults <= 1` in the property). Of the level: until it is read nothing sets another and only one
  question is asked (`LevelUntouched`, `OneQuestion`), so what is read is the rig's own; after that the queue holds
  first the order that sets the other level, with no question before it, then only orders that set it back
  (`LevelPhase`), so an answer with the level that was read comes from a rig that has it back (`LevelBelieved`).
* `KeyedForABoundedTimeAlways`, of a prompt rig, with `MaxFaults <= 1`. `KeyInv` follows a transmission from the
  order to key: its time has not come (`TimeToCome`), or an unkey stands behind the order and was given in
  time (`Stopping`), or that unkey was ignored and the tool will see it (`Ignored`), or the
  watchdog's unkey is on its way (`Retried`). The tool will see it (`WillSee`) as the last report says so,
  or a poll stands behind the order to key, or the poll before it is about to time out, or the rig pushes
  the change unasked: one case for each way to poll, and the reason that the watchdog
  fires in its first turn. Of the queue the proof needs that it is in order (`TxFirst`) and that an
  order waits at most one whole turn (`Timely`).
* `StaleOnlyIfTakenBackAlways` (the simulated TS-890). `PushInv`: for each head, what was last said
  of it is so, or it is due to be said, or one of its fields differs from what the last push
  compared with. The lemma `ChangeIsTold` is about `pending()`: every head whose value changed is found.
* `SetsReadBackAlways` (all nine radios). `RadioInv` says what a radio is: it has the fields of its
  personality, receives and transmits on one of two VFOs, and a Yaesu receives on its first. The
  `...Keeps` lemmas show that every command and key leaves it so; the `...Reads` lemmas, one or two for
  each family, that the query of a pair answers what the set of the pair stored, through the family's own
  forms. A field missing or a receiver on a third VFO would be set nowhere and read nowhere, so the pairs
  alone are not enough; frequencies are any value at all.

`MCDownloadsProofs`: three of the tools that keep files over many runs, in the same way.

* `MirrorIsTrueAlways` (the UDC mirror), for every list of the site in any page size
  (`SiteAssumption`), and any number of runs, failures and kills. The manifest saved is the list of the
  run, reached or not, so `UdcInv` says the same of the list, the manifest and the entries remembered
  from earlier runs (`RecordsTrue`): a file named is one of the entry's two names, and a hash is that of
  the whole file. Writing, and failing to write, disturbs none of them as the file opened is nobody's whole
  file (`Downloading`). Of a file without a hash nothing is proved: it may be cut.
  That a file is fetched once needs `OwnersTrue`: a name is taken only by an entry it is a name of, so an
  entry whose name is no other's always looks for its file under the name it was written to. That a
  page read adds blank entries only (`JoinTypes`) is shown over the steps of a recursive function, from a
  least counter-example.
* `NoNameSkippedAlways` (names from QRZ). A pass neither capped nor stopped has dealt with every call
  that is not in `todo`: it is cached, and listed if and only if the cache knows a name of it
  (`NoneSkipped`). The caches are one again when the outputs are written. `Candidates` without
  repetition is what the code's sorted set gives.
* `RecentNamesOnlyAlways`. `CachesTrue`: a page in either cache was held by QRZ on the day the entry
  carries, or later; so what `_fresh` lets pass was held within its time to live, whether it came from
  this run, an earlier one that was killed, or the older version. The hypothesis `ReadRight` is about
  pages, not runs: the name and place the tool derives from a page are those a reader of it would give, or
  none. It is kept apart since it is `QrzEntry`'s part, which the run checks on its four pages (a page read
  wrongly would be listed, and violate the property).
* `FlagsAreHonestAlways` (the catalogues), for finitely many strings of each kind, those of the language
  table and of `uAppStrings` apart (`IdsAssumption`), any texts, edits and runs. One lemma for each tool
  (`MergeHonest` ... `SeedHonest`, `PoeditHonest`) says that it makes honest entries of honest entries
  (`HonestEntry`). For that `CatInv` must say three things more. What a running `mt_seed` read is
  honest too, since it is written back over whatever was saved meanwhile. The language table holds nothing
  borrowed: `po2pas` fills it with unflagged texts alone, which is honesty again, and `po_backfill` and
  `pas2po` read it without a flag. And a help file with sections is never empty, whatever English was
  removed: `ini2po` builds an empty one anew, trusting an ini that may translate an English since reworded.
  `po_dedupe`'s choice needs that its rank orders the copies (`BetterIs`, `PickIs`): text and flag
  are the same copy's.
* `ReviewedWorkSurvivesAlways` (the catalogues), an action property of the tools named in section 3, from the
  same `CatInv`, which holds whatever the others do in between. A review is
  followed by identifier, not by place: `KeptBy` asks that each reviewed entry leave a reviewed one that
  answers for as many names, and there is a lemma per tool (`MergeKeeps` ... `SeedKeeps`). Two facts must be
  invariants for it. No reference is a vendored unit's (`IsRefs`), or `po_merge` would delete the reviewed
  entry: `po_merge` lets none in, `po_rekey` writes its own unit first. And live English standing for a translation
  is flagged in every catalogue, or the best copy `po_dedupe` picks could be the English with a better
  reference; `pas2po` leaves its flag off only where it was off before, and so never. (A translator of the
  model writes a text; one who accepts English as it stands is not modelled, and finished English is not
  what the property follows.)
  The joined references have every name of every copy (`UniqueIs`, `FlattenIs`), and `po_rekey` drops a
  reference only for one of the same name (`RekeyedRefsAre`).

Only model-checked: all liveness, `EverythingArrives` and `WantedLinkComesUp` among it (fairness and
ENABLED are outside the prover); and of the tools what relates tables, texts and recursive
definitions to each other. What a recursive definition computes for every input (`RecordsReadBack`,
`CuratedSurvives`, `FileReadsBack`, everything in `MCTextTools`) is induction over data: the
library's induction theorems cannot be used with the installed provers, and a least counter-example
serves where one fact carries over one step, not for a parser against its writer. RECURSIVE operators
stand only in modules no theorem uses. `NoFalseAlarm` and `FaultsAreFound` speak of 13 concrete scripts
against 25 concrete faults, which TLC enumerates in full; nothing there is a parameter.

## 5. The plan

Order: what loses QSOs first. Done:

1. `NetSendQueue` with `PacketOutbox` and proofs.
2. `QsoDelivery` and proofs.
3. `ServerClients` and proofs.
4. `NetLinkControl` and proofs.
5. The tools: catalogues and text formats, formatter, framers, radio simulator, netprobe, validator,
   k3watch, UDC mirror, QRZ names, TRMASTER.

Left:

6. `MultiOpLog`: two stations and the server's log, on the promise of the queue; received QSOs and
   their judgement, relay, deduplication, concurrent edits, the merge. Abstract specification: each
   station's log and the server's are replicas of one map from QSO to version, moving forward only.
   Run: 2 stations, 1 QSO each, 1 edit each, 1 loss.
7. `ServerLog`: the file held and released, the buffer, the index rebuilt, the clear command, the arms
   that relay; the telnet flag and spots.
8. `SerialLockout`: 2 stations, 3 numbers; no number given twice, none reserved for ever.
9. `ExternalDelivery`: the durable queue, retries, batches, supersession, with a crash; implements
   "each live QSO is delivered at least once, and its last version last".
10. The server's and stations' own framing (`uNetFraming.pas`) against a reference parser over short
    streams, then the drain's tail in `NetLinkControl`; the id stored after the connect thread has
    started (`TF.pas`).
11. `QsoDispatcher`, `BackupCopier`, the back-off of `uRadioLinkRetry`, the log-connection watch.

Theorem to come: that `MultiOpLog` implements its abstract specification.

### Not modelled

* SQL and migration: SQLite's transactions are the atomic steps of the models.
* Device protocols of radios and keyers, the DX cluster, WSJT-X, TCI, WebSocket and UDP: adapters that
  translate one format into another against hardware or programs that are not in the repository.
* Contest rules and scoring: pure and sequential, one table per contest, with unit tests.
* Forms and settings: no state a model checker would reach better than a test.
* The UDC crosswalk and the cross-checks against hamlib and DXLog: one pass, a report, and correct only
  against tables that are not in the repository.
* The repository's generated data (enumerations of ADIF, contest lists, help texts) stands in the models
  as small sets.

Two hazards have no property. The server relays before it stores, and a received edit is written over the
row as it is, so two stations that edit one QSO while one of them is off the link may end with different rows
(`uNet.pas:998`): both are for modules 6 and 7. Others have properties that do not reach the whole of them, and
a note that says what is left: netprobe's sleeps before a download are taken as long enough, an edit the
restock leaves to nobody is excused, a full table of the server admits a connection without a slot, of which the
code promises nothing.

## 6. Running it

`tlc -workers 2 -config NetLinkControl.cfg NetLinkControl` checks a run (`PROJECT.json` names the module
of each .cfg), `tlapm NetLinkControlProofs.tla` the proofs of a module. Every run ends within about
four minutes on two workers, most within one; the three modules about `QsoDelivery` are proved in
four minutes together, `MCBenchProofs` in a quarter of an hour, `MCDownloadsProofs` in ten minutes, the
other three in a few minutes each.
