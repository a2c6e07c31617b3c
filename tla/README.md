# A TLA+ model of harness-chat-exporter

`hce` reads the conversation histories that coding agents ("harnesses": Claude
Code, Codex, OpenCode, Pi) keep on disk, normalises them and publishes an
export: a ZIP archive, or one Markdown, JSONL or CSV file. This directory holds
TLA+ modules of its core logic, TLC configurations that check them on small
instances, and TLAPS proofs. Line references are to the repository's Go files;
`PROJECT.json` maps every definition to the lines it stands for.

## 1. The system

| Component | State it keeps | Operations | Talks to |
| --- | --- | --- | --- |
| Entry point `cmd/hce/main.go` | a context | cancels it on SIGINT/SIGTERM | everything below, which looks at `ctx.Err()` |
| Command line `config/config.go` | none | parses flags, ranges, sizes, output names | `app` |
| Export run `app/app.go` | the list of sources, what was finalized, bytes used, `warnings`, exit code | detect, discover, deduplicate, probe, deduplicate again, read each session (twice if it changed), limits, strict, preview or publish, clean up | adapters, pipeline, publication |
| Adapters `adapters/*` | none between calls; the histories belong to the harnesses, which go on writing | `Detect`, `Discover`, `Probe`, `Parse` | files, SQLite; feed the pipeline |
| Session pipeline `pipeline/sink.go`, `finalize.go` | a spool file, an in-memory index of it, the pending assistant turn, time span, match | `Add`, `Abort`, `Finalize`, `Replay`, `Close` | adapters push, renderers pull |
| Workspace `pipeline/workspace.go` | a directory of spools | create, new spool, remove | export run |
| Direct publication `app/output.go` | a temporary file, the output directory | choose a free name, write, hard-link, chmod | other `hce` processes and other programs, through the directory |
| ZIP publication `archive/archive.go` | a staging directory, the manifest | stage, write, validate, hard-link, chmod | replays every session several times; validation |
| Validation `validation/*` | none | reopens the archive and reconciles checksums, records and counts | ZIP publication |
| Limits `limits/*`, renderers `render/*`, schemas | none | pure functions | pipeline, publication |

What is hard in it, and hard to test:

* **Ordering.** Assistant messages are held back and joined until a user message
  or the end of the session; two representations of the session, the file and
  the index, are built by one pass and read by another.
* **Failure in the middle.** Every write, sync, link and chmod can fail, the run
  can be cancelled between any two, and each exit path has its own clean-up.
* **Shared directory.** Several exporters may want one name; the checks they make
  are stale by the time they act.
* **A moving source.** Harnesses append to, rewrite, replace and delete what is
  being read. A change is noticed only by two calls of `os.Stat`, and in the
  legacy OpenCode store not even by these.
* **Two accounts of one thing.** The archive is staged from replays and checked
  by reading it back; the two must agree on every session that adds up.
* **Accumulated flags.** Whether a loss was reported, and whether strict mode
  refuses, depends on one local set in a dozen places.

What makes each component correct: the pipeline loses, repeats and reorders no
message, keeps index and file in step and gives unique event IDs; the run
exports no session twice, hides no loss, keeps its limits and ends; the adapters
tell all of a history that stood still, and say so when it did not or when
something of it could not be read; the archive that is published is the one that was asked
for; publication
shows only complete files, overwrites nothing, and leaves nothing behind. The
full list of hazards, each with its line and the properties that guard it, is
in `PROJECT.json`.

## 2. Modules

| Module | Models | Checked by |
| --- | --- | --- |
| `SessionSink` | `pipeline.SessionSink` and `FinalizedSession`, one session | `MCSessionSink`: `SessionSink.cfg`, `SessionSinkRefines.cfg`, `SessionSinkRange.cfg` |
| `Transcript` | what the pipeline promises, without files or indexes | as a property of `SessionSink` |
| `Publication` | several exporters publishing in one directory: `uniqueDestination`, `publishDirect`, `Builder.Build`, clean-up | `MCPublication`: `Publication.cfg`, `PublicationRefines.cfg`, `PublicationSuffix.cfg`, `PublicationRemoval.cfg` |
| `OutputDirectory` | what the exporters promise of the directory | as a property of `Publication` |
| `Export` | one whole run of `app.export` | `MCExport`: `Export.cfg`, `ExportCancelled.cfg` |
| `NativeEvents` | the events adapters hand over, and `usageEvent` | with `Adapters` |
| `ClaudeRecords`, `CodexRecords`, `PiRecords`, `OpenCodeRecords` | each adapter's `map.go` as functions from records to events; `PiRecords` also the tree of `pi/index.go` | with `Adapters` |
| `Reading` | the frame the `Parse` functions share, and the harness that writes | with `Adapters` |
| `LineReaders` | `Parse` and `Probe` of Claude Code, Codex and Pi | with `Adapters` |
| `OpenCodeStores` | `parseLegacy` and `parseSQLite` | with `Adapters` |
| `Discovery` | `Detect` and `Discover` of the four | with `Adapters` |
| `Adapters` | their composition, and what they promise | `MCAdapters`: `Adapters.cfg`, `AdaptersUnknown.cfg` |
| `ArchiveValidation` | `validation.Archive`, and the reports it renders again | with `Archive` |
| `Archive` | what `Builder.Build` stages, zips and checks | `MCArchive`: `Archive.cfg` |
| `Selections` | sorting and filtering, as functions of sets | with `Adapters` and `Archive` |
| `SessionSink_proofs`, `Publication_proofs`, `Export_proofs`, `Archive_proofs` | theorems about these | `tlapm` |
| `Adapters_proofs` | theorems about `Adapters`: what records tell, the snapshot, probes, the walk | `tlapm` |
| `AdapterLines_proofs` | theorems about `Adapters`: Claude Code, Codex and Pi, line by line and through Pi's tree | `tlapm` |
| `AdapterStores_proofs` | theorems about `Adapters`: OpenCode's two layouts, and what all readers promise | `tlapm` |
| `FiniteTheorems` | least counterexamples, sums, sorting and selecting, for the proofs | `tlapm` |

Definitions named `Mut...` are plausible slips of the definition they precede,
kept to show that the properties notice them; no behaviour uses them.

### SessionSink

`sink` is the struct of that name: `spool` (the lines of the file), `indexes`,
`sequence`, `pending`, `nativeIDs`, `startedAt`, `updatedAt`, `matched`, and its
phase for the pair `closed`/`aborted`. `result` is the `FinalizedSession`,
`replay` the local variables of the running `Replay` with what it has emitted.
`Add` is one call of the adapter: the event is dropped by `usageEvent`, joined
to the pending turn, or flushes it and is written. `AddFails`, `FinalizeFails`
and `ReplayFails` are the error returns, with the removal of the spool they do.
`kept` is a history of what `usageEvent` let through.

A message's text is its ordinal, a turn's text the sequence of the ordinals it
joins, so loss, repetition and order can be told from the values; a turn of more
than `ResponseParts` messages is over the byte limit. The two hashes of event
identity are taken to be injective. `usageEvent` clears the native payload, so
the size and JSON-validity branches of `persist` cannot be taken.

### Publication

A step is one system call that other processes can see. `pc` says which call is
next; `files` is the directory. The two publication paths share the actions and
differ by `options[e].mode`: a direct export probes for a name after its bytes
are complete and probes again when the link finds it taken; a ZIP export has one
name, checks it once and gives up. Any call may fail (`IOFails`, `ChmodFails`),
`Cancel` sets the context, `Kill` stops a process with its files as they are,
and another program may create and remove files. Rendering, staging and
validation of the content are one step, since nothing of them can be seen in the
directory before the link.

### Export

One goroutine, so one action per stage of `app.export` and, in the loop, one per
outcome of a session. What adapters answer is nondeterministic input: any set of
sources with any identities, any probe result, any parse result, a source that
changes or not. `SkipSession` may skip any session, which stands for whatever
bounds discovery gave it. `outcome` and `whole` are histories: what became of
each source, and which were read without any loss. The loop takes the sessions
in any order, of which the code's sorted order is one. A spool is a source and an
attempt: `Retry` aborts the first attempt's sink and makes a second one, which may
fail, so a first spool that is left behind can be told from the second.

### Adapters

Every behaviour is one call, of `Parse` for one of five formats or of `Discover`,
and `harness` says which. `store` is what the harness has on disk, `reader` the
local variables of the call with its `ParseResult`, `emitted` the messages
`usageEvent` keeps of the events given to the sink. A step of the reader is a
system call (a stat, an open, a read of the buffered reader, a directory listing)
or a turn of a loop; the harness may write between any two.

A transcript is an inode of lines, so that a file renamed over the path leaves the
open descriptor what it was, and the path and the descriptor can be told apart.
`Contents` says what a file may hold: lines of which at most the last is torn.
The buffered reader (`Fills`) takes one line or all there is. Sizes are three: up
to the probe's limit, up to the record limit, above it. Pi reads every line twice,
`PiIndexesLine` and `PiEmits`, the second time at the offset of the first
(`InPlace`). `Topological` is the heap of `analyzeGraph` as a function: next comes
the first record in the file whose parent has been passed.

The legacy store is one file per session, message and part, each readable,
garbage, too large, unreadable or absent, changed one by one while they are read.
The database changes from one committed version to another; the transaction reads
the version of its first query.

`Discovery` walks bases, the directories below a root. `WalkDir` lists a directory
when it gets there and asks for an entry's Info later; `Glob` has all names first.
`WalkVanished` is where the adapters differ: what was listed and is gone ends
Claude Code's walk of the base in silence, the walks of Codex and Pi with an
error, and costs the legacy layout only the file.

The properties compare with a second account of the histories (`ClaudeSays` to
`DatabaseSays`, `LineUnread` to `DatabaseUnread`, `PiIsTree`) that is written from what
the formats mean, not from the mapping functions.

In that second account two entries of a Pi file are one tree's only if no two have
one identifier; a version 1 entry without any is known by its line, as the
code knows it, and what is called like that line is its twin.

What is assumed of a harness, for lack of its source: a rewrite or a replacement
moves the modification time, an append need not, but always the size; lines of a
rewritten file begin where lines began, or else hold no record; a line being
written is no complete JSON; a legacy message's identifier is its file's name, and
its directory is listed at once. No file is without the directory it is in
(`LegacyStores`), and rows have identifiers of their own, a part that of a message
(`IsDatabase`: they are keys). Of directories: a name is in one once, a path leads
to one place, and the home directory is named last (`IsWalk`), as `Detect` does.

### Archive

`staged` is `stager.entries`: for each entry what the disk holds, and the digest
and size taken while it was written. One action per entry or group of entries in
the order of `stage`; a session is one turn of its loop, with the line in
`sessions.jsonl` and the conversation made from one replay. `Damage` changes a
staged file at any time, before and after the ZIP is made. `ArchiveValidation` is
the acceptance test as a predicate on the reopened ZIP; its digests are the
contents themselves, for SHA-256 is taken to be injective, and so are the reports
what they show. `Publication` has the same `Build` seen from the directory.

`Inputs` may be any records with fields of the right types (`ArchiveAssumption`):
counts may be wrong, IDs repeated, events of another session. `Sorted` puts each
session where as many precede it as in `sort.SliceStable`. `SoundInput` is the
reference for what adds up; that sequences are not negative is part of it, for the
validation starts from `lastSequence = -1` (jsonl.go:80, 105), and without it
`SoundInputPasses` is false.

### How they meet

The modules meet at narrow points: `Export`'s step from `BeginSession` to
`SessionFails` or `SessionEnds` is a run of `SessionSink`; its `Publish` is a
run of `Publication` from `select` on, whose `Gather` in turn is `Export`'s loop.
A source of `Export` is an entry `Discovery` found, its identity what `Probe`
answers, and its parse result what `Adapters` ends with: `Export` allows any. The
messages of `emitted` are what `SessionSink` adds, and its replays are the events
in the sessions of `Archive`, whose steps are `Publication`'s `Write`.

## 3. What the runs check

| Run | Instance | Question and answer |
| --- | --- | --- |
| `SessionSink` | 3 records with one native ID or none, times before, in and after a one-point range or none, discovery's bounds missing, before, around, in and after it, both scopes, 2 replays | The spool and the index stay aligned (`SpoolAligned`), turns are the kept messages in order and joined maximally (`KeptInOrder`), event IDs are unique, the span is that of the lines, candidate bounds decide only for sessions without timestamps, a replay emits what the record counts, and a session that says "complete" is whole. |
| `SessionSinkRefines` | 4 records without native IDs, 2 replays | It implements `Transcript`; a failed replay is final; replays end. |
| `SessionSinkRange` | 3 records | *Violated*: finding 1. |
| `Publication` | 2 exporters, one name, all formats, both `--keep-temp`, 2 candidate names, one file created and one removed by others | No torn output even after a kill, success means the file is there, nothing is left behind, and a direct export never fails for want of a name while names are left. |
| `PublicationRefines` | one exporter asks for what is the other's second candidate, 3 candidates | It implements `OutputDirectory`; every exporter that is not killed exits. |
| `PublicationSuffix` | 2 exporters of ZIPs that want one name; no other program | *Violated*: finding 2. |
| `PublicationRemoval` | as `Publication` | *Violated*: finding 3. |
| `Export` | 3 sources over 3 files, one native ID or none, sizes 1 and 2, total limit 3, plain/`--keep-temp`/`--strict`/preview runs | No loss is silent, nothing is exported twice, the limit holds, no spool survives that should not, of either attempt, and the run ends though a source may change in every attempt (`RunEnds`). |
| `ExportCancelled` | 2 sources | *Violated*: finding 4. |
| `Adapters` | every shape of record on its own; files of up to 4 lines and Pi trees of 3 entries with duplicate, missing, cyclic and unnamed parents; 2 legacy messages of 2 parts; databases of 2 messages and 3 parts; 2 bases reached by several paths; up to 2 writes of the harness | What `Parse` reports unchanged is what was there at its start (`UnchangedIsSnapshot`), and all of it is told (`ConversationWhole`) or, where it could not be read, marked (`UnreadIsMarked`, in both directions). Pi's order follows descent, and its active path is one. Legacy parts that were left alone are told whatever happens to their neighbours. Event positions are distinct. Walks find what stayed. An identity survives appends. |
| `AdaptersUnknown` | a Claude Code transcript with a user's message and a record of another type | *Violated*: finding 5. |
| `Archive` | up to 2 sessions of up to 2 events, sound or with wrong counts, order, identities, types or owners; errors; degraded and warning adapters; combined file with no limit, with one that single conversations reach, and with 0, for a default that the estimate of two conversations stays within and their size does not; 1 damaged file | With no fault, `Build` fails exactly on sessions that do not add up (`SoundInputPasses`, `OnlySoundPublished`). A published archive tells every message of every session in both forms, whatever was damaged on the way. Strict mode publishes only the whole. The combined file is there exactly when asked for and estimated within its limit, and is over it by no more than 14 bytes a conversation (`CombinedNearLimit`). |

**Bounds.** Three records are enough for a joined turn followed by a flush, for a
repeated native ID, and for a turn on each side of the range, four for a joined
turn between two user messages; two replays for a replay after one that failed or
was cut short. Two exporters race for every name; the second index and the
outsider make a third party. Three sources allow a duplicate by file and another
by native ID that chain, one inside and one over the limit; `EachHistory` has one
history of each pattern of equal files and IDs, which are only compared.
`DefaultCombinedMarkdownLimit` is 188 bytes for the code's 25 MiB, between the
estimate and the size of two short conversations. Every bound is a constant named
in its module (`MaxRecords`, `MaxReplays`, `MaxIndex`, `MaxCreations`,
`MaxRemovals`, `MaxSources`). Symmetry is used only in runs without temporal
properties, over values that are only compared. In `Adapters`, two writes suffice
for a file that is changed and changed back, or torn and completed, on either side
of any call; records on their own see none, for they are there to be mapped;
`ProbeLines` is 2 for the code's 64. One damaged file in `Archive` (`MaxDamages`)
can be the checksum report itself, of which a line is lost, or anything it names.
Deadlock checking is off where the program really stops: a session that is closed,
processes that exited, a run, a call or a build that ended.

**Fairness.** `hce` is one goroutine per process, and the code has no blocking
wait of its own, so a process that can take its next step eventually does. That
is all the fairness assumed: weak fairness of the replay loop (`SessionSink`), of
each exporter's own calls (`Publication`) and of the run (`Export`). Errors,
cancellation, kills and other programs are never fair, except that a cancelled
replay goes on to its error return and that `Chmod` of a file that is gone fails.

### Findings

1. `OnlyMessagesInRange`. README.md:62-63 promises that the default export
   "includes only messages inside that range". `mergeAssistant` (sink.go:234)
   dates a joined turn by its last message, so text from before the range is
   exported with it, and text inside the range is lost with a turn that ends
   after it.
2. `SecondExportGetsSuffix`. README.md:96-97 promises a second export a suffix.
   A ZIP export that loses the race between choosing its name (app.go:403) and
   linking it (archive.go:111) exits 6.
3. `RemovesOnlyItsOwn`. archive.go:118-119 says the file removed after a failed
   Chmod is necessarily the one just linked. Another program may have replaced
   it between the calls.
4. `CancelledExits8`. README.md:174-175 gives 8 for cancellation. A run that is
   cancelled while it reads its last session continues past the loop
   (app.go:349-353) and exits 4 if it has nothing else, 7 under `--strict`.
5. `UnknownIsReported`. README.md:133-135 says "unknown records are excluded from
   usage transcripts and coverage warnings are reported instead of being guessed."
   They are excluded; nothing is reported. A record of a type that Claude Code's
   `mapRecord` does not know becomes an `EventUnknown` (claude/map.go:97), which
   `usageEvent` drops, and `Parse` ends neither partial nor with a warning, so
   `--strict` accepts it. Restricted to their histories the property is violated in
   the same way for Codex (codex/map.go:114-117, 156-158), Pi (pi/map.go:118-120,
   177-179) and OpenCode's database, where a message whose data does not decode has
   no role (opencode/map.go:54) and its parts' text is not shown.

## 4. What is proved

For every value of the constants, under the assumptions each module names. Of the
40 properties of the runs that pass, 37 are theorems: all but the three that say
something ends. A property is seldom inductive as it stands; for each, what had to
be added to it is said here.

**The session pipeline**, under `SinkAssumption`.

* `TypeCorrect`; `SpoolStaysAligned`, by adding that nothing is pending once the
  sink is closed and that the selection has the length of the index;
  `EventIDsStayUnique`, by bounding the positions of all lines and of the pending
  message by the records read, and tying `nativeIDs` to the IDs of the lines.
* `MessagesStayInOrder`. `KeptInOrder` says that turns are joined maximally, but
  not why: `Speaking` adds that only an assistant's message is ever pending and
  that the line before it is a user's. `Recording` also needs the converse of
  loss, that every message is in some turn (`AllTold`).
* `SpanIsOfSpool` and `MatchIsDecidedByLines`, by `Summed` (the span and the match
  are those of the lines written) and `Decided` (the result's counts are those of
  its selection, frozen when the session was finalized).
* `FailedReplayStaysFinal`, by `Lifetimes`: who is open, ready, running or failed
  together with whom, the guards of `Replay` and `Close` taken together.
* `ReplayKeepsCounts` and `CompleteSessionsAreWhole`, by `Progress`: what a running
  replay has emitted is the selected lines before `index`, each once, and of each
  kind as many. The count at the end is the count in the record only because both
  are of the same lines; `Emits` is that relation, kept a step at a time.
* `SinkImplementsTranscript`: Init and every step map to `Transcript`, with the
  spool and the pending message as its turns, and `TranscriptInv` (all of the
  above) for the steps whose guard the abstract module states about turns.

**Publication**, under `PublicationAssumption`, for any number of exporters.

* `TypeCorrect`; `OutputIsWhole` (an exporter past `write` has its bytes complete,
  and only such exporters own names); `SuccessStaysThere` (an exporter from `chmod`
  on owns its target as long as nobody else removes files).
* `NothingStaysBehind`, by `Leaves`: an exporter's file is under its target alone,
  and there only from its link on; what is still there when it has exited was
  asked for.
* `DirectAlwaysFindsName`. The property counts, so the invariant must say what is
  counted: `Met`, that there is a set of names, no larger than the number of files
  made by others, which with the names that others linked holds every candidate
  that was tried. That set is a witness nobody stores. The bound is then by
  pigeonhole over the candidates, which are distinct.
* `PublicationImplementsDirectory`, assuming `MaxRemovals = 0`: Init and every step
  map to `OutputDirectory` under the mapping `Stage`.

**The run**, under `ExportAssumption`.

* `TypeCorrect`, with the position of the loop (what is left, what is finalized and
  what is being read are apart); `SessionsAreExportedOnce`, from two lemmas about
  `FirstOfEach`.
* `NoLossIsSilent`. Its invariant `Losses` follows each source: while there is no
  warning, what left the list is a duplicate of something in it, what is waiting
  was probed without loss, and what was read is accounted for. `LossReported` alone
  only speaks of the moment of success.
* `WorkspaceHoldsSelection`, by `SpoolsKept`, the spools at every phase: of each session
  in the selection one, of whichever attempt.
* `TotalStaysInLimit`, by `Selected`: the bytes used are the sum of the sizes of
  what was finalized. `FiniteTheorems` has the facts about sums over a finite set, of
  which the definition is a fold; each is proved from a least counterexample,
  since induction over data is beyond the provers.

**The archive**, under `ArchiveAssumption`.

* `StrictArchivesAreWhole`, by `Strictness`: from `combined` on, the manifest's
  `incomplete` is what the input makes it, and nothing passes `CheckStrict` with it.
* `StagingIsTyped`. `TypeOK` says where each step finds its entries; `Layout` adds
  that `lines` is a block for each session recorded, its header and its events in
  order, and `Entries` that each file has a disk, a digest and a size.
* `SoundIsWhatIsPublished` and `WhatIsPublishedTellsInput`, by `Contents`: the
  digest of each entry is of what was written, and no file on disk or in the ZIP
  that a digest vouches for differs from it (`Faithful`). A file may be damaged
  between any two steps; the checksum report, which vouches for the others and for
  which nothing vouches, may lose lines but cannot gain them. From there the
  validation, which has only the ZIP, comes to the input.
* `CombinedFileIsNearLimit`, by `Measured`: what each conversation was measured
  to be while it was written is its length, and the combined file has each once. The
  estimate counts 32 bytes and the path for the line above a conversation, the file
  has 46 and the path; so what is proved is not that the file keeps the limit, but by
  how much it may be over: 14 bytes a conversation.
* `SoundPassesWithoutFault`, by `Described` (the manifest and the reports at each
  step are what validation will make of them) and `Faultless`. This is the longest
  proof: every conjunct of the acceptance test is derived from staging.

**The adapters**, under `ReadingAssumption`, `RecordsAssumption`, `StoresAssumption`
and `DiscoveryAssumption`: records have fields of the right types, and histories
and directories are what the last paragraph on `Adapters` in section 2 says.

* `UnchangedFilesAreSnapshots`, for Claude Code, Codex and Pi, by `LineInv`: neither
  the size nor the time of what the path names goes back, and every write moves one
  of them (`WritesMoveStat`); so while `Stat` is that of the first call nothing was
  written, the descriptor is of the file the path names, and what was read and what
  is buffered are a beginning of it. It rests on what is assumed of a harness: that
  a rewrite moves the time and an append the size.
* `ProbesKeepTheirIdentity`: the lines a scan has behind it tell the same after an
  append, and a line that is completed told nothing before. For any `ProbeLines`.
* `WalkFindsAll`, by `WalkInv`: what stood since the start is in the store
  (`Stands`), found if its base is behind the walk, and found or still ahead in the
  base the walk is in; for the second half, that no base is walked twice
  (`OnceOnly`). `Detect` is the hard part: that the bases left after dropping
  duplicates are those the candidates lead to, for any list of candidates.
* `LegacyTellsWhatStood`, by `LegacyTold`: what is owed is told or ahead, and what is
  told precedes, in the order of names, all that is ahead.
* `PiOrdersEntries` and `PiActivePathIsAncestry`, by `PiStage`: the index is that of
  the lines read (`PiIndex`), and what was passed on with what is left is
  `Pi!Order`. The rest is about the graph algorithms, for any records, with
  duplicates, gaps and cycles: what was popped from the heap has every entry once
  and none before its parent (`Popped`), and a step that pops nothing is the last.
  So the loop that runs as often as there are records ends with all that descends
  from a root, and the comparison of what the code calls rooted with what the
  property does is between two closures of one relation.
* `ConversationsAreWhole`, `UnreadPartsAreMarked`, `PositionsAreDistinct` and
  `AdaptersTypeOK` are about all five formats. First, for each format, a comparison of
  the mapping with the second account of it: `ClaudeSays` to `DatabaseSays` against
  `Voices` of the events the records map to, record by record. Then an invariant of
  the loop. Claude Code and Codex: what was emitted is what the lines read so far tell,
  and `partial` says whether one of them could not be read (`LineResult`, `LinesTold`). Pi: the
  same of the second pass, as long as the file is by its status what it was
  (`PiEmitted`, `Certain`), and `PiLossStage` for the losses, of which the index, the
  analysis and the second pass each find some; that the analysis finds a
  file irregular exactly when its entries make no tree (`PiIsTree`) is a theorem
  about two different recursions. The legacy layout and the database: what was said and
  what the files or rows ahead will say are together the whole (`LegacyWhole`,
  `RowsToTell`).

Some definitions were written so that they can be reasoned about. Sorting and
filtering in the models is by rank (`Selections`), since the library's operators take
an operator as a parameter; `FiniteTheorems` shows that `Arranged` lists a set in its
order and `At` a selection in its own. Recursive functions are unfolded a step at a
time (`Iterates`), and what every step keeps is carried to the last by `Upward`, from
a least counterexample: the library's induction theorems are out of reach.

What stays with TLC is liveness under fairness (`ReplayTerminates`, `ExporterEnds`,
`RunEnds`), which is beyond this prover.

The assumptions are on constants, evaluated by TLC in every run of the module, and
the abstractions of section 2: that the hashes in event IDs and the digests are
injective is in the models, not in the theorems.

## 5. What is not modelled, and what the models leave open

* Of the adapters: the queries of `discoverSQLite` and `probeSQLite`, and
  `probeLegacy`, which read one row or file each; whether a file is a database;
  timestamps, metadata, branch identifiers and labels, which do
  not reach the exported messages; identifiers a legacy file declares other than by
  its name. SQLite's isolation is the engine's business.
* Truncation and the JSON limits (byte arithmetic on one string), the command line
  (parsing), rendering, wording, diagnostics, `inspect`: no state, and no property
  here about them. Path syntax and identifier syntax in the validation.
* Power loss with a damaged file system; `Kill` keeps what was written.
* Removing a file that was just made, and reading the size of a spool that was
  just written, are taken to succeed.

Where the properties of `Adapters` stop, because the code does:

* A file that is gone at the second stat cannot be compared and passes for
  unchanged (`seen.stood` in `UnchangedIsSnapshot`).
* The legacy store's message and part files are never looked at again, so
  `StoodIsTold` speaks only of those left alone.
* A walk of Claude Code in which something vanishes loses the rest of its base
  (`WalkComplete`); Claude Code and Codex walk a root twice that two paths lead to,
  and leave it to `Export` to drop the second.
* What was read and not understood is not told and not reported (finding 5).
  `UnreadIsMarked` and its theorem therefore speak of what could not be read alone:
  lines too large, torn or no record of the format, entries that make no tree, files
  and rows that are missing or do not decode.
* A subagent of Claude Code whose records name its parent's session has that
  identity, and is one session with it to the second deduplication.

## 6. Plan

Done: all modules of section 2 with their runs, and the proofs of section 4: every
safety property a run checks is a theorem. Next, in order:

1. Truncation: rune-safe head and tail at the edges of the budget.
2. The queries of `discoverSQLite` and `probeSQLite`, and `probeLegacy`.
