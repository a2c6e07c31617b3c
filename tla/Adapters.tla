-------------------------------- MODULE Adapters ------------------------------
(***************************************************************************)
(* The four adapters reading the histories of programs that go on writing: *)
(* Parse of one session, for each format, and Discover of one directory.   *)
(* Every behaviour is one call; the harness writes between any two of its  *)
(* system calls.                                                           *)
(***************************************************************************)
EXTENDS LineReaders, OpenCodeStores, Discovery

\* The local variables at the head of Parse and Discover.
NoBody == [valid |-> FALSE, role |-> "", failed |-> FALSE]

With(result, locals) ==
  [name \in DOMAIN result \cup DOMAIN locals |->
     IF name \in DOMAIN locals THEN locals[name] ELSE result[name]]

Start(h) ==
  With(NoResult,
  CASE h \in LineHarnesses ->
         [pc |-> "stat", before |-> [size |-> 0, mtime |-> 0], fd |-> 0, position |-> 0,
          buffer |-> <<>>, commands |-> {}, index |-> Pi!NoIndex, order |-> <<>>, active |-> {}]
    [] h = "legacy" ->
         [pc |-> "stat", before |-> 0, messages |-> <<>>, body |-> NoBody, parts |-> <<>>, index |-> 1]
    [] h = "sqlite" ->
         [pc |-> "begin", rows |-> <<>>, message |-> 0, count |-> 0, index |-> 1]
    [] h = "walk" ->
         [pc |-> "detect", roots |-> <<>>, base |-> 1, directories |-> <<>>, names |-> <<>>, found |-> <<>>])

Init ==
  /\ harness \in Harnesses
  /\ \E b \in Beginnings[harness] : store = b.store /\ writes = b.writes
  /\ reader = Start(harness)
  /\ emitted = <<>>
  /\ seen = [before |-> IF harness = "walk" THEN store.bases ELSE <<>>,
             lines |-> <<>>, passed |-> <<>>, touched |-> {}, stood |-> TRUE]
  /\ cancelled = FALSE

Parses ==
  \/ StatsBefore \/ Opens \/ FindsNothing \/ Fills \/ StatsAfter
  \/ ClaudeReadsLine \/ CodexReadsLine \/ EndOfFile
  \/ PiIndexesLine \/ PiAnalyzes \/ PiEmits \/ PiEnds
  \/ LegacyStats \/ LegacyReadsSession \/ LegacyListsMessages
  \/ LegacyReadsMessage \/ LegacyListsParts \/ LegacyReadsPart \/ LegacyStatsAfter
  \/ SQLiteBegins \/ SQLiteReadsSession \/ SQLiteReadsRow \/ SQLiteEnds

Discovers == WalkDetects \/ WalkOpensBase \/ WalkEntersDirectory \/ WalkVisits \/ WalkEndsBase

Fails == SinkRefuses \/ ReadFails \/ NoticesCancel \/ WalkFails

Harness ==
  \/ HarnessAppends \/ HarnessCompletes \/ HarnessRewrites \/ HarnessReplaces \/ HarnessRemoves
  \/ LegacyHarnessWrites \/ SQLiteHarnessCommits
  \/ WalkHarnessCreates \/ WalkHarnessRemoves

Next == Parses \/ Discovers \/ Fails \/ Harness \/ Cancel

Spec == Init /\ [][Next]_vars

-----------------------------------------------------------------------------
(* What is in a history: for every record the message in it, if there is one *)

\* A harness's reasoning, by the names that the formats have for it.
Thoughts == {"reasoning", "thinking", "redacted_thinking"}

Shown(parts, hidden) ==
  LET shown == At(parts, {i \in DOMAIN parts :
                 /\ parts[i].type \notin hidden
                 /\ parts[i].type \in {"image", "audio"} \/ parts[i].text = "words"})
  IN [i \in DOMAIN shown |-> IF shown[i].type \in {"image", "audio"} THEN shown[i].type ELSE "words"]

Says(speaker, pos, parts) ==
  IF speaker \in {"user", "assistant"} /\ parts # <<>>
  THEN <<[speaker |-> speaker, pos |-> pos, parts |-> parts]>> ELSE <<>>

ClaudeSays(record, line) ==
  IF /\ record.type \in {"user", "assistant", "system"} /\ record.subtype # "compact_boundary"
     /\ record.form \in {"string", "parts"}
  THEN Says(IF record.role = "" THEN record.type ELSE record.role, line,
            Shown(record.parts, Claude!Structured \cup Thoughts))
  ELSE <<>>

CodexSays(record, line) ==
  IF record.type = "response_item" /\ record.valid /\ record.item \in {"message", "agent_message"}
  THEN Says(IF record.item = "message" THEN record.role ELSE "assistant", line,
            Shown(record.parts, Thoughts))
  ELSE <<>>

PiSays(entry, line) ==
  IF entry.type = "message" /\ entry.valid /\ entry.form # "object"
  THEN Says(entry.role, line,
            Shown(entry.parts, Thoughts \cup IF entry.role = "assistant" THEN {"toolCall", "bashCall"} ELSE {}))
  ELSE <<>>

\* A Pi file whose header nobody understands tells nothing.
PiVersion(lines) ==
  IF lines # <<>> /\ lines[1].form = "record" /\ ~TooLarge(lines[1]) /\ lines[1].rec.type = "session"
  THEN IF lines[1].rec.version = 0 THEN 1 ELSE lines[1].rec.version
  ELSE 0

LineSays(h, lines, i) ==
  IF lines[i].form # "record" \/ TooLarge(lines[i]) THEN <<>>
  ELSE CASE h = "claude" -> ClaudeSays(lines[i].rec, i)
         [] h = "codex"  -> CodexSays(lines[i].rec, i)
         [] h = "pi"     -> IF PiVersion(lines) \in 1..3 THEN PiSays(lines[i].rec, i) ELSE <<>>

\* In a database: message by message, part by part.
PartsSay(message, parts) ==
  FlattenSeq([i \in DOMAIN parts |->
    IF message.valid /\ parts[i].valid /\ parts[i].type = "text" /\ parts[i].text = "words"
       /\ message.role \in {"user", "assistant"}
    THEN <<[speaker |-> message.role, parts |-> <<"words">>]>> ELSE <<>>])

LegacySays(files) ==
  LET told == Ascending({name \in Names : files.messages[name].form = "record" /\ name \in files.dirs})
      partsOf(name) == Ascending({p \in Names : files.parts[name][p].form = "record"})
  IN IF files.session.form # "record" \/ ~files.there THEN <<>> ELSE
     FlattenSeq([i \in DOMAIN told |->
       PartsSay(files.messages[told[i]].rec,
                [j \in DOMAIN partsOf(told[i]) |-> files.parts[told[i]][partsOf(told[i])[j]].rec])])

ByTime(rows) ==
  Arranged(rows, [s \in rows |-> {r \in rows : r.time < s.time \/ (r.time = s.time /\ r.id < s.id)}])

DatabaseSays(database) ==
  LET messages == ByTime(database.messages)
      partsOf(m) == ByTime({p \in database.parts : p.of = m.id})
  IN IF database.schema # "full" THEN <<>>
     ELSE FlattenSeq([i \in DOMAIN messages |->
            PartsSay(messages[i].rec, [j \in DOMAIN partsOf(messages[i]) |-> partsOf(messages[i])[j].rec])])

Spoken == [i \in DOMAIN emitted |-> [speaker |-> emitted[i].speaker, parts |-> emitted[i].parts]]

-----------------------------------------------------------------------------
(* What can be missing from a history: what could not be read *)

\* The entries of a Pi session make one tree: no two have one identifier, and
\* each but one leads up to a root.  A version 1 session has no parents, and an
\* entry without an identifier is known by its line.
PiIsTree(lines) ==
  LET entries == 2..Len(lines)
      linear == PiVersion(lines) = 1
      id(i) == IF linear /\ lines[i].rec.id = "" THEN Pi!LineID(i) ELSE lines[i].rec.id
      parents(i) == {j \in entries : id(j) = lines[i].rec.parent}
      above[n \in 0..Len(lines)] ==
        IF n = 0 THEN {i \in entries : lines[i].rec.parent = ""}
        ELSE above[n - 1] \cup {i \in entries : parents(i) \cap above[n - 1] # {}}
  IN /\ \A i \in entries : id(i) # "" /\ \A j \in entries \ {i} : id(i) # id(j)
     /\ ~linear => above[Len(lines)] = entries /\ Cardinality(above[0]) <= 1

\* A line with no record of its format in it.
LineUnread(h, line) ==
  \/ TooLarge(line)
  \/ line.form \in {"garbage", "torn"}
  \/ h = "pi" /\ line.form = "blank"
  \/ /\ line.form = "record"
     /\ \/ line.rec.type = ""
        \/ /\ h = "claude" /\ line.rec.type \in {"user", "assistant", "system"}
           /\ line.rec.subtype # "compact_boundary" /\ line.rec.form = "invalid"
        \/ /\ h = "codex" /\ ~line.rec.valid
           /\ line.rec.type \in {"session_meta", "turn_context", "response_item", "event_msg"}

\* An entry of an unknown version is not looked into.
PiUnread(lines) ==
  \/ PiVersion(lines) \notin 1..3
  \/ \E i \in DOMAIN lines : LineUnread("pi", lines[i])
  \/ \E i \in DOMAIN lines : lines[i].rec.type = "message" /\ ~lines[i].rec.valid
  \/ ~PiIsTree(lines)

\* In a database a part of an unknown type counts as one that cannot be read.
LegacyUnread(files) ==
  \/ files.session.form # "record" \/ ~files.there
  \/ \E name \in Listed(files.messages) :
       \/ files.messages[name].form # "record"
       \/ name \notin files.dirs \/ Listed(files.parts[name]) = {}
       \/ \E p \in Listed(files.parts[name]) :
            files.parts[name][p].form # "record" \/ OpenCode!PartWarned(files.parts[name][p].rec)

DatabaseUnread(database) ==
  \/ database.schema # "full"
  \/ \E m \in database.messages : \A p \in database.parts : p.of # m.id
  \/ \E p \in database.parts : OpenCode!PartWarned(p.rec)

\* What was read and not understood: a record of a type the adapter does not
\* know, a message whose content is nothing it can decode.
LineUnknown(h, line) ==
  /\ line.form = "record" /\ ~TooLarge(line)
  /\ \/ line.rec.type = "other" /\ (h = "claude" => line.rec.subtype # "compact_boundary")
     \/ h = "claude" /\ line.rec.type \in {"user", "assistant"} /\ line.rec.form = "object"
     \/ h = "codex" /\ line.rec.type = "response_item" /\ line.rec.valid /\ line.rec.item = "other"
     \/ /\ h = "pi" /\ line.rec.type = "message" /\ line.rec.valid
        /\ line.rec.role = "other" \/ line.rec.form = "object"

-----------------------------------------------------------------------------

Done == ~Running
Returned == Done /\ reader.error = "none"

\* Nothing the adapter could have noticed happened to what it read, and, as an
\* adapter notices nothing of a file that is gone, it is still there.
Undisturbed ==
  /\ Returned /\ ~reader.changed
  /\ harness \in LineHarnesses => seen.stood
  /\ harness = "legacy" => seen.touched = {}

\* Types: above all, what usageEvent lets through is a user's or an assistant's
\* message with nothing in it but words and placeholders.
TypeOK ==
  /\ harness \in Harnesses
  /\ reader.partial \in BOOLEAN /\ reader.changed \in BOOLEAN
  /\ reader.malformed \in Nat
  /\ reader.error \in Errors
  /\ emitted \in Seq(Messages)
  /\ cancelled \in BOOLEAN
  /\ writes \in Nat

\* A file that did not change, by all Parse can see of it, was read as it stood
\* when Parse began: what the harness appended, rewrote or put in its place
\* meanwhile has not slipped in unnoticed (the two os.Stat of every Parse).
UnchangedIsSnapshot ==
  harness \in LineHarnesses /\ Returned /\ ~reader.changed /\ seen.stood => seen.lines = seen.before

\* Of an undisturbed history every message comes out once, in order, with all
\* that may be shown of it and nothing else: no reasoning, no tool's output, no
\* lifecycle copy of a message, none lost behind a line that cannot be read.
\* The database is never disturbed: its transaction shows one version of it.
ConversationWhole ==
  Undisturbed =>
    CASE harness \in {"claude", "codex"} ->
           emitted = FlattenSeq([i \in DOMAIN seen.before |-> LineSays(harness, seen.before, i)])
      [] harness = "pi" ->
           emitted = FlattenSeq([i \in DOMAIN seen.passed |->
                                   LineSays("pi", seen.before, seen.passed[i])])
      [] harness = "legacy" -> Spoken = LegacySays(store)
      [] harness = "sqlite" -> Spoken = DatabaseSays(seen.before)
      [] harness = "walk"   -> TRUE

\* The result is partial, which brings a coverage warning and is what --strict
\* relies on, exactly when something of the history could not be read: a line
\* that is too large, torn or no record of the format, entries that make no tree,
\* files and rows that are missing or do not decode.  It says nothing of what was
\* read and not understood: of that, only OpenCode's parts are ever reported.
UnreadIsMarked ==
  Undisturbed =>
    CASE harness \in {"claude", "codex"} ->
           reader.partial <=> \E i \in DOMAIN seen.before : LineUnread(harness, seen.before[i])
      [] harness = "pi"     -> reader.partial <=> PiUnread(seen.before)
      [] harness = "legacy" -> reader.partial <=> LegacyUnread(store)
      [] harness = "sqlite" -> reader.partial <=> DatabaseUnread(seen.before)
      [] harness = "walk"   -> TRUE

\* README.md:133-135: "unknown records are excluded from usage transcripts and
\* coverage warnings are reported instead of being guessed."  A result with such
\* a warning is partial.
UnknownIsReported ==
  Undisturbed =>
    CASE harness \in LineHarnesses ->
           (\E i \in DOMAIN seen.before : LineUnknown(harness, seen.before[i])) => reader.partial
      [] harness = "sqlite" -> (\E m \in seen.before.messages : ~m.rec.valid) => reader.partial
      [] OTHER -> TRUE

\* Pi: every indexed record is passed on once, the header first; an entry that
\* descends from a root never before its parent; and a file whose parents come
\* before their children keeps its own order (analyzeGraph).
EntriesOrdered ==
  LET records == reader.index.records
      place(i) == CHOOSE n \in DOMAIN seen.passed : seen.passed[n] = i
      tree == {i \in DOMAIN records : records[i].id # ""}
      first(i) == \A j \in tree : records[j].id = records[i].id => i <= j
      parents(i) == {j \in tree : first(j) /\ records[j].id = records[i].parent}
      rooted[n \in 0..Len(records)] ==
        IF n = 0 THEN {i \in tree : parents(i) = {}}
        ELSE rooted[n - 1] \cup {i \in tree : parents(i) \subseteq rooted[n - 1]}
  IN harness = "pi" /\ Returned =>
       /\ Len(seen.passed) = Len(records) /\ ToSet(seen.passed) = DOMAIN records
       /\ \A i \in rooted[Len(records)] : first(i) => \A j \in parents(i) : place(j) < place(i)
       /\ (\A i \in tree : \A j \in parents(i) : j < i) => \A i \in DOMAIN records : place(i) = i

\* Pi: a known active path is one line of descent, from a root to the leaf the
\* header names or, if it names none, to the last entry (activePath).
ActivePathIsAncestry ==
  harness = "pi" /\ Returned /\ reader.active # {} =>
    LET records == reader.index.records
        tree == {i \in DOMAIN records : records[i].id # ""}
        first(i) == \A j \in tree : records[j].id = records[i].id => i <= j
        follows(i) == {j \in reader.active : records[j].parent = records[i].id}
        leaves == {i \in reader.active : follows(i) = {}}
    IN /\ \A i \in reader.active : first(i) /\ i \in tree
       /\ \A i \in reader.active : Cardinality(follows(i)) <= 1
       /\ Cardinality({i \in reader.active : records[i].parent = ""}) = 1
       /\ \A i \in reader.active : records[i].parent # "" =>
            \E j \in reader.active : records[j].id = records[i].parent
       /\ \A i \in leaves : IF reader.index.leaf # "" THEN records[i].id = reader.index.leaf
                            ELSE \A j \in tree : first(j) => j <= i

\* Legacy OpenCode notices no change to its messages and parts.  Still, what was
\* left alone while they were read is told, in order and once, whatever became
\* of the files around it.
StoodIsTold ==
  LET alone(path) == path \notin seen.touched
      told == seen.lines
  IN harness = "legacy" /\ Returned /\ store.session.form = "record" /\ alone(<<>>) =>
       /\ \A name, part \in Names :
            /\ alone(<<name>>) /\ store.messages[name].form = "record"
            /\ alone(<<name, part>>) /\ store.parts[name][part].form = "record"
            => <<name, part>> \in ToSet(told)
       /\ \A i, j \in DOMAIN told : i < j /\ Len(told[i]) = 2 /\ Len(told[j]) = 2 =>
            Earlier(told[i], told[j])

\* The pipeline derives an event's identity from its position: no two messages
\* of a session have one, at no moment of any Parse.
PositionsDistinct ==
  \A i, j \in DOMAIN emitted : i # j => emitted[i].pos # emitted[j].pos

\* A Discover that returns no error has found every transcript that was there
\* all along, in any place a candidate leads to, and none twice.  Two limits of
\* the code: Claude Code's gives up the rest of a base in silence when something
\* in it vanishes under the walk, so for it nothing may have; and Claude Code and
\* Codex walk a root twice that two paths lead to, which export has to sort out.
WalkComplete ==
  LET leading == {c \in ToSet(store.candidates) : ~(c.default /\ c.link)}
      aliased == \E c, d \in leading : c.path # d.path /\ ToSet(c.bases) \cap ToSet(d.bases) # {}
      path(base, e) == <<base, <<e.directory, e.name>>>>
  IN harness = "walk" /\ Returned =>
       /\ (store.style \in {"claude", "codex"} => ~aliased) =>
            \A i, j \in DOMAIN reader.found : i # j => reader.found[i] # reader.found[j]
       /\ (store.style = "claude" => seen.touched = {}) =>
            \A base \in UNION {ToSet(c.bases) : c \in leading} : \A e \in store.bases[base] :
              /\ e.kind = "transcript" /\ e \in seen.before[base]
              /\ path(base, e) \notin seen.touched
              => path(base, e) \in ToSet(reader.found)

\* A session keeps the identity its probe found while its file only grows:
\* sessions are told apart by it before and after they are read.
ProbeIdentityStable ==
  [][HarnessAppends \/ HarnessCompletes =>
       LET before == Probe(Inode(store.path).lines)
           after == Probe(Inode(store.path).lines)'
       IN before.supported => after = before]_vars

=============================================================================
