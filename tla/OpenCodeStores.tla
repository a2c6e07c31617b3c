----------------------------- MODULE OpenCodeStores ---------------------------
(***************************************************************************)
(* Parse of the OpenCode adapter, for its two generations of storage.      *)
(*                                                                         *)
(* The legacy layout keeps one file for the session, for every message and *)
(* for every part; its store is [session, there, messages, dirs, parts]:   *)
(* the session file with its stamp (what stat returns of it), whether the  *)
(* message directory exists, the message files, the messages that have a   *)
(* part directory and the part files.  Names are numbers, in the order of  *)
(* sort.Strings; a message's id is its file's name.  A file is [form, rec]:*)
(* "record", "garbage", "large" (over the record limit), "denied" (it      *)
(* cannot be read) or "absent".                                            *)
(*                                                                         *)
(* The SQLite store is a database [schema, messages, parts]: schema "full",*)
(* "partless" (no part table, or none that names its message) or           *)
(* "sessionless"; rows [id, time, rec] of the session and, for parts, with *)
(* the message they belong to.                                             *)
(***************************************************************************)
EXTENDS Reading, FiniteSets

CONSTANTS
  Names,                    \* the names of the files in a directory of the legacy layout
  MessageFiles, PartFiles,  \* the files a harness may leave there
  Databases                 \* the versions of the database it may commit

OpenCode == INSTANCE OpenCodeRecords

FileOf(records) == [form : {"record", "garbage", "large", "denied", "absent"}, rec : records]

\* No file without the directory it is in.
LegacyStores ==
  {files \in [session : [form : {"record", "garbage", "large", "denied", "absent"}, stamp : Nat],
              there : BOOLEAN,
              messages : [Names -> FileOf(OpenCode!MessageRecords)],
              dirs : SUBSET Names,
              parts : [Names -> [Names -> FileOf(OpenCode!PartRecords)]]] :
     \A name \in Names :
       /\ files.messages[name].form # "absent" => files.there
       /\ \A part \in Names : files.parts[name][part].form # "absent" => name \in files.dirs}

\* The rows of one session; identifiers are keys, and 0 is none.
IsDatabase(database) ==
  /\ database.schema \in {"full", "partless", "sessionless"}
  /\ IsFiniteSet(database.messages) /\ IsFiniteSet(database.parts)
  /\ \A m \in database.messages :
       /\ m.id \in Nat \ {0} /\ m.time \in Nat /\ m.rec \in OpenCode!MessageRecords
       /\ \A n \in database.messages : m.id = n.id => m = n
  /\ \A p \in database.parts :
       /\ p.id \in Nat \ {0} /\ p.time \in Nat /\ p.rec \in OpenCode!PartRecords
       /\ \A q \in database.parts : p.id = q.id => p = q
       /\ \E m \in database.messages : p.of = m.id

ASSUME StoresAssumption ==
  /\ IsFiniteSet(Names) /\ Names \subseteq Nat
  /\ MessageFiles \subseteq FileOf(OpenCode!MessageRecords)
  /\ PartFiles \subseteq FileOf(OpenCode!PartRecords)
  /\ \A b \in Beginnings["legacy"] : b.store \in LegacyStores
  /\ \A database \in Databases : IsDatabase(database)
  /\ \A b \in Beginnings["sqlite"] : b.store \in Databases

-----------------------------------------------------------------------------
(* The legacy layout *)

LegacyStats ==
  /\ harness = "legacy" /\ reader.pc = "stat"
  /\ IF store.session.form = "absent" THEN Fail("read_error")
     ELSE reader' = [reader EXCEPT !.pc = "session", !.before = store.session.stamp]
  /\ UNCHANGED <<harness, store, emitted, seen, cancelled, writes>>

\* Without its session record Parse returns at once, with what it knows.
LegacyReadsSession ==
  /\ harness = "legacy" /\ reader.pc = "session"
  /\ CASE store.session.form \in {"absent", "denied"} -> Fail("read_error")
       [] store.session.form \in {"large", "garbage"} ->
            reader' = [Marked(TRUE, 1) EXCEPT !.pc = "done"]
       [] store.session.form = "record" -> reader' = [reader EXCEPT !.pc = "list"]
  /\ UNCHANGED <<harness, store, emitted, seen, cancelled, writes>>

Listed(files) == {name \in Names : files[name].form # "absent"}

LegacyListsMessages ==
  /\ harness = "legacy" /\ reader.pc = "list"
  /\ reader' = IF store.there THEN [reader EXCEPT !.pc = "message", !.messages = Ascending(Listed(store.messages))]
               ELSE [Marked(TRUE, 0) EXCEPT !.pc = "done"]
  /\ UNCHANGED <<harness, store, emitted, seen, cancelled, writes>>

\* A message that cannot be read or decoded takes its parts with it.
LegacyReadsMessage ==
  LET name == Head(reader.messages)
      file == store.messages[name]
  IN /\ Turn("legacy", "message") /\ reader.messages # <<>>
     /\ CASE file.form \in {"absent", "denied", "large"} ->
               /\ reader' = [Marked(TRUE, 0) EXCEPT !.messages = Tail(@)]
               /\ UNCHANGED <<emitted, seen>>
          [] file.form = "garbage" ->
               /\ reader' = [Marked(TRUE, 1) EXCEPT !.messages = Tail(@), !.index = @ + 1]
               /\ UNCHANGED <<emitted, seen>>
          [] file.form = "record" ->
               /\ reader' = [reader EXCEPT !.pc = "parts", !.body = file.rec, !.index = @ + 1]
               /\ Emit(<<OpenCode!MapMessageMetadata(file.rec, reader.index)>>)
               /\ seen' = [seen EXCEPT !.lines = Append(@, <<name>>)]
     /\ UNCHANGED <<harness, store, cancelled, writes>>

\* A message without parts, or without a directory for them, is not whole.
LegacyListsParts ==
  LET name == Head(reader.messages)
      parts == Listed(store.parts[name])
  IN /\ harness = "legacy" /\ reader.pc = "parts"
     /\ reader' = IF name \in store.dirs /\ parts # {}
                  THEN [reader EXCEPT !.pc = "part", !.parts = Ascending(parts)]
                  ELSE [Marked(TRUE, 0) EXCEPT !.pc = "message", !.messages = Tail(@)]
     /\ UNCHANGED <<harness, store, emitted, seen, cancelled, writes>>

MutPartDoneInPlace(result, events) ==
  LET last == Len(reader.parts) = 1 IN
  [result EXCEPT !.parts = Tail(@), !.messages = IF last THEN Tail(@) ELSE @,
                 !.pc = IF last THEN "message" ELSE "part"]

\* Every event takes an index; after the last part comes the next message.
PartDone(result, events) ==
  LET last == Len(reader.parts) = 1 IN
  [result EXCEPT !.parts = Tail(@), !.messages = IF last THEN Tail(@) ELSE @,
                 !.pc = IF last THEN "message" ELSE "part", !.index = @ + events]

MutLegacyReadsPartGivesUp ==
  LET file == store.parts[Head(reader.messages)][Head(reader.parts)] IN
  /\ Turn("legacy", "part")
  /\ CASE file.form \in {"absent", "denied", "large"} ->
            /\ reader' = [Marked(TRUE, 0) EXCEPT !.pc = "message", !.parts = <<>>, !.messages = Tail(@)]
            /\ UNCHANGED <<emitted, seen>>
       [] file.form = "garbage" -> reader' = PartDone(Marked(TRUE, 1), 1) /\ UNCHANGED <<emitted, seen>>
       [] file.form = "record" ->
            LET events == OpenCode!PartEvents(reader.body, file.rec, reader.index) IN
            /\ reader' = PartDone(Marked(OpenCode!PartWarned(file.rec), 0), Len(events))
            /\ Emit(events)
            /\ seen' = [seen EXCEPT !.lines = Append(@, <<Head(reader.messages), Head(reader.parts)>>)]
  /\ UNCHANGED <<harness, store, cancelled, writes>>

LegacyReadsPart ==
  LET file == store.parts[Head(reader.messages)][Head(reader.parts)] IN
  /\ Turn("legacy", "part")
  /\ CASE file.form \in {"absent", "denied", "large"} ->
            reader' = PartDone(Marked(TRUE, 0), 0) /\ UNCHANGED <<emitted, seen>>
       [] file.form = "garbage" -> reader' = PartDone(Marked(TRUE, 1), 1) /\ UNCHANGED <<emitted, seen>>
       [] file.form = "record" ->
            LET events == OpenCode!PartEvents(reader.body, file.rec, reader.index) IN
            /\ reader' = PartDone(Marked(OpenCode!PartWarned(file.rec), 0), Len(events))
            /\ Emit(events)
            /\ seen' = [seen EXCEPT !.lines = Append(@, <<Head(reader.messages), Head(reader.parts)>>)]
  /\ UNCHANGED <<harness, store, cancelled, writes>>

\* Only the session's own file is looked at again.
LegacyStatsAfter ==
  /\ harness = "legacy" /\ reader.pc = "message" /\ reader.messages = <<>>
  /\ reader' = IF store.session.form # "absent" /\ store.session.stamp # reader.before
               THEN [reader EXCEPT !.pc = "done", !.changed = TRUE, !.partial = TRUE]
               ELSE [reader EXCEPT !.pc = "done"]
  /\ UNCHANGED <<harness, store, emitted, seen, cancelled, writes>>

\* The harness creates, rewrites and removes messages and parts, and its
\* session file.
LegacyHarnessWrites ==
  /\ harness = "legacy" /\ MayWrite
  /\ \/ \E name \in Names, file \in MessageFiles :
          /\ store' = [store EXCEPT !.there = TRUE, !.messages[name] = file]
          /\ seen' = [seen EXCEPT !.touched = @ \cup {<<name>>}]
     \/ \E name, part \in Names, file \in PartFiles :
          /\ store' = [store EXCEPT !.dirs = @ \cup {name}, !.parts[name][part] = file]
          /\ seen' = [seen EXCEPT !.touched = @ \cup {<<name, part>>}]
     \/ \E form \in {"record", "absent"} :
          /\ store' = [store EXCEPT !.session = [form |-> form, stamp |-> @.stamp + 1]]
          /\ seen' = [seen EXCEPT !.touched = @ \cup {<<>>}]
  /\ writes' = writes - 1
  /\ UNCHANGED <<harness, reader, emitted, cancelled>>

-----------------------------------------------------------------------------
(* The database *)

\* joinedQuery: every message with each of its parts, or with none, ordered by
\* the messages' time and identifier, then the parts'.
NoPart ==
  [id |-> 0, of |-> 0, time |-> 0,
   rec |-> [valid |-> FALSE, type |-> "", text |-> "nil", shell |-> FALSE, ended |-> FALSE]]

Earlier(keys, others) ==
  \E i \in DOMAIN keys : keys[i] < others[i] /\ \A j \in 1..(i - 1) : keys[j] = others[j]

Joined(database) ==
  {r \in [message : database.messages, part : database.parts \cup {NoPart}] :
     IF r.part = NoPart THEN \A p \in database.parts : p.of # r.message.id
     ELSE r.part.of = r.message.id}

Rows(database) ==
  LET keys(r) == <<r.message.time, r.message.id, r.part.time, r.part.id>>
      rows == Joined(database)
  IN Arranged(rows, [s \in rows |-> {r \in rows : Earlier(keys(r), keys(s))}])

\* BeginTx and inspectSchema, its first query: from here on the transaction
\* reads one snapshot, whatever is committed meanwhile.
SQLiteBegins ==
  /\ harness = "sqlite" /\ reader.pc = "begin" /\ ~cancelled
  /\ reader' = [Marked(store.schema # "full", 0) EXCEPT !.pc = "session"]
  /\ seen' = [seen EXCEPT !.before = store]
  /\ UNCHANGED <<harness, store, emitted, cancelled, writes>>

MutSQLiteReadsSessionOutside ==
  /\ Turn("sqlite", "session")
  /\ CASE seen.before.schema = "sessionless" -> Fail("read_error")
       [] seen.before.schema = "partless" -> reader' = [Marked(TRUE, 0) EXCEPT !.pc = "done"]
       [] seen.before.schema = "full" -> reader' = [reader EXCEPT !.pc = "rows", !.rows = Rows(store)]
  /\ UNCHANGED <<harness, store, emitted, seen, cancelled, writes>>

\* selectOneMap, and the query for the rows.
SQLiteReadsSession ==
  /\ Turn("sqlite", "session")
  /\ CASE seen.before.schema = "sessionless" -> Fail("read_error")
       [] seen.before.schema = "partless" -> reader' = [Marked(TRUE, 0) EXCEPT !.pc = "done"]
       [] seen.before.schema = "full" -> reader' = [reader EXCEPT !.pc = "rows", !.rows = Rows(seen.before)]
  /\ UNCHANGED <<harness, store, emitted, seen, cancelled, writes>>

\* partCountForMessage = 0 when another message follows, or none.
Partless == reader.message # 0 /\ reader.count = 0

SQLiteReadsRow ==
  LET row == Head(reader.rows)
      another == row.message.id # reader.message
      index == IF another THEN reader.index + 1 ELSE reader.index
      metadata == <<OpenCode!MapMessageMetadata(row.message.rec, reader.index)>>
      events == IF row.part = NoPart THEN <<>>
                ELSE OpenCode!PartEvents(row.message.rec, row.part.rec, index)
      warned == row.part # NoPart /\ OpenCode!PartWarned(row.part.rec)
  IN /\ Turn("sqlite", "rows") /\ reader.rows # <<>>
     /\ reader' = [Marked(warned \/ (another /\ Partless), 0) EXCEPT
                     !.rows = Tail(@), !.message = row.message.id,
                     !.count = (IF another THEN 0 ELSE @) + (IF row.part = NoPart THEN 0 ELSE 1),
                     !.index = index + Len(events)]
     /\ Emit((IF another THEN metadata ELSE <<>>) \o events)
     /\ UNCHANGED <<harness, store, seen, cancelled, writes>>

\* The last message's check, and the commit, which may fail.
SQLiteEnds ==
  /\ harness = "sqlite" /\ reader.pc = "rows" /\ reader.rows = <<>>
  /\ reader' = [Marked(Partless, 0) EXCEPT !.pc = "done"]
  /\ UNCHANGED <<harness, store, emitted, seen, cancelled, writes>>

SQLiteHarnessCommits ==
  /\ harness = "sqlite" /\ MayWrite
  /\ store' \in Databases
  /\ writes' = writes - 1
  /\ UNCHANGED <<harness, reader, emitted, seen, cancelled>>

=============================================================================
