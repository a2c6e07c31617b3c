-------------------------- MODULE AdapterLines_proofs -------------------------
(***************************************************************************)
(* Proofs about Adapters, continued: the adapters that read a file of lines. *)
(* Claude Code and Codex tell one line after the other; Pi indexes them,   *)
(* orders the tree they make and passes its entries on.                    *)
(***************************************************************************)
EXTENDS Adapters_proofs

USE DEF LineHarnesses

(***************************************************************************)
(* What a step of a Parse that reads lines does to its result.             *)
(***************************************************************************)

\* What a step leaves of the two stats and of what lies between them.
Between ==
  /\ UNCHANGED store \/ (Writes /\ UNCHANGED reader /\ UNCHANGED seen)
  /\ reader.pc # "stat" => UNCHANGED reader.before /\ UNCHANGED seen.before
  /\ reader.pc # "after" => UNCHANGED seen.stood
  /\ reader.pc = "after" /\ reader'.pc = "done" =>
       (seen'.stood <=> PathThere) /\ (PathThere => Stat = reader.before)

\* Nothing that was found changes.
Keeps ==
  /\ UNCHANGED <<emitted, seen.lines, seen.passed>>
  /\ UNCHANGED <<reader.position, reader.partial, reader.malformed, reader.changed, reader.error,
                 reader.index, reader.order, reader.active>>
  /\ \/ UNCHANGED reader.pc
     \/ reader.pc = "stat" /\ reader'.pc = "open"
     \/ reader.pc = "open" /\ reader'.pc = IF harness = "pi" THEN "index" ELSE "read"
     \/ harness # "pi" /\ reader.pc = "read" /\ reader'.pc = "after"
     \/ harness = "pi" /\ reader.pc = "emit" /\ reader.order = <<>> /\ reader'.pc = "after"
     \/ reader.pc = "after" /\ reader'.pc = "done"
  /\ Between

\* Parse gives up, or finds the file changed.
GivesUp ==
  /\ UNCHANGED <<emitted, seen.lines, seen.passed>>
  /\ UNCHANGED <<reader.position, reader.index, reader.order, reader.active>>
  /\ reader'.pc = "done" /\ reader'.partial = TRUE /\ reader'.malformed \in {0, reader.malformed}
  /\ \/ reader'.changed = FALSE /\ reader'.error \in Errors \ {"none"}
     \/ reader'.changed = TRUE /\ reader'.error = reader.error /\ reader.pc = "after"

LEMMA LineMoves ==
  ASSUME LineInv, harness \in LineHarnesses, [Next]_vars
  PROVE  \/ Keeps \/ GivesUp
         \/ ClaudeReadsLine \/ CodexReadsLine \/ PiIndexesLine \/ PiAnalyzes \/ PiEmits
<1>1. Locals /\ IsReader(reader)
  BY DEF LineInv, Locals
<1>2. seen = [before |-> seen.before, lines |-> seen.lines, passed |-> seen.passed,
              touched |-> seen.touched, stood |-> seen.stood]
  BY <1>1 DEF Locals
<1>3. CASE StatsBefore
  <2>1. PICK b : reader' = [reader EXCEPT !.pc = "open", !.before = b]
    BY <1>3 DEF StatsBefore
  <2>2. PICK c : seen' = [seen EXCEPT !.before = c]
    BY <1>3 DEF StatsBefore
  <2>3. seen'.lines = seen.lines /\ seen'.passed = seen.passed /\ seen'.stood = seen.stood
    BY <1>2, <2>2
  <2>4. reader.pc = "stat" /\ UNCHANGED <<emitted, store>>
    BY <1>3 DEF StatsBefore
  <2>5. Between
    BY <1>1, <2>1, <2>3, <2>4 DEF Between, IsReader, Fields
  <2>6. QED
    BY <1>1, <2>1, <2>3, <2>4, <2>5 DEF Keeps, IsReader, Fields
<1>4. CASE Opens
  <2>1. PICK fd : reader' = [reader EXCEPT !.pc = IF harness = "pi" THEN "index" ELSE "read", !.fd = fd]
    BY <1>4 DEF Opens
  <2> DEFINE pc == IF harness = "pi" THEN "index" ELSE "read"
  <2> HIDE DEF pc
  <2>2. reader' = [reader EXCEPT !.pc = pc, !.fd = fd]
    BY <2>1 DEF pc
  <2>3. UNCHANGED <<reader.position, reader.partial, reader.malformed, reader.changed, reader.error,
                 reader.index, reader.order, reader.active, reader.before>> /\ reader'.pc = pc
    BY <1>1, <2>2 DEF IsReader, Fields
  <2>4. reader.pc = "open" /\ UNCHANGED <<emitted, store, seen>>
    BY <1>4 DEF Opens
  <2>5. Between
    BY <2>3, <2>4 DEF Between, pc
  <2>6. QED
    BY <2>3, <2>4, <2>5 DEF Keeps, pc
<1>5. CASE FindsNothing \/ SinkRefuses \/ ReadFails \/ NoticesCancel
  <2>1. PICK code \in Errors \ {"none"} : Fail(code) /\ UNCHANGED <<emitted, seen>>
    BY <1>5 DEF FindsNothing, SinkRefuses, ReadFails, NoticesCancel, Errors
  <2>2. /\ UNCHANGED <<reader.position, reader.index, reader.order, reader.active>>
        /\ reader'.pc = "done" /\ reader'.partial = TRUE /\ reader'.malformed = 0
        /\ reader'.changed = FALSE /\ reader'.error = code
    BY <1>1, <2>1 DEF Fail, IsReader, Fields
  <2>3. QED
    BY <2>1, <2>2 DEF GivesUp
<1>6. CASE Fills
  <2>1. PICK b : reader' = [reader EXCEPT !.buffer = b]
    BY <1>6 DEF Fills
  <2>2. Between
    BY <1>1, <1>6, <2>1 DEF Fills, Between, IsReader, Fields
  <2>3. QED
    BY <1>1, <1>6, <2>1, <2>2 DEF Fills, Keeps, IsReader, Fields
<1>7. CASE StatsAfter
  <2>1. PICK b : seen' = [seen EXCEPT !.stood = b]
    BY <1>7 DEF StatsAfter
  <2>2. /\ seen'.lines = seen.lines /\ seen'.passed = seen.passed /\ seen'.before = seen.before
        /\ seen'.stood <=> PathThere
    <3>1. seen' = [seen EXCEPT !.stood = PathThere]
      BY <1>7 DEF StatsAfter
    <3>2. QED
      BY <1>2, <3>1
  <2>3. UNCHANGED <<emitted, store>> /\ reader.pc = "after"
    BY <1>7 DEF StatsAfter
  <2>4. \/ reader' = [reader EXCEPT !.pc = "done", !.changed = TRUE, !.partial = TRUE]
        \/ reader' = [reader EXCEPT !.pc = "done"] /\ (PathThere => Stat = reader.before)
    BY <1>7 DEF StatsAfter
  <2>5. CASE reader' = [reader EXCEPT !.pc = "done", !.changed = TRUE, !.partial = TRUE]
    BY <1>1, <2>2, <2>3, <2>5 DEF GivesUp, IsReader, Fields
  <2>6. CASE reader' = [reader EXCEPT !.pc = "done"] /\ (PathThere => Stat = reader.before)
    <3>1. Between
      BY <1>1, <2>2, <2>3, <2>6 DEF Between, IsReader, Fields
    <3>2. QED
      BY <1>1, <2>2, <2>3, <2>6, <3>1 DEF Keeps, IsReader, Fields
  <2>7. QED
    BY <2>4, <2>5, <2>6
<1>8. CASE EndOfFile
  <2>1. Between
    BY <1>1, <1>8 DEF EndOfFile, Turn, Between, IsReader, Fields
  <2>2. QED
    BY <1>1, <1>8, <2>1 DEF EndOfFile, Turn, Keeps, IsReader, Fields
<1>9. CASE PiEnds
  <2>1. Between
    BY <1>1, <1>9 DEF PiEnds, Turn, Between, IsReader, Fields
  <2>2. QED
    BY <1>1, <1>9, <2>1 DEF PiEnds, Turn, Keeps, IsReader, Fields
<1>10. CASE Writes \/ Cancel \/ UNCHANGED vars
  <2>1. UNCHANGED <<reader, emitted, seen>> /\ (UNCHANGED store \/ Writes)
    BY <1>10 DEF Writes, HarnessAppends, HarnessCompletes, HarnessRewrites, HarnessReplaces, HarnessRemoves,
       Cancel, vars
  <2>2. QED
    BY <2>1 DEF Keeps, Between
<1>11. CASE \/ LegacyStats \/ LegacyReadsSession \/ LegacyListsMessages
            \/ LegacyReadsMessage \/ LegacyListsParts \/ LegacyReadsPart \/ LegacyStatsAfter
            \/ SQLiteBegins \/ SQLiteReadsSession \/ SQLiteReadsRow \/ SQLiteEnds
            \/ Discovers \/ WalkFails
            \/ LegacyHarnessWrites \/ SQLiteHarnessCommits \/ WalkHarnessCreates \/ WalkHarnessRemoves
  BY <1>11 DEF LegacyStats, LegacyReadsSession, LegacyListsMessages, LegacyReadsMessage, LegacyListsParts,
     LegacyReadsPart, LegacyStatsAfter, SQLiteBegins, SQLiteReadsSession, SQLiteReadsRow, SQLiteEnds,
     Discovers, WalkDetects, WalkOpensBase, WalkEntersDirectory, WalkVisits, WalkEndsBase, WalkFails,
     LegacyHarnessWrites, SQLiteHarnessCommits, WalkHarnessCreates, WalkHarnessRemoves, Turn, Walking
<1>12. QED
  BY <1>3, <1>4, <1>5, <1>6, <1>7, <1>8, <1>9, <1>10, <1>11
     DEF Next, Parses, Fails, Harness, Writes

(***************************************************************************)
(* Messages that join those before them.                                   *)
(***************************************************************************)

\* At most one message, at the position pos.
OneAt(told, pos) == told = <<>> \/ \E m \in Messages : told = <<m>> /\ m.pos = pos

Distinct(messages) == \A i, j \in DOMAIN messages : i # j => messages[i].pos # messages[j].pos
Positions(messages) == {messages[i].pos : i \in DOMAIN messages}

LEMMA Joins ==
  ASSUME NEW messages \in Seq(Messages), NEW told, NEW pos, OneAt(told, pos)
  PROVE  /\ messages \o told \in Seq(Messages)
         /\ Positions(messages \o told) \in SUBSET (Positions(messages) \cup {pos})
         /\ Distinct(messages) /\ pos \notin Positions(messages) => Distinct(messages \o told)
<1>1. CASE told = <<>>
  <2>1. messages \o told = messages
    BY <1>1
  <2>2. QED
    BY <2>1
<1>2. CASE \E m \in Messages : told = <<m>> /\ m.pos = pos
  <2>1. PICK m \in Messages : told = <<m>> /\ m.pos = pos
    BY <1>2
  <2> DEFINE all == messages \o told
             n == Len(messages)
  <2>2. all \in Seq(Messages) /\ n \in Nat /\ DOMAIN all = 1..(n + 1) /\ DOMAIN messages = 1..n
        /\ all[n + 1] = m /\ \A i \in 1..n : all[i] = messages[i]
    BY <2>1
  <2> HIDE DEF all, n
  <2>3. \A i \in DOMAIN all : i = n + 1 \/ i \in 1..n
    BY <2>2
  <2>4. Positions(all) \in SUBSET (Positions(messages) \cup {pos})
    BY <2>1, <2>2, <2>3 DEF Positions
  <2>5. ASSUME Distinct(messages), pos \notin Positions(messages) PROVE Distinct(all)
    <3>1. \A i \in 1..n : messages[i].pos # pos
      BY <2>2, <2>5 DEF Positions
    <3>2. QED
      BY <2>1, <2>2, <2>3, <2>5, <3>1 DEF Distinct
  <2>6. QED
    BY <2>2, <2>4, <2>5 DEF all
<1>3. QED
  BY <1>1, <1>2 DEF OneAt

LEMMA SaysOne ==
  ASSUME NEW speaker, NEW pos \in Nat, NEW n \in Nat, NEW parts, DOMAIN parts = 1..n, NEW hidden
  PROVE  OneAt(Says(speaker, pos, Shown(parts, hidden)), pos)
<1> DEFINE shown == Shown(parts, hidden)
<1>1. shown \in Seq({"words", "image", "audio"})
  BY ShownType DEF Markers
<1> HIDE DEF shown
<1>2. speaker \in {"user", "assistant"} => [speaker |-> speaker, pos |-> pos, parts |-> shown] \in Messages
  BY <1>1 DEF Messages
<1>3. QED
  BY <1>2 DEF OneAt, Says, shown

LEMMA ClaudeSaysOne ==
  ASSUME NEW record, Claude!IsRecord(record), NEW line \in Nat
  PROVE  OneAt(ClaudeSays(record, line), line)
<1>1. record.parts \in Seq(Claude!Parts)
  BY DEF Claude!IsRecord
<1>2. Len(record.parts) \in Nat /\ DOMAIN record.parts = 1..Len(record.parts)
  BY <1>1
<1> DEFINE name == IF record.role = "" THEN record.type ELSE record.role
           hidden == Claude!Structured \cup Thoughts
           said == Says(name, line, Shown(record.parts, hidden))
<1>3. ClaudeSays(record, line) \in {said, <<>>}
  BY DEF ClaudeSays
<1> HIDE DEF name, hidden
<1>4. OneAt(said, line) /\ OneAt(<<>>, line)
  BY <1>2, SaysOne DEF OneAt
<1> HIDE DEF said
<1>5. QED
  BY <1>3, <1>4

LEMMA CodexSaysOne ==
  ASSUME NEW record, Codex!IsRecord(record), NEW line \in Nat
  PROVE  OneAt(CodexSays(record, line), line)
<1>1. record.parts \in Seq(Codex!Parts)
  BY DEF Codex!IsRecord
<1>2. Len(record.parts) \in Nat /\ DOMAIN record.parts = 1..Len(record.parts)
  BY <1>1
<1>3. QED
  BY <1>2, SaysOne DEF CodexSays, OneAt

LEMMA PiSaysOne ==
  ASSUME NEW record, Pi!IsEntry(record), NEW line \in Nat
  PROVE  OneAt(PiSays(record, line), line)
<1>1. record.parts \in Seq(Pi!Parts)
  BY DEF Pi!IsEntry
<1>2. Len(record.parts) \in Nat /\ DOMAIN record.parts = 1..Len(record.parts)
  BY <1>1
<1> DEFINE name == record.role
           hidden == Thoughts \cup IF record.role = "assistant" THEN {"toolCall", "bashCall"} ELSE {}
           said == Says(name, line, Shown(record.parts, hidden))
<1>3. PiSays(record, line) \in {said, <<>>}
  BY DEF PiSays
<1> HIDE DEF name, hidden
<1>4. OneAt(said, line) /\ OneAt(<<>>, line)
  BY <1>2, SaysOne DEF OneAt
<1> HIDE DEF said
<1>5. QED
  BY <1>3, <1>4

\* The records in a line are those of its harness.
LEMMA RecordsAreTyped ==
  ASSUME NEW h \in LineHarnesses, NEW line \in Lines(h)
  PROVE  /\ line.form \in {"record", "blank", "garbage", "torn"} /\ line.size \in 1..3
         /\ h = "claude" => Claude!IsRecord(line.rec)
         /\ h = "codex" => Codex!IsRecord(line.rec)
         /\ h = "pi" => Pi!IsEntry(line.rec)
<1>1. line.rec \in Records(h) /\ line.form \in {"record", "blank", "garbage", "torn"} /\ line.size \in 1..3
  BY DEF Lines
<1>2. QED
  BY <1>1, RecordsAssumption

\* At most one message for a line, and it is at that line.
LEMMA LineSaysOne ==
  ASSUME NEW h \in LineHarnesses, NEW lines \in Seq(Lines(h)), NEW i \in 1..Len(lines)
  PROVE  OneAt(LineSays(h, lines, i), i)
<1>1. lines[i] \in Lines(h) /\ i \in Nat
  OBVIOUS
<1>2. LineSays(h, lines, i) = IF lines[i].form # "record" \/ TooLarge(lines[i]) THEN <<>>
                              ELSE CASE h = "claude" -> ClaudeSays(lines[i].rec, i)
                                     [] h = "codex"  -> CodexSays(lines[i].rec, i)
                                     [] h = "pi"     -> IF PiVersion(lines) \in 1..3 THEN PiSays(lines[i].rec, i) ELSE <<>>
  BY DEF LineSays
<1>3. OneAt(<<>>, i)
  BY DEF OneAt
<1>4. CASE h = "claude"
  BY <1>1, <1>2, <1>3, <1>4, RecordsAreTyped, ClaudeSaysOne
<1>5. CASE h = "codex"
  BY <1>1, <1>2, <1>3, <1>5, RecordsAreTyped, CodexSaysOne
<1>6. CASE h = "pi"
  BY <1>1, <1>2, <1>3, <1>6, RecordsAreTyped, PiSaysOne
<1>7. QED
  BY <1>4, <1>5, <1>6

\* A message is a sequence of messages.
LEMMA OneIsSeq == ASSUME NEW told, NEW pos, OneAt(told, pos) PROVE told \in Seq(Messages)
<1>1. <<>> \in Seq(Messages) /\ \A m \in Messages : <<m>> \in Seq(Messages)
  OBVIOUS
<1>2. QED
  BY <1>1 DEF OneAt

(***************************************************************************)
(* Claude Code and Codex: what the lines read so far tell, and whether one *)
(* of them is lost.                                                        *)
(***************************************************************************)

LineAfterLine == {"claude", "codex"}

ToldBy(h, lines) == [i \in DOMAIN lines |-> LineSays(h, lines, i)]

SomeUnread(h, lines) == \E i \in DOMAIN lines : LineUnread(h, lines[i])

\* The facts of a sequence that a line joins.
LEMMA LinesAppend ==
  ASSUME NEW h \in LineHarnesses, NEW lines \in Seq(Lines(h)), NEW line \in Lines(h), NEW more,
         more = Append(lines, line)
  PROVE  /\ more \in Seq(Lines(h)) /\ Len(lines) \in Nat /\ Len(more) = Len(lines) + 1
         /\ DOMAIN lines = 1..Len(lines) /\ DOMAIN more = 1..(Len(lines) + 1)
         /\ more[Len(lines) + 1] = line /\ \A i \in 1..Len(lines) : more[i] = lines[i]
  OBVIOUS

\* What the lines tell is a sequence of conversations.
LEMMA ToldType ==
  ASSUME NEW h \in LineHarnesses, NEW lines \in Seq(Lines(h))
  PROVE  ToldBy(h, lines) \in Seq(Seq(Messages))
<1> DEFINE S == Seq(Messages)
           told == ToldBy(h, lines)
<1>1. Len(lines) \in Nat /\ DOMAIN lines = 1..Len(lines)
  OBVIOUS
<1>2. \A i \in 1..Len(lines) : LineSays(h, lines, i) \in S
  BY LineSaysOne, OneIsSeq
<1> HIDE DEF S
<1>3. told \in [1..Len(lines) -> S]
  BY <1>1, <1>2 DEF ToldBy
<1>4. told \in Seq(S)
  BY <1>1, <1>3
<1>5. QED
  BY <1>4 DEF S

LEMMA ToldAppend ==
  ASSUME NEW h \in LineAfterLine, NEW lines \in Seq(Lines(h)), NEW line \in Lines(h), NEW more,
         more = Append(lines, line)
  PROVE  /\ FlattenSeq(ToldBy(h, more)) = FlattenSeq(ToldBy(h, lines)) \o LineSays(h, more, Len(lines) + 1)
         /\ SomeUnread(h, more) <=> SomeUnread(h, lines) \/ LineUnread(h, line)
<1> DEFINE n == Len(lines)
           last == LineSays(h, more, n + 1)
           told == ToldBy(h, lines)
<1>0. h \in LineHarnesses
  BY DEF LineAfterLine
<1>1. /\ more \in Seq(Lines(h)) /\ n \in Nat /\ Len(more) = n + 1
      /\ DOMAIN lines = 1..n /\ DOMAIN more = 1..(n + 1)
      /\ more[n + 1] = line /\ \A i \in 1..n : more[i] = lines[i]
  BY <1>0, LinesAppend
<1>2. told \in Seq(Seq(Messages)) /\ DOMAIN told = 1..n /\ Len(told) = n
  <2>1. told \in Seq(Seq(Messages))
    BY <1>0, ToldType
  <2>2. DOMAIN told = 1..n
    BY <1>1 DEF ToldBy
  <2> HIDE DEF told
  <2>3. QED
    BY <1>1, <2>1, <2>2
<1>3. last \in Seq(Messages)
  <2>1. n + 1 \in 1..Len(more)
    BY <1>1
  <2>2. OneAt(last, n + 1)
    BY <1>0, <1>1, <2>1, LineSaysOne
  <2>3. QED
    BY <2>2, OneIsSeq
<1>4. \A i \in 1..n : LineSays(h, more, i) = LineSays(h, lines, i)
  BY <1>1 DEF LineSays, LineAfterLine
<1>5. ToldBy(h, more) = Append(told, last)
  <2> DEFINE all == ToldBy(h, more)
             S == Seq(Messages)
  <2>1. \A i \in 1..n : told[i] = LineSays(h, lines, i)
    BY <1>1 DEF ToldBy
  <2>2. all \in Seq(S) /\ told \in Seq(S) /\ last \in S
    BY <1>0, <1>1, <1>2, <1>3, ToldType
  <2>3. DOMAIN all = 1..(n + 1)
    BY <1>1 DEF ToldBy
  <2>4. \A i \in 1..(n + 1) : all[i] = IF i = n + 1 THEN last ELSE told[i]
    BY <1>1, <1>4, <2>1 DEF ToldBy
  <2> HIDE DEF told, last, n, all, S
  <2>5. Append(told, last) \in Seq(S) /\ Len(Append(told, last)) = n + 1
        /\ \A i \in 1..(n + 1) : Append(told, last)[i] = IF i = n + 1 THEN last ELSE told[i]
    BY <1>1, <1>2, <2>2
  <2>6. Len(all) = n + 1
    BY <1>1, <2>2, <2>3
  <2>7. all = Append(told, last)
    BY <2>2, <2>4, <2>5, <2>6, SeqEqual
  <2>8. QED
    BY <2>7 DEF all
<1>6. FlattenSeq(ToldBy(h, more)) = FlattenSeq(told) \o last
  <2> HIDE DEF told, last
  <2>1. QED
    BY <1>2, <1>3, <1>5, FlattenAppend
<1>7. SomeUnread(h, more) <=> SomeUnread(h, lines) \/ LineUnread(h, line)
  <2>1. \A i \in 1..(n + 1) : i \in 1..n \/ i = n + 1
    BY <1>1
  <2>2. \A i \in 1..n : i \in 1..(n + 1)
    BY <1>1
  <2>3. n + 1 \in 1..(n + 1)
    BY <1>1
  <2>4. QED
    BY <1>1, <2>1, <2>2, <2>3 DEF SomeUnread
<1>8. QED
  BY <1>6, <1>7

LEMMA NothingTellsNothing == UsageEvents(<<>>) = <<>>
<1>1. FirstOnly(<<>>, 0)
  BY DEF FirstOnly
<1>2. QED
  BY <1>1, FirstIsTold

\* What a turn of the two loops adds.
LEMMA ClaudeLineTold ==
  ASSUME NEW lines \in Seq(Lines("claude")), NEW at \in 1..Len(lines), NEW line, line = lines[at]
  PROVE  LET events == ClaudeEvents(line, at)
         IN  /\ UsageEvents(events) = LineSays("claude", lines, at)
             /\ (TooLarge(line) \/ line.form # "blank") /\ events = Claude!MapError <=> LineUnread("claude", line)
<1>1. line \in Lines("claude")
  OBVIOUS
<1>2. line.form \in {"record", "blank", "garbage", "torn"} /\ Claude!IsRecord(line.rec)
  BY <1>1, RecordsAreTyped
<1>3. CASE line.form = "record" /\ ~TooLarge(line)
  <2>1. ClaudeEvents(line, at) = Claude!MapNativeRecord(line.rec, at)
    BY <1>3 DEF ClaudeEvents
  <2>2. LineSays("claude", lines, at) = ClaudeSays(line.rec, at)
    BY <1>3 DEF LineSays
  <2>3. /\ UsageEvents(ClaudeEvents(line, at)) = ClaudeSays(line.rec, at)
        /\ ClaudeEvents(line, at) = Claude!MapError <=> ClaudeFails(line.rec)
    BY <1>2, <2>1, ClaudeTold
  <2>4. LineUnread("claude", line) <=> ClaudeFails(line.rec)
    BY <1>3 DEF LineUnread, ClaudeFails
  <2>5. QED
    BY <1>3, <2>2, <2>3, <2>4
<1>4. CASE ~(line.form = "record" /\ ~TooLarge(line))
  <2>1. ClaudeEvents(line, at) = <<>> /\ Claude!MapError = <<>>
    BY <1>4 DEF ClaudeEvents, Claude!MapError
  <2>2. LineSays("claude", lines, at) = <<>>
    BY <1>4 DEF LineSays
  <2>3. LineUnread("claude", line) <=> TooLarge(line) \/ line.form # "blank"
    BY <1>2, <1>4 DEF LineUnread
  <2>4. QED
    BY <2>1, <2>2, <2>3, NothingTellsNothing
<1>5. QED
  BY <1>3, <1>4

LEMMA CodexLineTold ==
  ASSUME NEW lines \in Seq(Lines("codex")), NEW at \in 1..Len(lines), NEW line, line = lines[at], NEW commands
  PROVE  LET event == CodexEvent(line, at)
             failed == event = Codex!MapError
         IN  /\ UsageEvents(IF failed THEN <<>> ELSE <<Codex!WithCommandResult(commands, event)>>)
                  = LineSays("codex", lines, at)
             /\ (TooLarge(line) \/ line.form # "blank") /\ failed <=> LineUnread("codex", line)
<1>1. line \in Lines("codex")
  OBVIOUS
<1>2. line.form \in {"record", "blank", "garbage", "torn"} /\ Codex!IsRecord(line.rec)
  BY <1>1, RecordsAreTyped
<1>3. CASE line.form = "record" /\ ~TooLarge(line)
  <2>1. CodexEvent(line, at) = Codex!MapRecord(line.rec, at)
    BY <1>3 DEF CodexEvent
  <2>2. LineSays("codex", lines, at) = CodexSays(line.rec, at)
    BY <1>3 DEF LineSays
  <2>3. /\ Codex!MapRecord(line.rec, at) = Codex!MapError <=> CodexFails(line.rec)
        /\ CodexFails(line.rec) => CodexSays(line.rec, at) = <<>>
        /\ ~CodexFails(line.rec) =>
             UsageEvents(<<Codex!WithCommandResult(commands, Codex!MapRecord(line.rec, at))>>) = CodexSays(line.rec, at)
    BY <1>2, CodexTold
  <2>4. LineUnread("codex", line) <=> CodexFails(line.rec)
    BY <1>3 DEF LineUnread, CodexFails
  <2>5. CASE CodexFails(line.rec)
    BY <1>3, <2>1, <2>2, <2>3, <2>4, <2>5, NothingTellsNothing
  <2>6. CASE ~CodexFails(line.rec)
    BY <1>3, <2>1, <2>2, <2>3, <2>4, <2>6
  <2>7. QED
    BY <2>5, <2>6
<1>4. CASE ~(line.form = "record" /\ ~TooLarge(line))
  <2>1. CodexEvent(line, at) = Codex!MapError
    BY <1>4 DEF CodexEvent
  <2>2. LineSays("codex", lines, at) = <<>>
    BY <1>4 DEF LineSays
  <2>3. LineUnread("codex", line) <=> TooLarge(line) \/ line.form # "blank"
    BY <1>2, <1>4 DEF LineUnread
  <2>4. QED
    BY <2>1, <2>2, <2>3, NothingTellsNothing
<1>5. QED
  BY <1>3, <1>4

(***************************************************************************)
(* The invariant of the two loops: what was emitted is what the lines read *)
(* so far tell, and the result is partial when one of them is lost.        *)
(***************************************************************************)

LineResult ==
  harness \in LineHarnesses =>
    /\ reader.partial \in BOOLEAN /\ reader.changed \in BOOLEAN
    /\ reader.malformed \in Nat /\ reader.error \in Errors
    /\ reader.position = Len(seen.lines)

LinesTold ==
  harness \in LineAfterLine =>
    /\ emitted = FlattenSeq(ToldBy(harness, seen.lines))
    /\ emitted \in Seq(Messages) /\ Distinct(emitted) /\ Positions(emitted) \subseteq 1..Len(seen.lines)
    /\ reader.error = "none" /\ ~reader.changed => (reader.partial <=> SomeUnread(harness, seen.lines))

LEMMA StartOfLines ==
  ASSUME Init, harness \in LineHarnesses
  PROVE  /\ reader.partial = FALSE /\ reader.changed = FALSE /\ reader.malformed = 0 /\ reader.error = "none"
         /\ reader.position = 0 /\ reader.index = Pi!NoIndex /\ reader.order = <<>> /\ reader.active = {}
         /\ reader.pc = "stat" /\ seen.lines = <<>> /\ seen.passed = <<>> /\ emitted = <<>>
  BY DEF Init, Start, With, NoResult

LEMMA TellingStarts == Init => LineResult /\ LinesTold
<1> SUFFICES ASSUME Init PROVE LineResult /\ LinesTold
  OBVIOUS
<1>1. LineResult
  <2> SUFFICES ASSUME harness \in LineHarnesses PROVE LineResult
    BY DEF LineResult
  <2>1. /\ reader.partial = FALSE /\ reader.changed = FALSE /\ reader.malformed = 0 /\ reader.error = "none"
        /\ reader.position = 0 /\ seen.lines = <<>>
    BY StartOfLines
  <2>2. reader.position = Len(seen.lines)
    BY <2>1
  <2>3. "none" \in Errors /\ 0 \in Nat
    BY DEF Errors
  <2>4. QED
    BY <2>1, <2>2, <2>3, Zenon DEF LineResult
<1>2. ASSUME harness \in LineAfterLine PROVE LinesTold
  <2>1. /\ reader.partial = FALSE /\ seen.lines = <<>> /\ emitted = <<>>
    BY <1>2, StartOfLines DEF LineAfterLine
  <2>2. ToldBy(harness, seen.lines) = <<>> /\ ~SomeUnread(harness, seen.lines)
    BY <2>1 DEF ToldBy, SomeUnread
  <2>3. emitted = FlattenSeq(ToldBy(harness, seen.lines))
    BY <2>1, <2>2, FlattenNone
  <2>4. emitted \in Seq(Messages) /\ Distinct(emitted) /\ Positions(emitted) \subseteq 1..Len(seen.lines)
    BY <2>1 DEF Distinct, Positions
  <2>5. QED
    BY <2>1, <2>2, <2>3, <2>4 DEF LinesTold
<1>3. QED
  BY <1>1, <1>2 DEF LinesTold

\* What Consumed does to the result.
LEMMA ConsumedResult ==
  ASSUME IsReader(reader), reader.partial \in BOOLEAN, NEW line, NEW lost \in BOOLEAN, NEW eof,
         NEW r, r = Consumed(line, lost, eof)
  PROVE  /\ r.partial = (reader.partial \/ lost)
         /\ r.malformed = reader.malformed + IF lost THEN 1 ELSE 0
         /\ r.changed = reader.changed /\ r.error = reader.error /\ r.position = reader.position + 1
         /\ r.index = reader.index /\ r.order = reader.order /\ r.active = reader.active
  BY DEF Consumed, Marked, IsReader, Fields

\* A turn of either loop.
LEMMA TellsLine ==
  ASSUME LineInv, LineResult, LinesTold, harness \in LineAfterLine, reader.buffer # <<>>, NEW lost \in BOOLEAN,
         UNCHANGED harness, Sees(NextLine),
         lost <=> LineUnread(harness, NextLine),
         emitted' = emitted \o LineSays(harness, seen'.lines, NextAt),
         reader'.partial = (reader.partial \/ lost),
         reader'.malformed = reader.malformed + (IF lost THEN 1 ELSE 0),
         reader'.changed = reader.changed, reader'.error = reader.error,
         reader'.position = reader.position + 1
  PROVE  LineResult' /\ LinesTold'
<1> DEFINE lines == seen.lines
           n == Len(lines)
           more == seen'.lines
           said == LineSays(harness, more, n + 1)
<1>0. harness \in LineHarnesses /\ Locals
  BY DEF LineAfterLine, LineInv
<1>1. NextLine \in Lines(harness) /\ lines \in Seq(Lines(harness))
  BY <1>0 DEF Locals, NextLine
<1>2. more = Append(lines, NextLine)
  BY <1>0 DEF Sees, Locals
<1>3. /\ more \in Seq(Lines(harness)) /\ n \in Nat /\ Len(more) = n + 1
      /\ NextAt = n + 1
  <2>1. more \in Seq(Lines(harness)) /\ n \in Nat /\ Len(more) = n + 1
    BY <1>0, <1>1, <1>2, LinesAppend
  <2>2. reader.position = n
    BY <1>0 DEF LineResult
  <2>3. QED
    BY <2>1, <2>2 DEF NextAt
<1>4. /\ FlattenSeq(ToldBy(harness, more)) = FlattenSeq(ToldBy(harness, lines)) \o said
      /\ SomeUnread(harness, more) <=> SomeUnread(harness, lines) \/ LineUnread(harness, NextLine)
  BY <1>1, <1>2, ToldAppend
<1>5. OneAt(said, n + 1)
  <2>1. n + 1 \in 1..Len(more)
    BY <1>3
  <2>2. QED
    BY <1>0, <1>3, <2>1, LineSaysOne
<1>6. emitted' = emitted \o said
  BY <1>3
<1> HIDE DEF said
<1>7. /\ emitted = FlattenSeq(ToldBy(harness, lines)) /\ emitted \in Seq(Messages)
      /\ Distinct(emitted) /\ Positions(emitted) \subseteq 1..n
      /\ reader.error = "none" /\ ~reader.changed => (reader.partial <=> SomeUnread(harness, lines))
  BY DEF LinesTold
<1>8. /\ emitted' \in Seq(Messages)
      /\ Positions(emitted') \subseteq 1..(n + 1) /\ Distinct(emitted')
  <2>1. /\ emitted \o said \in Seq(Messages)
        /\ Positions(emitted \o said) \in SUBSET (Positions(emitted) \cup {n + 1})
        /\ Distinct(emitted) /\ (n + 1) \notin Positions(emitted) => Distinct(emitted \o said)
    BY <1>5, <1>7, Joins
  <2>2. (n + 1) \notin Positions(emitted) /\ 1..n \subseteq 1..(n + 1) /\ n + 1 \in 1..(n + 1)
    BY <1>3, <1>7
  <2> HIDE DEF n, lines, more
  <2>3. Positions(emitted \o said) \subseteq 1..(n + 1)
    BY <1>7, <2>1, <2>2, Zenon
  <2>4. Distinct(emitted \o said)
    BY <1>7, <2>1, <2>2, Zenon
  <2>5. QED
    BY <1>6, <2>1, <2>3, <2>4, Zenon
<1>9. LinesTold'
  <2>1. emitted' = FlattenSeq(ToldBy(harness, more))
    BY <1>4, <1>6, <1>7
  <2>2. reader'.error = "none" /\ ~reader'.changed => (reader'.partial <=> SomeUnread(harness, more))
    BY <1>4, <1>7
  <2> HIDE DEF lines, n
  <2>3. QED
    BY <1>3, <1>8, <2>1, <2>2 DEF LinesTold, Distinct, Positions
<1>10. LineResult'
  <2>1. reader.partial \in BOOLEAN /\ reader.changed \in BOOLEAN
        /\ reader.malformed \in Nat /\ reader.error \in Errors /\ reader.position = n
    BY <1>0 DEF LineResult
  <2>2. reader'.malformed \in Nat
    BY <2>1
  <2>3. reader'.position = Len(seen'.lines)
    BY <1>3, <2>1
  <2>4. QED
    BY <2>1, <2>2, <2>3 DEF LineResult
<1>11. QED
  BY <1>9, <1>10

LEMMA ClaudeTellsLine ==
  ASSUME LineInv, LineResult, LinesTold, ClaudeReadsLine
  PROVE  LineResult' /\ LinesTold'
<1> DEFINE events == ClaudeEvents(NextLine, NextAt)
           lost == (TooLarge(NextLine) \/ NextLine.form # "blank") /\ events = Claude!MapError
<1>1. harness = "claude" /\ reader.buffer # <<>> /\ UNCHANGED harness /\ Sees(NextLine)
      /\ reader' = Consumed(NextLine, lost, "after") /\ Emit(events)
  BY DEF ClaudeReadsLine, Turn
<1>2. Locals /\ IsReader(reader) /\ reader.partial \in BOOLEAN /\ lost \in BOOLEAN /\ harness \in LineAfterLine
      /\ reader.position = Len(seen.lines)
  BY <1>1 DEF LineInv, Locals, LineResult, LineAfterLine
<1>3. /\ seen'.lines = Append(seen.lines, NextLine) /\ seen.lines \in Seq(Lines("claude"))
      /\ NextLine \in Lines("claude")
  BY <1>1, <1>2 DEF Sees, Locals, NextLine
<1>4. seen'.lines \in Seq(Lines("claude")) /\ NextAt \in 1..Len(seen'.lines) /\ NextLine = seen'.lines[NextAt]
  BY <1>2, <1>3 DEF NextAt
<1>5. UsageEvents(events) = LineSays("claude", seen'.lines, NextAt) /\ (lost <=> LineUnread("claude", NextLine))
  BY <1>4, ClaudeLineTold
<1>6. /\ reader'.partial = (reader.partial \/ lost)
      /\ reader'.malformed = reader.malformed + IF lost THEN 1 ELSE 0
      /\ reader'.changed = reader.changed /\ reader'.error = reader.error
      /\ reader'.position = reader.position + 1
  <2> HIDE DEF lost
  <2>1. QED
    BY <1>1, <1>2, ConsumedResult
<1>7. emitted' = emitted \o LineSays("claude", seen'.lines, NextAt)
  BY <1>1, <1>5 DEF Emit
<1> HIDE DEF lost, events
<1>8. QED
  BY <1>1, <1>2, <1>5, <1>6, <1>7, TellsLine

LEMMA CodexTellsLine ==
  ASSUME LineInv, LineResult, LinesTold, CodexReadsLine
  PROVE  LineResult' /\ LinesTold'
<1> DEFINE event == CodexEvent(NextLine, NextAt)
           failed == event = Codex!MapError
           lost == (TooLarge(NextLine) \/ NextLine.form # "blank") /\ failed
           commands == Codex!RememberCommand(reader.commands, event)
           events == IF failed THEN <<>> ELSE <<Codex!WithCommandResult(commands, event)>>
           consumed == Consumed(NextLine, lost, "after")
<1>1. harness = "codex" /\ reader.buffer # <<>> /\ UNCHANGED harness /\ Sees(NextLine)
      /\ reader' = [consumed EXCEPT !.commands = commands] /\ Emit(events)
  BY DEF CodexReadsLine, Turn
<1>2. Locals /\ IsReader(reader) /\ reader.partial \in BOOLEAN /\ lost \in BOOLEAN /\ harness \in LineAfterLine
      /\ reader.position = Len(seen.lines)
  BY <1>1 DEF LineInv, Locals, LineResult, LineAfterLine
<1>3. /\ seen'.lines = Append(seen.lines, NextLine) /\ seen.lines \in Seq(Lines("codex"))
      /\ NextLine \in Lines("codex")
  BY <1>1, <1>2 DEF Sees, Locals, NextLine
<1>4. seen'.lines \in Seq(Lines("codex")) /\ NextAt \in 1..Len(seen'.lines) /\ NextLine = seen'.lines[NextAt]
  BY <1>2, <1>3 DEF NextAt
<1>5. UsageEvents(events) = LineSays("codex", seen'.lines, NextAt) /\ (lost <=> LineUnread("codex", NextLine))
  BY <1>4, CodexLineTold
<1>6. /\ reader'.partial = (reader.partial \/ lost)
      /\ reader'.malformed = reader.malformed + IF lost THEN 1 ELSE 0
      /\ reader'.changed = reader.changed /\ reader'.error = reader.error
      /\ reader'.position = reader.position + 1
  <2> HIDE DEF lost, commands
  <2>1. /\ consumed.partial = (reader.partial \/ lost)
        /\ consumed.malformed = reader.malformed + IF lost THEN 1 ELSE 0
        /\ consumed.changed = reader.changed /\ consumed.error = reader.error
        /\ consumed.position = reader.position + 1
    BY <1>2, ConsumedResult
  <2>2. IsReader(consumed)
    BY <1>2, ConsumedLine
  <2> HIDE DEF consumed
  <2>3. QED
    BY <1>1, <2>1, <2>2 DEF IsReader, Fields
<1>7. emitted' = emitted \o LineSays("codex", seen'.lines, NextAt)
  BY <1>1, <1>5 DEF Emit
<1> HIDE DEF lost, events, consumed, commands
<1>8. QED
  BY <1>1, <1>2, <1>5, <1>6, <1>7, TellsLine

LEMMA TellingKept ==
  ASSUME LineResult, LinesTold, harness \in LineHarnesses, UNCHANGED harness, Keeps \/ GivesUp
  PROVE  LineResult' /\ LinesTold'
<1>1. /\ reader.partial \in BOOLEAN /\ reader.changed \in BOOLEAN
      /\ reader.malformed \in Nat /\ reader.error \in Errors
      /\ reader.position = Len(seen.lines)
  BY DEF LineResult
<1>2. CASE Keeps
  BY <1>1, <1>2 DEF Keeps, LineResult, LinesTold, Distinct, Positions
<1>3. CASE GivesUp
  <2>1. emitted' = emitted /\ seen'.lines = seen.lines /\ reader'.position = reader.position
    BY <1>3 DEF GivesUp
  <2>2. /\ reader'.partial \in BOOLEAN /\ reader'.changed \in BOOLEAN
        /\ reader'.malformed \in Nat /\ reader'.error \in Errors
    <3>1. reader'.partial = TRUE /\ reader'.malformed \in {0, reader.malformed}
          /\ reader'.changed \in {TRUE, FALSE} /\ reader'.error \in Errors
      BY <1>1, <1>3 DEF GivesUp
    <3>2. reader'.malformed \in Nat
      BY <1>1, <3>1
    <3>3. QED
      BY <3>1, <3>2, Zenon
  <2>3. ~(reader'.error = "none" /\ ~reader'.changed)
    BY <1>3 DEF GivesUp
  <2>4. LineResult'
    BY <1>1, <2>1, <2>2 DEF LineResult
  <2>5. LinesTold'
    BY <2>1, <2>3 DEF LinesTold, Distinct, Positions
  <2>6. QED
    BY <2>4, <2>5
<1>4. QED
  BY <1>2, <1>3

\* Pi's two passes and what lies between them keep the types.
LEMMA PiKeepsResult ==
  ASSUME LineInv, LineResult, harness = "pi", UNCHANGED harness, PiIndexesLine \/ PiAnalyzes \/ PiEmits
  PROVE  LineResult'
<1>0. Locals /\ IsReader(reader)
      /\ seen = [before |-> seen.before, lines |-> seen.lines, passed |-> seen.passed,
                 touched |-> seen.touched, stood |-> seen.stood]
  BY DEF LineInv, LineHarnesses, Locals
<1>1. /\ reader.partial \in BOOLEAN /\ reader.changed \in BOOLEAN
      /\ reader.malformed \in Nat /\ reader.error \in Errors
      /\ reader.position = Len(seen.lines)
  BY DEF LineResult, LineHarnesses
<1>2. CASE PiIndexesLine
  <2>1. PICK lost, headless, index :
          /\ lost \in BOOLEAN /\ headless \in BOOLEAN
          /\ reader' = [Consumed(NextLine, lost, "indexed") EXCEPT !.index = index, !.partial = @ \/ headless]
    <3> DEFINE index == Indexed(reader.index, NextLine, NextAt)
               record == index.records[NextAt]
               lost == record.tooLarge \/ record.malformed
               headless == NextAt = 1 /\ ~record.header
    <3>1. reader' = [Consumed(NextLine, lost, "indexed") EXCEPT !.index = index, !.partial = @ \/ headless]
      BY <1>2 DEF PiIndexesLine
    <3>2. lost \in BOOLEAN /\ headless \in BOOLEAN
      OBVIOUS
    <3> HIDE DEF lost, headless, index
    <3>3. QED
      BY <3>1, <3>2, Zenon
  <2> DEFINE consumed == Consumed(NextLine, lost, "indexed")
  <2>2. /\ consumed.partial = (reader.partial \/ lost)
        /\ consumed.malformed = reader.malformed + IF lost THEN 1 ELSE 0
        /\ consumed.changed = reader.changed /\ consumed.error = reader.error
        /\ consumed.position = reader.position + 1
    BY <1>0, <1>1, <2>1, ConsumedResult
  <2>3. IsReader(consumed)
    BY <1>0, ConsumedLine
  <2> HIDE DEF consumed
  <2>4. /\ reader'.partial = (consumed.partial \/ headless) /\ reader'.malformed = consumed.malformed
        /\ reader'.changed = consumed.changed /\ reader'.error = consumed.error
        /\ reader'.position = consumed.position
    BY <2>1, <2>3 DEF consumed, IsReader, Fields
  <2>5. seen'.lines = Append(seen.lines, NextLine) /\ seen.lines \in Seq(Lines(harness))
        /\ NextLine \in Lines(harness)
    BY <1>0, <1>2 DEF PiIndexesLine, Sees, Locals, NextLine
  <2>6. reader'.position = Len(seen'.lines)
    BY <1>1, <2>2, <2>4, <2>5
  <2>7. reader'.malformed \in Nat
    BY <1>1, <2>2, <2>4
  <2>8. QED
    BY <1>1, <2>2, <2>4, <2>6, <2>7 DEF LineResult
<1>3. CASE PiAnalyzes
  <2> DEFINE more == ~Pi!Supported(reader.index.version) \/ Pi!Irregular(reader.index)
             order == Pi!Order(reader.index.records)
             active == Pi!ActivePath(reader.index)
  <2>1. reader' = [reader EXCEPT !.pc = "emit", !.order = order, !.active = active, !.partial = @ \/ more]
        /\ more \in BOOLEAN
    BY <1>3 DEF PiAnalyzes
  <2> HIDE DEF more, order, active
  <2>2. /\ reader'.partial = (reader.partial \/ more) /\ reader'.malformed = reader.malformed
        /\ reader'.changed = reader.changed /\ reader'.error = reader.error
        /\ reader'.position = reader.position
    BY <1>0, <2>1 DEF IsReader, Fields
  <2>3. QED
    BY <1>1, <1>3, <2>2 DEF LineResult, PiAnalyzes
<1>4. CASE PiEmits
  <2>1. PICK lost \in BOOLEAN :
          reader' = [Marked(lost, IF lost THEN 1 ELSE 0) EXCEPT !.order = Tail(@)]
    <3> DEFINE record == reader.index.records[Head(reader.order)]
               events == IF record.tooLarge THEN <<>> ELSE PiEvents(record)
               lost == ~record.tooLarge /\ events = Pi!MapError
    <3>1. reader' = [Marked(lost, IF lost THEN 1 ELSE 0) EXCEPT !.order = Tail(@)] /\ lost \in BOOLEAN
      BY <1>4 DEF PiEmits
    <3> HIDE DEF lost
    <3>2. QED
      BY <3>1
  <2>2. /\ reader'.partial = (reader.partial \/ lost)
        /\ reader'.malformed = reader.malformed + IF lost THEN 1 ELSE 0
        /\ reader'.changed = reader.changed /\ reader'.error = reader.error
        /\ reader'.position = reader.position
    BY <1>0, <1>1, <2>1 DEF Marked, IsReader, Fields
  <2>3. seen'.lines = seen.lines
    BY <1>0, <1>4 DEF PiEmits
  <2>4. reader'.malformed \in Nat
    BY <1>1, <2>2
  <2>5. QED
    BY <1>1, <2>2, <2>3, <2>4 DEF LineResult
<1>5. QED
  BY <1>2, <1>3, <1>4

LEMMA TellingStep == LineInv /\ LineResult /\ LinesTold /\ [Next]_vars => LineResult' /\ LinesTold'
<1> SUFFICES ASSUME LineInv, LineResult, LinesTold, [Next]_vars PROVE LineResult' /\ LinesTold'
  OBVIOUS
<1>0. harness' = harness
  BY HarnessStays
<1>1. CASE harness \notin LineHarnesses
  BY <1>0, <1>1 DEF LineResult, LinesTold, LineAfterLine
<1>2. CASE harness \in LineHarnesses
  <2>1. CASE Keeps \/ GivesUp
    BY <1>0, <1>2, <2>1, TellingKept
  <2>2. CASE ClaudeReadsLine
    BY <2>2, ClaudeTellsLine
  <2>3. CASE CodexReadsLine
    BY <2>3, CodexTellsLine
  <2>4. CASE PiIndexesLine \/ PiAnalyzes \/ PiEmits
    <3>1. harness = "pi"
      BY <2>4 DEF PiIndexesLine, PiAnalyzes, PiEmits, Turn
    <3>2. LinesTold'
      BY <1>0, <3>1 DEF LinesTold, LineAfterLine
    <3>3. QED
      BY <1>0, <2>4, <3>1, <3>2, PiKeepsResult
  <2>5. QED
    BY <1>2, <2>1, <2>2, <2>3, <2>4, LineMoves
<1>3. QED
  BY <1>1, <1>2

LEMMA TellingAlways == Spec => [](LineInv /\ LineResult /\ LinesTold)
<1>1. Init => LineInv /\ LineResult /\ LinesTold
  BY LineInit, TellingStarts
<1>2. LineInv /\ LineResult /\ LinesTold /\ [Next]_vars => (LineInv /\ LineResult /\ LinesTold)'
  BY LineStep, TellingStep
<1>3. QED
  BY <1>1, <1>2, PTL DEF Spec

\* What Claude Code and Codex wrote comes out whole, in the order of the lines,
\* and the result is partial exactly when one of the lines was lost.
SnapshotTold ==
  harness \in LineAfterLine /\ Undisturbed =>
    /\ emitted = FlattenSeq(ToldBy(harness, seen.before))
    /\ reader.partial <=> SomeUnread(harness, seen.before)

LEMMA LinesAreWhole == Spec => []SnapshotTold
<1>1. LineInv /\ LineResult /\ LinesTold => SnapshotTold
  <2> SUFFICES ASSUME LineInv, LinesTold, harness \in LineAfterLine, Undisturbed PROVE SnapshotTold
    BY DEF SnapshotTold
  <2>1. harness \in LineHarnesses /\ reader.error = "none" /\ ~reader.changed /\ seen.stood /\ reader.pc = "done"
    BY DEF LineAfterLine, Undisturbed, Returned, Done, Running
  <2>2. seen.lines = seen.before
    BY <2>1 DEF LineInv, Snapshot
  <2>3. QED
    BY <2>1, <2>2 DEF LinesTold, SnapshotTold
<1>2. QED
  BY <1>1, TellingAlways, PTL

(***************************************************************************)
(* Pi's tree of entries.  Its order, its roots and its paths are computed  *)
(* by recursive functions, one step for each record.                       *)
(***************************************************************************)

\* A step taken again and again.
Iterates(f, first, next, n) ==
  DOMAIN f = 0..n /\ f[0] = first /\ \A i \in 1..n : f[i] = next[f[i - 1]]

Within(f, n, S) == \A i \in 0..n : f[i] \in S

LEMMA IterationExists ==
  ASSUME NEW S, NEW first \in S, NEW next \in [S -> S], NEW n \in Nat
  PROVE  \E f : Iterates(f, first, next, n) /\ Within(f, n, S)
<1> DEFINE Good == {m \in Nat : \E f : Iterates(f, first, next, m) /\ Within(f, m, S)}
<1>1. 0 \in Good
  <2> DEFINE f == [i \in 0..0 |-> first]
  <2>1. Iterates(f, first, next, 0) /\ Within(f, 0, S)
    BY DEF Iterates, Within
  <2>2. QED
    BY <2>1
<1>2. ASSUME NEW m \in Nat, m \in Good PROVE m + 1 \in Good
  <2>1. PICK f : Iterates(f, first, next, m) /\ Within(f, m, S)
    BY <1>2
  <2> DEFINE last == next[f[m]]
             g == [i \in 0..(m + 1) |-> IF i = m + 1 THEN last ELSE f[i]]
  <2>2. f[m] \in S /\ last \in S
    BY <2>1 DEF Within
  <2> HIDE DEF last
  <2>3. DOMAIN g = 0..(m + 1) /\ g[m + 1] = last /\ \A i \in 0..m : g[i] = f[i]
    OBVIOUS
  <2> HIDE DEF g
  <2>4. ASSUME NEW i \in 1..(m + 1) PROVE g[i] = next[g[i - 1]]
    <3>1. CASE i = m + 1
      BY <2>3, <3>1 DEF last
    <3>2. CASE i # m + 1
      <4>1. i \in 1..m /\ i \in 0..m /\ i - 1 \in 0..m
        BY <3>2
      <4>2. QED
        BY <2>1, <2>3, <4>1 DEF Iterates
    <3>3. QED
      BY <3>1, <3>2
  <2>5. g[0] = first
    BY <2>1, <2>3 DEF Iterates
  <2>6. Within(g, m + 1, S)
    <3>1. \A i \in 0..(m + 1) : i = m + 1 \/ i \in 0..m
      OBVIOUS
    <3>2. QED
      BY <2>1, <2>2, <2>3, <3>1 DEF Within
  <2>7. Iterates(g, first, next, m + 1)
    BY <2>3, <2>4, <2>5 DEF Iterates
  <2>8. m + 1 \in Nat
    OBVIOUS
  <2>9. QED
    BY <2>6, <2>7, <2>8
<1>3. n \in Good
  <2>1. Inductive(Good, n)
    BY <1>1, <1>2 DEF Inductive
  <2> HIDE DEF Good
  <2>2. QED
    BY <2>1, Upward
<1>4. QED
  BY <1>3

LEMMA PiAscendingIs == ASSUME NEW S PROVE Pi!Ascending(S) = Ascending(S)
BY Zenon DEF Pi!Ascending, Ascending, Pi!Arranged, Arranged, Pi!Cardinality, Cardinality

\* The steps of Topological.
PiBody(records) == {i \in DOMAIN records : ~records[i].header}

PiReady(records, passed) ==
  {i \in PiBody(records) \ passed :
     i \in Pi!Owners(records) => [k \in Pi!Owners(records) |-> Pi!ParentOf(records, k)][i] \in passed \cup {0}}

PiPop(records, s) ==
  IF PiReady(records, Pi!ToSet(s)) = {} THEN s
  ELSE Append(s, CHOOSE i \in PiReady(records, Pi!ToSet(s)) : \A j \in PiReady(records, Pi!ToSet(s)) : i <= j)

IsPopping(f, records) ==
  f = [n \in 0..Len(records) |-> IF n = 0 THEN <<>> ELSE PiPop(records, f[n - 1])]

LEMMA TopologicalIs ==
  ASSUME NEW records
  PROVE  Pi!Topological(records) = (CHOOSE f : IsPopping(f, records))[Len(records)]
BY DEF Pi!Topological, IsPopping, PiPop, PiReady, PiBody

PiNamed(records, id) == {j \in Pi!Owners(records) : records[j].id = id}

\* The steps of ActivePath.
PiLeaf(index) ==
  IF index.leaf = "" THEN {j \in Pi!Owners(index.records) : \A k \in Pi!Owners(index.records) : k <= j}
  ELSE PiNamed(index.records, index.leaf)

PiUp(records, above) == above \cup UNION {PiNamed(records, records[i].parent) : i \in above}

IsClimbing(f, index) ==
  f = [n \in 0..Len(index.records) |-> IF n = 0 THEN PiLeaf(index) ELSE PiUp(index.records, f[n - 1])]

LEMMA ActivePathIs ==
  ASSUME NEW index
  PROVE  LET path == (CHOOSE f : IsClimbing(f, index))[Len(index.records)]
         IN Pi!ActivePath(index) = IF \E i \in path : index.records[i].parent = "" THEN path ELSE {}
BY DEF Pi!ActivePath, IsClimbing, PiUp, PiLeaf, PiNamed

(***************************************************************************)
(* An index: its header, if it has one, is the first record, and what has  *)
(* an identifier is an entry that could be read.                           *)
(***************************************************************************)

IsIndex(records, n) ==
  /\ n \in Nat /\ DOMAIN records = 1..n /\ Len(records) = n
  /\ \A i \in 1..n : records[i].header => i = 1
  /\ \A i \in 1..n : records[i].header \/ records[i].tooLarge \/ records[i].malformed => records[i].id = ""

PiTree(records) == {i \in DOMAIN records : records[i].id # ""}
PiFirst(records, i) == \A j \in PiTree(records) : records[j].id = records[i].id => i <= j

LEMMA OwnersAre ==
  ASSUME NEW n, NEW records, IsIndex(records, n)
  PROVE  /\ Pi!Owners(records) = {i \in PiTree(records) : PiFirst(records, i)}
         /\ Pi!Owners(records) \subseteq 1..n /\ Pi!Owners(records) \subseteq PiBody(records)
         /\ PiBody(records) \subseteq 1..n
         /\ \A i, j \in Pi!Owners(records) : records[i].id = records[j].id => i = j
<1> DEFINE O == Pi!Owners(records)
<1>1. \A i \in 1..n : Pi!InTree(records[i]) <=> i \in PiTree(records)
  BY DEF IsIndex, PiTree, Pi!InTree
<1>2. O = {i \in 1..n : Pi!InTree(records[i]) /\ \A j \in 1..(i - 1) : Pi!InTree(records[j]) => records[j].id # records[i].id}
  BY DEF Pi!Owners, IsIndex
<1>3. PiTree(records) \subseteq 1..n /\ n \in Nat /\ DOMAIN records = 1..n
  BY DEF PiTree, IsIndex
<1> HIDE DEF O
<1>4. ASSUME NEW i \in O PROVE i \in PiTree(records) /\ PiFirst(records, i)
  <2>1. i \in 1..n /\ i \in PiTree(records)
    BY <1>1, <1>2
  <2>2. ASSUME NEW j \in PiTree(records), records[j].id = records[i].id PROVE i <= j
    <3>1. j \in 1..n /\ Pi!InTree(records[j])
      BY <1>1, <1>3
    <3>2. j \notin 1..(i - 1)
      BY <1>2, <2>2, <3>1
    <3>3. QED
      BY <1>3, <2>1, <3>1, <3>2
  <2>3. QED
    BY <2>1, <2>2 DEF PiFirst
<1>5. ASSUME NEW i \in PiTree(records), PiFirst(records, i) PROVE i \in O
  <2>1. i \in 1..n /\ Pi!InTree(records[i])
    BY <1>1, <1>3
  <2>2. ASSUME NEW j \in 1..(i - 1), Pi!InTree(records[j]) PROVE records[j].id # records[i].id
    <3>1. j \in 1..n /\ j \in PiTree(records) /\ ~(i <= j)
      BY <1>1, <1>3, <2>1, <2>2
    <3>2. QED
      BY <1>5, <3>1 DEF PiFirst
  <2>3. QED
    BY <1>2, <2>1, <2>2
<1>6. O = {i \in PiTree(records) : PiFirst(records, i)}
  BY <1>4, <1>5
<1>7. ASSUME NEW i \in O, NEW j \in O, records[i].id = records[j].id PROVE i = j
  <2>1. i \in PiTree(records) /\ j \in PiTree(records) /\ i \in 1..n /\ j \in 1..n
    BY <1>3, <1>4
  <2>2. i <= j /\ j <= i
    BY <1>4, <1>7, <2>1 DEF PiFirst
  <2>3. QED
    BY <1>3, <2>1, <2>2
<1>8. PiBody(records) \subseteq 1..n
  BY <1>3 DEF PiBody
<1>9. O \subseteq 1..n /\ O \subseteq PiBody(records)
  BY <1>2, <1>3 DEF PiBody, Pi!InTree
<1>10. QED
  BY <1>6, <1>7, <1>8, <1>9 DEF O

\* The parent of a record, if it has one: no identifier is empty.
PiParents(records, i) == PiNamed(records, records[i].parent)

LEMMA ParentIs ==
  ASSUME NEW n, NEW records, IsIndex(records, n), NEW i
  PROVE  IF Pi!ParentOf(records, i) = 0 THEN PiParents(records, i) = {}
         ELSE PiParents(records, i) = {Pi!ParentOf(records, i)}
<1> DEFINE named == PiParents(records, i)
           O == Pi!Owners(records)
<1>1. Pi!ParentOf(records, i) = IF records[i].parent = "" \/ named = {} THEN 0 ELSE CHOOSE j \in named : TRUE
  BY DEF Pi!ParentOf, PiParents, PiNamed
<1>2. \A j \in O : j \in 1..n /\ records[j].id # ""
  BY OwnersAre DEF PiTree
<1>3. records[i].parent = "" => named = {}
  BY <1>2 DEF PiParents, PiNamed
<1>4. \A j, k \in named : j = k
  <2>1. \A j \in named : j \in O /\ records[j].id = records[i].parent
    BY DEF PiParents, PiNamed
  <2>2. \A j, k \in O : records[j].id = records[k].id => j = k
    BY OwnersAre
  <2>3. QED
    BY <2>1, <2>2
<1>5. \A j \in named : j # 0
  <2>1. n \in Nat
    BY DEF IsIndex
  <2> HIDE DEF O
  <2>2. ASSUME NEW j \in O PROVE j # 0
    <3>1. j \in 1..n
      BY <1>2
    <3>2. QED
      BY <2>1, <3>1
  <2>3. QED
    BY <2>2 DEF PiParents, PiNamed, O
<1> HIDE DEF named
<1>6. CASE named = {}
  BY <1>1, <1>6 DEF named
<1>7. CASE named # {}
  <2>1. Pi!ParentOf(records, i) \in named
    BY <1>1, <1>3, <1>7
  <2>2. Pi!ParentOf(records, i) # 0 /\ named = {Pi!ParentOf(records, i)}
    BY <1>4, <1>5, <2>1
  <2>3. QED
    BY <2>2 DEF named
<1>8. QED
  BY <1>6, <1>7

\* What is ready when passed has been passed.
LEMMA ReadyIs ==
  ASSUME NEW n, NEW records, IsIndex(records, n), NEW passed
  PROVE  /\ PiReady(records, passed) =
              {i \in PiBody(records) \ passed : i \in Pi!Owners(records) => PiParents(records, i) \subseteq passed}
         /\ PiReady(records, passed) \in SUBSET (1..n)
<1>1. ASSUME NEW i \in Pi!Owners(records)
      PROVE  [k \in Pi!Owners(records) |-> Pi!ParentOf(records, k)][i] \in passed \cup {0}
                <=> PiParents(records, i) \subseteq passed
  <2>1. [k \in Pi!Owners(records) |-> Pi!ParentOf(records, k)][i] = Pi!ParentOf(records, i)
    OBVIOUS
  <2>2. IF Pi!ParentOf(records, i) = 0 THEN PiParents(records, i) = {}
        ELSE PiParents(records, i) = {Pi!ParentOf(records, i)}
    BY ParentIs
  <2>3. QED
    BY <2>1, <2>2
<1>2. PiBody(records) \subseteq 1..n
  BY OwnersAre
<1>3. QED
  BY <1>1, <1>2 DEF PiReady

\* The heap gives the first of the records that are ready.
LEMMA PopIs ==
  ASSUME NEW n, NEW records, IsIndex(records, n), NEW s
  PROVE  \/ PiReady(records, Pi!ToSet(s)) = {} /\ PiPop(records, s) = s
         \/ \E x \in PiReady(records, Pi!ToSet(s)) :
              /\ \A j \in PiReady(records, Pi!ToSet(s)) : x <= j
              /\ PiPop(records, s) = Append(s, x)
<1> DEFINE ready == PiReady(records, Pi!ToSet(s))
           x == CHOOSE i \in ready : \A j \in ready : i <= j
<1>1. ready \in SUBSET (1..n) /\ n \in Nat
  BY ReadyIs DEF IsIndex
<1>2. PiPop(records, s) = IF ready = {} THEN s ELSE Append(s, x)
  BY DEF PiPop
<1>3. ready # {} => x \in ready /\ \A j \in ready : x <= j
  <2> HIDE DEF ready
  <2> SUFFICES ASSUME ready # {} PROVE \E i \in ready : \A j \in ready : i <= j
    OBVIOUS
  <2>1. ready \in SUBSET Nat
    BY <1>1
  <2>2. QED
    BY <2>1, LeastNumber
<1> HIDE DEF ready, x
<1>4. QED
  BY <1>2, <1>3 DEF ready

\* What has been popped: every record once, none before its parent.
Popped(records, s) ==
  /\ s \in Seq(PiBody(records)) /\ Once(s, Len(s))
  /\ \A p \in 1..Len(s) : s[p] \in Pi!Owners(records) =>
       \A j \in PiParents(records, s[p]) : \E q \in 1..(p - 1) : s[q] = j

LEMMA PopKeeps ==
  ASSUME NEW n, NEW records, IsIndex(records, n), NEW s, Popped(records, s)
  PROVE  /\ Popped(records, PiPop(records, s))
         /\ \/ PiPop(records, s) = s /\ PiReady(records, Pi!ToSet(s)) = {}
            \/ Len(PiPop(records, s)) = Len(s) + 1
<1> DEFINE next == PiPop(records, s)
           ready == PiReady(records, Pi!ToSet(s))
<1>1. CASE ready = {} /\ next = s
  BY <1>1
<1>2. ASSUME NEW x \in ready, next = Append(s, x)
      PROVE  Popped(records, next) /\ Len(next) = Len(s) + 1
  <2> DEFINE k == Len(s)
  <2>1. s \in Seq(PiBody(records)) /\ k \in Nat
    BY DEF Popped
  <2>2. Pi!ToSet(s) = {s[i] : i \in 1..k}
    BY <2>1, PiToSetIs
  <2>3. /\ x \in PiBody(records) /\ x \notin Pi!ToSet(s)
        /\ x \in Pi!Owners(records) => PiParents(records, x) \subseteq Pi!ToSet(s)
    <3>1. ready = {i \in PiBody(records) \ Pi!ToSet(s) :
                     i \in Pi!Owners(records) => PiParents(records, i) \subseteq Pi!ToSet(s)}
      BY ReadyIs
    <3> HIDE DEF ready
    <3>2. QED
      BY <1>2, <3>1
  <2> HIDE DEF next, ready
  <2>4. next \in Seq(PiBody(records)) /\ Len(next) = k + 1 /\ next[k + 1] = x /\ \A i \in 1..k : next[i] = s[i]
    BY <1>2, <2>1, <2>3
  <2>5. \A i \in 1..(k + 1) : i \in 1..k \/ i = k + 1
    BY <2>1
  <2>6. Once(next, k + 1)
    <3>1. Once(s, k) /\ \A i \in 1..k : s[i] # x
      BY <2>2, <2>3 DEF Popped
    <3>2. QED
      BY <2>4, <2>5, <3>1 DEF Once
  <2>7. ASSUME NEW p \in 1..(k + 1), next[p] \in Pi!Owners(records), NEW j \in PiParents(records, next[p])
        PROVE  \E q \in 1..(p - 1) : next[q] = j
    <3>1. CASE p \in 1..k
      <4>1. PICK q \in 1..(p - 1) : s[q] = j
        BY <2>4, <2>7, <3>1 DEF Popped
      <4>2. q \in 1..k
        BY <2>1, <3>1
      <4>3. QED
        BY <2>4, <4>1, <4>2
    <3>2. CASE p = k + 1
      <4>1. j \in Pi!ToSet(s)
        BY <2>3, <2>4, <2>7, <3>2
      <4>2. PICK q \in 1..k : s[q] = j
        BY <2>2, <4>1
      <4>3. q \in 1..(p - 1)
        BY <2>1, <3>2
      <4>4. QED
        BY <2>4, <4>2, <4>3
    <3>3. QED
      BY <2>5, <3>1, <3>2
  <2>8. QED
    BY <2>4, <2>6, <2>7 DEF Popped
<1>3. \/ ready = {} /\ next = s
      \/ \E x \in ready : next = Append(s, x)
  BY PopIs
<1> HIDE DEF next, ready
<1>4. CASE \E x \in ready : next = Append(s, x)
  <2>1. Popped(records, next) /\ Len(next) = Len(s) + 1
    BY <1>2, <1>4
  <2>2. QED
    BY <2>1 DEF next
<1>5. QED
  BY <1>1, <1>3, <1>4 DEF next, ready

\* Topological is where the steps end.
Popping(f, records, n) == f[0] = <<>> /\ \A i \in Nat : i < n => f[i + 1] = PiPop(records, f[i])

LEMMA PoppingIs ==
  ASSUME NEW n, NEW records, IsIndex(records, n)
  PROVE  \E f : Popping(f, records, n) /\ Pi!Topological(records) = f[n]
<1> DEFINE B == PiBody(records)
           S == {s \in Seq(B) : Popped(records, s)}
           next == [s \in S |-> PiPop(records, s)]
           f == CHOOSE f : IsPopping(f, records)
<1>0. n \in Nat /\ Len(records) = n /\ B \subseteq 1..n
  BY OwnersAre DEF IsIndex
<1>1. <<>> \in S
  BY DEF Popped, Once
<1>2. next \in [S -> S]
  <2>1. ASSUME NEW s \in S PROVE PiPop(records, s) \in S
    <3>1. Popped(records, PiPop(records, s))
      BY PopKeeps
    <3>2. QED
      BY <3>1 DEF Popped
  <2>2. QED
    BY <2>1
<1>3. \A s \in S : next[s] = PiPop(records, s)
  OBVIOUS
<1>4. \A s \in S : Popped(records, s)
  OBVIOUS
<1> HIDE DEF next, S
<1>5. PICK g : Iterates(g, <<>>, next, n) /\ Within(g, n, S)
  BY <1>0, <1>1, <1>2, IterationExists
<1>6. IsPopping([i \in 0..n |-> g[i]], records)
  <2> DEFINE h == [i \in 0..n |-> g[i]]
  <2>1. ASSUME NEW i \in 0..n PROVE h[i] = IF i = 0 THEN <<>> ELSE PiPop(records, h[i - 1])
    <3>1. CASE i = 0
      BY <1>0, <1>5, <3>1 DEF Iterates
    <3>2. CASE i # 0
      <4>1. i \in 1..n /\ i - 1 \in 0..n
        BY <1>0, <3>2
      <4>2. h[i] = next[g[i - 1]] /\ g[i - 1] \in S /\ h[i - 1] = g[i - 1]
        BY <1>5, <4>1 DEF Iterates, Within
      <4> HIDE DEF h
      <4>3. QED
        BY <1>3, <3>2, <4>2
    <3>3. QED
      BY <3>1, <3>2
  <2>2. h = [i \in 0..n |-> h[i]]
    OBVIOUS
  <2> HIDE DEF h
  <2>3. h = [i \in 0..n |-> IF i = 0 THEN <<>> ELSE PiPop(records, h[i - 1])]
    BY <2>1, <2>2
  <2>4. QED
    BY <1>0, <2>3 DEF IsPopping, h
<1>7. IsPopping(f, records)
  BY <1>6
<1>8. /\ f[0] = <<>>
      /\ \A i \in Nat : i < n => f[i + 1] = PiPop(records, f[i])
  <2> HIDE DEF f
  <2>1. f = [i \in 0..n |-> IF i = 0 THEN <<>> ELSE PiPop(records, f[i - 1])]
    BY <1>0, <1>7 DEF IsPopping
  <2>2. f[0] = <<>>
    BY <1>0, <2>1
  <2>3. ASSUME NEW i \in Nat, i < n PROVE f[i + 1] = PiPop(records, f[i])
    <3> DEFINE k == i + 1
    <3>1. k \in 0..n /\ k # 0 /\ k - 1 = i
      BY <1>0, <2>3
    <3> HIDE DEF k
    <3>2. f[k] = IF k = 0 THEN <<>> ELSE PiPop(records, f[k - 1])
      BY <2>1, <3>1
    <3>3. f[k] = PiPop(records, f[i])
      BY <3>1, <3>2, Zenon
    <3>4. QED
      BY <3>3 DEF k
  <2>4. QED
    BY <2>2, <2>3
<1>9. Pi!Topological(records) = f[n]
  BY <1>0, TopologicalIs
<1>10. QED
  BY <1>8, <1>9 DEF Popping

\* What every step keeps holds at the end.
PopClosed(records, S) == <<>> \in S /\ \A s \in S : PiPop(records, s) \in S

LEMMA PoppingKeeps ==
  ASSUME NEW n, NEW records, IsIndex(records, n), NEW S, PopClosed(records, S)
  PROVE  Pi!Topological(records) \in S
<1>1. PICK f : Popping(f, records, n) /\ Pi!Topological(records) = f[n]
  BY PoppingIs
<1>2. n \in Nat
  BY DEF IsIndex
<1> DEFINE Good == {i \in Nat : f[i] \in S}
<1>3. Inductive(Good, n)
  BY <1>1 DEF Popping, PopClosed, Inductive
<1>4. n \in Good
  <2> HIDE DEF Good
  <2>1. QED
    BY <1>2, <1>3, Upward
<1>5. QED
  BY <1>1, <1>4

\* The heap runs empty: nothing is ready that has not been passed.
LEMMA TopologicalOrders ==
  ASSUME NEW n, NEW records, IsIndex(records, n)
  PROVE  LET sorted == Pi!Topological(records)
         IN  Popped(records, sorted) /\ PiReady(records, Pi!ToSet(sorted)) = {}
<1> DEFINE B == PiBody(records)
<1>0. n \in Nat /\ Len(records) = n /\ B \subseteq 1..n
  BY OwnersAre DEF IsIndex
<1>1. PICK f : Popping(f, records, n) /\ Pi!Topological(records) = f[n]
  BY PoppingIs
<1>8. /\ f[0] = <<>>
      /\ \A i \in Nat : i < n => f[i + 1] = PiPop(records, f[i])
  BY <1>1 DEF Popping
<1>9. Pi!Topological(records) = f[n]
  BY <1>1
<1> DEFINE Good == {i \in Nat : Popped(records, f[i]) /\ (Len(f[i]) = i \/ PiReady(records, Pi!ToSet(f[i])) = {})}
<1>10. Inductive(Good, n)
  <2>1. 0 \in Good
    <3>1. Popped(records, <<>>) /\ Len(<<>>) = 0
      BY DEF Popped, Once
    <3>2. QED
      BY <1>8, <3>1
  <2>2. ASSUME NEW i \in Nat, i < n, i \in Good PROVE i + 1 \in Good
    <3>1. f[i + 1] = PiPop(records, f[i])
      BY <1>8, <2>2
    <3>2. Popped(records, f[i + 1])
      BY <2>2, <3>1, PopKeeps
    <3>3. \/ f[i + 1] = f[i] /\ PiReady(records, Pi!ToSet(f[i])) = {}
          \/ Len(f[i + 1]) = Len(f[i]) + 1
      BY <2>2, <3>1, PopKeeps
    <3>4. CASE f[i + 1] = f[i] /\ PiReady(records, Pi!ToSet(f[i])) = {}
      BY <2>2, <3>2, <3>4
    <3>5. CASE Len(f[i + 1]) = Len(f[i]) + 1 /\ f[i + 1] # f[i]
      <4>1. Len(f[i]) = i
        <5>1. PiReady(records, Pi!ToSet(f[i])) # {}
          <6>1. \/ PiReady(records, Pi!ToSet(f[i])) = {} /\ PiPop(records, f[i]) = f[i]
                \/ \E x \in PiReady(records, Pi!ToSet(f[i])) :
                      /\ \A j \in PiReady(records, Pi!ToSet(f[i])) : x <= j
                      /\ PiPop(records, f[i]) = Append(f[i], x)
            BY PopIs
          <6>2. QED
            BY <3>1, <3>5, <6>1
        <5>2. QED
          BY <2>2, <5>1
      <4>2. QED
        BY <3>2, <3>5, <4>1
    <3>6. QED
      BY <3>3, <3>4, <3>5
  <2> HIDE DEF Good
  <2>3. QED
    BY <2>1, <2>2 DEF Inductive
<1>11. n \in Good
  <2> HIDE DEF Good
  <2>1. QED
    BY <1>0, <1>10, Upward
<1>12. ASSUME Len(f[n]) = n PROVE PiReady(records, Pi!ToSet(f[n])) = {}
  <2> DEFINE s == f[n]
  <2>1. s \in Seq(B) /\ Once(s, n) /\ Len(s) = n
    BY <1>11, <1>12 DEF Popped
  <2>2. Into(s, n, n)
    BY <1>0, <2>1 DEF Into
  <2>3. \A x \in 1..n : \E i \in 1..n : s[i] = x
    <3> HIDE DEF s
    <3>1. QED
      BY <1>0, <2>1, <2>2, FitsIn
  <2>4. Pi!ToSet(s) = {s[i] : i \in 1..n}
    BY <2>1, PiToSetIs
  <2>5. B \ Pi!ToSet(s) = {}
    BY <1>0, <2>3, <2>4
  <2>6. QED
    BY <2>5 DEF PiReady
<1>13. QED
  BY <1>9, <1>11, <1>12

(***************************************************************************)
(* The order: the header, what was popped, and what a cycle holds back.    *)
(***************************************************************************)

\* Sorted numbers: each once.
LEMMA AscendingOnce ==
  ASSUME NEW n \in Nat, NEW S \in SUBSET (1..n)
  PROVE  /\ Pi!Ascending(S) \in Seq(1..n) /\ Once(Pi!Ascending(S), Len(Pi!Ascending(S)))
         /\ ToSet(Pi!Ascending(S)) = S
<1> DEFINE sorted == Ascending(S)
           k == Cardinality(S)
<1>0. IsFiniteSet(S) /\ S \in SUBSET Nat
  <2>1. IsFiniteSet(1..n)
    BY NumbersTo
  <2>2. IsFiniteSet(S)
    BY <2>1, FS_Subset
  <2>3. S \in SUBSET Nat
    OBVIOUS
  <2>4. QED
    BY <2>2, <2>3
<1>1. /\ k \in Nat /\ DOMAIN sorted = 1..k /\ sorted \in Seq(S) /\ Len(sorted) = k
      /\ \A s \in S : \E i \in 1..k : sorted[i] = s
      /\ \A i, j \in 1..k : i < j => sorted[i] < sorted[j]
  BY <1>0, AscendingIs
<1>2. Pi!Ascending(S) = sorted
  BY PiAscendingIs
<1> HIDE DEF sorted, k
<1>3. \A i \in 1..k : sorted[i] \in S
  BY <1>1
<1>4. sorted \in Seq(1..n)
  <2> DEFINE N == 1..n
  <2>1. S \subseteq N
    OBVIOUS
  <2> HIDE DEF N
  <2>2. sorted \in [1..k -> N]
    <3>1. sorted \in [1..k -> S]
      BY <1>1
    <3>2. QED
      BY <2>1, <3>1
  <2>3. sorted \in Seq(N)
    BY <1>1, <2>2
  <2>4. QED
    BY <2>3 DEF N
<1>5. ASSUME NEW i \in 1..k, NEW j \in 1..k, sorted[i] = sorted[j] PROVE i = j
  <2>1. sorted[i] \in Nat /\ sorted[j] \in Nat
    BY <1>0, <1>3
  <2>2. ~(i < j) /\ ~(j < i)
    BY <1>1, <1>5, <2>1
  <2>3. QED
    BY <1>1, <2>2
<1>6. ToSet(sorted) = S
  <2>1. ToSet(sorted) = {sorted[i] : i \in 1..k}
    BY <1>1, PiToSetIs
  <2>2. QED
    BY <1>1, <1>3, <2>1
<1>7. QED
  BY <1>1, <1>2, <1>4, <1>5, <1>6 DEF Once

Headers(records) == {i \in DOMAIN records : records[i].header}

LEMMA OrderIs ==
  ASSUME NEW n, NEW records, IsIndex(records, n)
  PROVE  LET sorted == Pi!Topological(records)
             headers == Pi!Ascending(Headers(records))
             cyclic == Pi!Ascending(Pi!Owners(records) \ ToSet(sorted))
             order == Pi!Order(records)
         IN  /\ order = (headers \o sorted) \o cyclic
             /\ headers \in Seq(1..n) /\ sorted \in Seq(1..n) /\ cyclic \in Seq(1..n)
             /\ order \in Seq(1..n) /\ Len(order) = n /\ Once(order, n) /\ ToSet(order) = 1..n
<1> DEFINE sorted == Pi!Topological(records)
           H == Headers(records)
           C == Pi!Owners(records) \ ToSet(sorted)
           headers == Pi!Ascending(H)
           cyclic == Pi!Ascending(C)
           order == Pi!Order(records)
           B == PiBody(records)
<1>0. n \in Nat /\ DOMAIN records = 1..n /\ B \subseteq 1..n /\ Pi!Owners(records) \subseteq B
  BY OwnersAre DEF IsIndex
<1>1. Popped(records, sorted) /\ PiReady(records, Pi!ToSet(sorted)) = {}
  BY TopologicalOrders
<1>2. sorted \in Seq(B) /\ Once(sorted, Len(sorted))
  BY <1>1 DEF Popped
<1>3. sorted \in Seq(1..n) /\ ToSet(sorted) \subseteq B /\ Pi!ToSet(sorted) = ToSet(sorted)
  <2> HIDE DEF sorted, B
  <2>1. ToSet(sorted) = {sorted[i] : i \in 1..Len(sorted)} /\ Pi!ToSet(sorted) = ToSet(sorted)
    BY <1>2, PiToSetIs
  <2>2. Len(sorted) \in Nat /\ sorted \in [1..Len(sorted) -> B]
    BY <1>2
  <2> DEFINE N == 1..n
  <2>3. B \subseteq N
    BY <1>0
  <2> HIDE DEF N
  <2>4. sorted \in [1..Len(sorted) -> N]
    BY <2>2, <2>3
  <2>5. sorted \in Seq(N)
    BY <2>2, <2>4
  <2>6. QED
    BY <2>1, <2>2, <2>5 DEF N
<1>4. order = (headers \o sorted) \o cyclic
  BY <1>3 DEF Pi!Order, Headers
<1>5. H \in SUBSET (1..n) /\ C \in SUBSET (1..n) /\ H \cap B = {} /\ H \cup B = 1..n
  BY <1>0 DEF Headers, PiBody
<1>6. /\ headers \in Seq(1..n) /\ Once(headers, Len(headers)) /\ ToSet(headers) = H
      /\ cyclic \in Seq(1..n) /\ Once(cyclic, Len(cyclic)) /\ ToSet(cyclic) = C
  <2> HIDE DEF H, C
  <2>1. QED
    BY <1>0, <1>5, AscendingOnce
<1>7. B \subseteq ToSet(sorted) \cup C
  <2>1. \A i \in B : i \notin ToSet(sorted) => i \in Pi!Owners(records)
    <3>1. PiReady(records, ToSet(sorted)) = {}
      BY <1>1, <1>3
    <3>2. QED
      BY <3>1 DEF PiReady
  <2>2. QED
    BY <2>1
<1>8. H \cap ToSet(sorted) = {} /\ (H \cup ToSet(sorted)) \cap C = {}
  BY <1>0, <1>3, <1>5
<1> HIDE DEF headers, sorted, cyclic, order, H, C, B
<1>9. /\ headers \o sorted \in Seq(1..n) /\ Once(headers \o sorted, Len(headers \o sorted))
      /\ ToSet(headers \o sorted) = H \cup ToSet(sorted)
  <2>1. ToSet(headers) \cap ToSet(sorted) = {}
    BY <1>6, <1>8
  <2>2. QED
    BY <1>2, <1>3, <1>6, <2>1, OnceConcat
<1>10. /\ order \in Seq(1..n) /\ Once(order, Len(order))
       /\ ToSet(order) = (H \cup ToSet(sorted)) \cup C
  <2> DEFINE front == headers \o sorted
  <2>1. ToSet(front) \cap ToSet(cyclic) = {}
    BY <1>6, <1>8, <1>9
  <2>2. front \in Seq(1..n) /\ Once(front, Len(front)) /\ order = front \o cyclic /\ ToSet(front) = H \cup ToSet(sorted)
    BY <1>4, <1>9
  <2> HIDE DEF front
  <2>3. QED
    BY <1>6, <2>1, <2>2, OnceConcat
<1>11. ToSet(order) = 1..n
  BY <1>3, <1>5, <1>7, <1>10
<1>12. Len(order) = n
  <2>1. Len(order) \in Nat /\ Into(order, Len(order), n)
    BY <1>0, <1>10 DEF Into
  <2>2. ToSet(order) = {order[i] : i \in 1..Len(order)}
    BY <1>10, PiToSetIs
  <2>3. \A x \in 1..n : \E i \in 1..Len(order) : order[i] = x
    BY <1>11, <2>2
  <2>4. QED
    BY <1>0, <1>10, <2>1, <2>3, FitsIn
<1>13. QED
  BY <1>3, <1>4, <1>6, <1>10, <1>11, <1>12 DEF headers, sorted, cyclic, order, H, C

\* Parents that come before their children: the order is that of the file.
LEMMA OrderedAlready ==
  ASSUME NEW n, NEW records, IsIndex(records, n),
         \A i \in Pi!Owners(records) : \A j \in PiParents(records, i) : j < i
  PROVE  \A i \in 1..n : Pi!Order(records)[i] = i
<1> DEFINE T == Pi!Topological(records)
           B == PiBody(records)
           O == Pi!Owners(records)
           headers == Pi!Ascending(Headers(records))
           cyclic == Pi!Ascending(O \ ToSet(T))
           order == Pi!Order(records)
           h == IF \E i \in 1..n : records[i].header THEN 1 ELSE 0
           S == {s \in Seq(B) : \A p \in 1..Len(s) : s[p] = h + p}
<1>0. n \in Nat /\ DOMAIN records = 1..n /\ O \subseteq B /\ B \subseteq 1..n
  BY OwnersAre DEF IsIndex
<1>1. h \in {0, 1} /\ (h = 1 => Headers(records) = {1}) /\ (h = 0 => Headers(records) = {})
      /\ B = (h + 1)..n
  <2>1. \A i \in 1..n : records[i].header => i = 1
    BY DEF IsIndex
  <2>2. CASE \E i \in 1..n : records[i].header
    <3>1. 1 \in 1..n /\ records[1].header /\ h = 1
      BY <2>1, <2>2
    <3>2. Headers(records) = {1} /\ B = 2..n
      BY <1>0, <2>1, <3>1 DEF Headers, PiBody
    <3>3. QED
      BY <3>1, <3>2
  <2>3. CASE ~\E i \in 1..n : records[i].header
    <3>1. h = 0
      BY <2>3
    <3>2. Headers(records) = {} /\ B = 1..n
      BY <1>0, <2>3 DEF Headers, PiBody
    <3>3. QED
      BY <3>1, <3>2
  <2>4. QED
    BY <2>2, <2>3
<1>2. /\ order = (headers \o T) \o cyclic
      /\ headers \in Seq(1..n) /\ T \in Seq(1..n) /\ cyclic \in Seq(1..n)
      /\ order \in Seq(1..n) /\ Len(order) = n
  BY OrderIs
<1> HIDE DEF h
\* After the first k of the body the next one is ready.
<1>3. ASSUME NEW s \in S, h + Len(s) < n
      PROVE  /\ h + Len(s) + 1 \in PiReady(records, Pi!ToSet(s))
             /\ \A j \in PiReady(records, Pi!ToSet(s)) : h + Len(s) + 1 <= j
  <2> DEFINE k == Len(s)
             x == h + k + 1
  <2>1. s \in Seq(B) /\ k \in Nat /\ \A p \in 1..k : s[p] = h + p
    OBVIOUS
  <2>2. Pi!ToSet(s) = {s[p] : p \in 1..k}
    BY <2>1, PiToSetIs
  <2> HIDE DEF k, S
  <2>3. Pi!ToSet(s) = (h + 1)..(h + k)
    <3>1. \A y \in Pi!ToSet(s) : y \in (h + 1)..(h + k)
      BY <1>1, <2>1, <2>2
    <3>2. ASSUME NEW y \in (h + 1)..(h + k) PROVE y \in Pi!ToSet(s)
      <4>1. y - h \in 1..k /\ h + (y - h) = y
        BY <1>1, <2>1
      <4>2. QED
        BY <2>1, <2>2, <4>1
    <3>3. QED
      BY <3>1, <3>2
  <2>4. x \in B /\ x \notin Pi!ToSet(s)
    BY <1>0, <1>1, <1>3, <2>1, <2>3 DEF k
  <2>5. x \in O => PiParents(records, x) \subseteq Pi!ToSet(s)
    <3>1. ASSUME x \in O, NEW j \in PiParents(records, x) PROVE j \in (h + 1)..(h + k)
      <4>1. j \in O
        BY DEF PiParents, PiNamed
      <4>2. j \in (h + 1)..n /\ j < x
        BY <1>0, <1>1, <3>1, <4>1
      <4>3. QED
        BY <1>0, <1>1, <2>1, <4>2
    <3>2. QED
      BY <2>3, <3>1
  <2>6. PiReady(records, Pi!ToSet(s)) = {i \in B \ Pi!ToSet(s) : i \in O => PiParents(records, i) \subseteq Pi!ToSet(s)}
    BY ReadyIs
  <2>7. ASSUME NEW j \in B, j \notin Pi!ToSet(s) PROVE x <= j
    <3>1. j \in (h + 1)..n /\ j \notin (h + 1)..(h + k)
      BY <1>1, <2>3, <2>7
    <3>2. QED
      BY <1>0, <1>1, <2>1, <3>1
  <2> HIDE DEF x
  <2>8. x \in PiReady(records, Pi!ToSet(s)) /\ \A j \in PiReady(records, Pi!ToSet(s)) : x <= j
    BY <2>4, <2>5, <2>6, <2>7
  <2>9. QED
    BY <2>8 DEF x, k
<1>4. PopClosed(records, S)
  <2>1. ASSUME NEW s \in S PROVE PiPop(records, s) \in S
    <3> DEFINE ready == PiReady(records, Pi!ToSet(s))
               k == Len(s)
    <3>1. s \in Seq(B) /\ k \in Nat /\ \A p \in 1..k : s[p] = h + p
      OBVIOUS
    <3>2. CASE ready = {} /\ PiPop(records, s) = s
      BY <3>2
    <3>3. ASSUME NEW x \in ready, \A j \in ready : x <= j, PiPop(records, s) = Append(s, x)
          PROVE  PiPop(records, s) \in S
      <4>1. ready \in SUBSET (B \ Pi!ToSet(s))
        <5>1. ready = {i \in B \ Pi!ToSet(s) : i \in O => PiParents(records, i) \subseteq Pi!ToSet(s)}
          BY ReadyIs
        <5> HIDE DEF ready
        <5>2. QED
          BY <5>1
      <4>2. Pi!ToSet(s) = {s[p] : p \in 1..k}
        BY <3>1, PiToSetIs
      <4>3. x \in (h + 1)..n /\ x \notin Pi!ToSet(s)
        BY <1>1, <3>3, <4>1
      <4>4. h + k < n
        <5>1. ASSUME ~(h + k < n) PROVE FALSE
          <6>1. x - h \in 1..k /\ h + (x - h) = x
            BY <1>0, <1>1, <3>1, <4>3, <5>1
          <6>2. s[x - h] = x
            BY <3>1, <6>1
          <6>3. QED
            BY <4>2, <4>3, <6>1, <6>2
        <5>2. QED
          BY <5>1
      <4>5. h + k + 1 \in ready /\ \A j \in ready : h + k + 1 <= j
        BY <1>3, <4>4
      <4>6. x = h + k + 1
        <5>1. x <= h + k + 1 /\ h + k + 1 <= x /\ x \in Nat
          BY <1>1, <3>3, <4>3, <4>5
        <5>2. QED
          BY <1>1, <3>1, <5>1
      <4>7. x \in B
        BY <3>3, <4>1
      <4> HIDE DEF k, ready, B
      <4>8. Append(s, x) \in Seq(B) /\ Len(Append(s, x)) = k + 1
            /\ \A p \in 1..(k + 1) : Append(s, x)[p] = IF p = k + 1 THEN x ELSE s[p]
        BY <3>1, <4>7 DEF k
      <4>9. \A p \in 1..(k + 1) : Append(s, x)[p] = h + p
        BY <1>1, <3>1, <4>6, <4>8
      <4>10. QED
        BY <3>3, <4>8, <4>9
    <3>4. \/ ready = {} /\ PiPop(records, s) = s
          \/ \E x \in ready : (\A j \in ready : x <= j) /\ PiPop(records, s) = Append(s, x)
      BY PopIs
    <3> HIDE DEF ready, S
    <3>5. QED
      BY <3>2, <3>3, <3>4
  <2>2. <<>> \in S
    OBVIOUS
  <2> HIDE DEF S
  <2>3. QED
    BY <2>1, <2>2 DEF PopClosed
<1>5. T \in S
  <2> HIDE DEF S
  <2>1. QED
    BY <1>4, PoppingKeeps
<1>6. Len(T) \in Nat /\ \A p \in 1..Len(T) : T[p] = h + p
  BY <1>2, <1>5
<1>7. h + Len(T) >= n
  <2>1. PiReady(records, Pi!ToSet(T)) = {}
    BY TopologicalOrders
  <2>2. ~(h + Len(T) < n)
    <3> HIDE DEF S, T
    <3>1. QED
      BY <1>3, <1>5, <2>1
  <2>3. QED
    BY <1>0, <1>1, <1>6, <2>2
<1>8. Len(headers) = h /\ (h = 1 => headers[1] = 1)
  <2>1. CASE h = 0
    <3>1. ToSet(headers) = {}
      BY <1>0, <1>1, <2>1, AscendingOnce
    <3>2. ToSet(headers) = {headers[i] : i \in 1..Len(headers)} /\ Len(headers) \in Nat
      BY <1>2, PiToSetIs
    <3> HIDE DEF headers
    <3>3. ~(Len(headers) >= 1)
      BY <3>1, <3>2
    <3>4. QED
      BY <2>1, <3>2, <3>3
  <2>2. CASE h = 1
    <3>1. 1 \in 1..n
      BY <1>0, <1>1, <2>2 DEF Headers
    <3>2. Headers(records) = {1} /\ {1} \in SUBSET (1..n)
      BY <1>1, <2>2, <3>1
    <3>3. ToSet(headers) = {1} /\ Once(headers, Len(headers))
      BY <1>0, <3>2, AscendingOnce
    <3>4. ToSet(headers) = {headers[i] : i \in 1..Len(headers)} /\ Len(headers) \in Nat
      BY <1>2, PiToSetIs
    <3>5. \A i \in 1..Len(headers) : headers[i] = 1
      BY <3>3, <3>4
    <3>6. \E i \in 1..Len(headers) : headers[i] = 1
      BY <3>3, <3>4
    <3> HIDE DEF headers
    <3>7. Len(headers) >= 1
      BY <3>4, <3>6
    <3>8. ~(Len(headers) >= 2)
      <4>1. ASSUME Len(headers) >= 2 PROVE FALSE
        <5>1. 1 \in 1..Len(headers) /\ 2 \in 1..Len(headers)
          BY <3>4, <4>1
        <5>2. headers[1] = headers[2]
          BY <3>5, <5>1
        <5>3. QED
          BY <3>3, <5>1, <5>2 DEF Once
      <4>2. QED
        BY <4>1
    <3>9. Len(headers) = 1
      BY <3>4, <3>7, <3>8
    <3>10. headers[1] = 1
      BY <3>5, <3>9
    <3>11. QED
      BY <2>2, <3>9, <3>10
  <2>3. QED
    BY <1>1, <2>1, <2>2
<1>9. ASSUME NEW i \in 1..n PROVE order[i] = i
  <2> HIDE DEF headers, T, cyclic, order
  <2>1. Len(headers) \in Nat /\ Len(T) \in Nat /\ Len(cyclic) \in Nat
    BY <1>2
  <2>2. CASE i <= h
    <3>1. i = 1 /\ h = 1 /\ i \in 1..Len(headers)
      BY <1>1, <1>8, <2>2
    <3>2. order[i] = headers[i]
      BY <1>2, <2>1, <3>1
    <3>3. QED
      BY <1>8, <3>1, <3>2
  <2>3. CASE ~(i <= h)
    <3> DEFINE p == i - h
    <3>1. p \in 1..Len(T) /\ h + p = i
      BY <1>0, <1>1, <1>6, <1>7, <2>3
    <3> HIDE DEF p
    <3>2. (headers \o T)[h + p] = T[p] /\ h + p \in 1..Len(headers \o T)
      BY <1>1, <1>2, <1>8, <2>1, <3>1
    <3>3. order[h + p] = T[p]
      BY <1>2, <2>1, <3>2
    <3>4. QED
      BY <1>6, <3>1, <3>3
  <2>4. QED
    BY <1>1, <2>2, <2>3
<1>10. QED
  BY <1>9

(***************************************************************************)
(* What EntriesOrdered says, of any records in any order.                  *)
(***************************************************************************)

PiAbove(records, i) == {j \in PiTree(records) : PiFirst(records, j) /\ records[j].id = records[i].parent}

IsRooting(f, records) ==
  f = [n \in 0..Len(records) |->
        IF n = 0 THEN {i \in PiTree(records) : PiAbove(records, i) = {}}
        ELSE f[n - 1] \cup {i \in PiTree(records) : PiAbove(records, i) \subseteq f[n - 1]}]

PlaceOf(passed, i) == CHOOSE n \in DOMAIN passed : passed[n] = i

Ordered(records, passed) ==
  LET rooted == CHOOSE f : IsRooting(f, records) IN
  /\ Len(passed) = Len(records) /\ ToSet(passed) = DOMAIN records
  /\ \A i \in rooted[Len(records)] :
       PiFirst(records, i) => \A j \in PiAbove(records, i) : PlaceOf(passed, j) < PlaceOf(passed, i)
  /\ (\A i \in PiTree(records) : \A j \in PiAbove(records, i) : j < i)
       => \A i \in DOMAIN records : PlaceOf(passed, i) = i

LEMMA EntriesOrderedIs ==
  EntriesOrdered <=> (harness = "pi" /\ Returned => Ordered(reader.index.records, seen.passed))
BY DEF EntriesOrdered, Ordered, IsRooting, PlaceOf, PiAbove, PiFirst, PiTree

\* The entries that descend from a root have all been popped.
LEMMA RootedArePopped ==
  ASSUME NEW n, NEW records, IsIndex(records, n)
  PROVE  LET rooted == CHOOSE f : IsRooting(f, records)
         IN rooted[n] \in SUBSET PiTree(records)
            /\ rooted[n] \cap Pi!Owners(records) \subseteq ToSet(Pi!Topological(records))
<1> DEFINE tree == PiTree(records)
           O == Pi!Owners(records)
           T == Pi!Topological(records)
           above == [i \in tree |-> PiAbove(records, i)]
           first == {i \in tree : above[i] = {}}
           S == {X \in SUBSET tree : X \cap O \subseteq ToSet(T)}
           Grow(X) == X \cup {i \in tree : above[i] \subseteq X}
           next == [X \in S |-> Grow(X)]
           rooted == CHOOSE f : IsRooting(f, records)
<1>0. n \in Nat /\ Len(records) = n
  BY DEF IsIndex
<1>1. \A i \in tree : above[i] = PiParents(records, i) /\ above[i] \subseteq O
  BY OwnersAre DEF PiAbove, PiParents, PiNamed
<1>2. PiReady(records, ToSet(T)) = {}
  <2>1. Popped(records, T) /\ PiReady(records, Pi!ToSet(T)) = {}
    BY TopologicalOrders
  <2>2. T \in Seq(PiBody(records))
    BY <2>1 DEF Popped
  <2>3. QED
    BY <2>1, <2>2, PiToSetIs
<1>3. \A i \in O : PiParents(records, i) \subseteq ToSet(T) => i \in ToSet(T)
  <2>1. PiReady(records, ToSet(T)) =
          {i \in PiBody(records) \ ToSet(T) : i \in O => PiParents(records, i) \subseteq ToSet(T)}
    BY ReadyIs
  <2>2. O \subseteq PiBody(records)
    BY OwnersAre
  <2>3. QED
    BY <1>2, <2>1, <2>2
<1>4. O \subseteq tree
  BY OwnersAre
<1>5. \A i \in tree : above[i] = PiAbove(records, i)
  OBVIOUS
<1> HIDE DEF tree, O, above, T
<1>6. first \in S
  BY <1>1, <1>3
<1>7. \A X \in S : Grow(X) \in S
  BY <1>1, <1>3
<1>8. next \in [S -> S] /\ \A X \in S : next[X] = Grow(X)
  BY <1>7
<1>9. \A X \in S : X \in SUBSET tree /\ X \cap O \subseteq ToSet(T)
  OBVIOUS
<1>10. \A X : Grow(X) = X \cup {i \in tree : PiAbove(records, i) \subseteq X}
  BY <1>5
<1>11. first = {i \in tree : PiAbove(records, i) = {}}
  BY <1>5
<1> HIDE DEF first, S, Grow, next
<1>12. PICK g : Iterates(g, first, next, n) /\ Within(g, n, S)
  BY <1>0, <1>6, <1>8, IterationExists
<1>13. \E f : IsRooting(f, records)
  <2> DEFINE h == [i \in 0..n |-> g[i]]
  <2>1. ASSUME NEW i \in 0..n PROVE h[i] = IF i = 0 THEN first ELSE Grow(h[i - 1])
    <3>1. CASE i = 0
      BY <1>0, <1>12, <3>1 DEF Iterates
    <3>2. CASE i # 0
      <4>1. i \in 1..n /\ i - 1 \in 0..n
        BY <1>0, <3>2
      <4>2. h[i] = next[g[i - 1]] /\ g[i - 1] \in S /\ h[i - 1] = g[i - 1]
        BY <1>12, <4>1 DEF Iterates, Within
      <4> HIDE DEF h
      <4>3. QED
        BY <1>8, <3>2, <4>2
    <3>3. QED
      BY <3>1, <3>2
  <2>2. h = [i \in 0..n |-> h[i]]
    OBVIOUS
  <2> HIDE DEF h
  <2>3. h = [i \in 0..n |-> IF i = 0 THEN first ELSE Grow(h[i - 1])]
    BY <2>1, <2>2
  <2>4. h = [i \in 0..n |-> IF i = 0 THEN {k \in tree : PiAbove(records, k) = {}}
                            ELSE h[i - 1] \cup {k \in tree : PiAbove(records, k) \subseteq h[i - 1]}]
    BY <1>10, <1>11, <2>3
  <2>5. IsRooting(h, records)
    BY <1>0, <2>4 DEF IsRooting, tree
  <2>6. QED
    BY <2>5
<1>14. IsRooting(rooted, records)
  BY <1>13
<1> HIDE DEF rooted
<1>15. /\ rooted[0] = first
       /\ \A i \in 1..n : rooted[i] = Grow(rooted[i - 1])
  <2>1. rooted = [i \in 0..n |-> IF i = 0 THEN {k \in tree : PiAbove(records, k) = {}}
                            ELSE rooted[i - 1] \cup {k \in tree : PiAbove(records, k) \subseteq rooted[i - 1]}]
    BY <1>0, <1>14 DEF IsRooting, tree
  <2>2. rooted = [i \in 0..n |-> IF i = 0 THEN first ELSE Grow(rooted[i - 1])]
    BY <1>10, <1>11, <2>1
  <2>3. \A i \in 1..n : i \in 0..n /\ i # 0
    BY <1>0
  <2>4. \A i \in 0..n : rooted[i] = IF i = 0 THEN first ELSE Grow(rooted[i - 1])
    BY <2>2
  <2>5. QED
    BY <1>0, <2>3, <2>4
<1> DEFINE Good == {i \in Nat : rooted[i] \in S}
<1>16. Inductive(Good, n)
  <2>1. ASSUME NEW i \in Nat, i < n, rooted[i] \in S PROVE rooted[i + 1] \in S
    <3> DEFINE k == i + 1
    <3>1. k \in 1..n /\ k - 1 = i
      BY <1>0, <2>1
    <3> HIDE DEF k
    <3>2. rooted[k] = Grow(rooted[k - 1])
      BY <1>15, <3>1
    <3>3. Grow(rooted[i]) \in S
      BY <1>7, <2>1
    <3>4. QED
      BY <3>1, <3>2, <3>3 DEF k
  <2>2. QED
    BY <1>6, <1>15, <2>1 DEF Inductive
<1>17. n \in Good
  <2> HIDE DEF Good
  <2>1. QED
    BY <1>0, <1>16, Upward
<1>18. QED
  BY <1>9, <1>17 DEF tree, O, T, rooted

LEMMA OrderedIs ==
  ASSUME NEW n, NEW records, IsIndex(records, n), NEW passed, passed = Pi!Order(records)
  PROVE  Ordered(records, passed)
<1> DEFINE T == Pi!Topological(records)
           headers == Pi!Ascending(Headers(records))
           cyclic == Pi!Ascending(Pi!Owners(records) \ ToSet(T))
           rooted == CHOOSE f : IsRooting(f, records)
           O == Pi!Owners(records)
<1>0. n \in Nat /\ Len(records) = n /\ DOMAIN records = 1..n
  BY DEF IsIndex
<1>1. /\ passed = (headers \o T) \o cyclic
      /\ headers \in Seq(1..n) /\ T \in Seq(1..n) /\ cyclic \in Seq(1..n)
      /\ passed \in Seq(1..n) /\ Len(passed) = n /\ Once(passed, n) /\ ToSet(passed) = 1..n
  BY OrderIs
<1>2. DOMAIN passed = 1..n
  BY <1>1
<1>3. ASSUME NEW p \in 1..n PROVE PlaceOf(passed, passed[p]) = p
  BY <1>1, <1>2 DEF PlaceOf, Once
<1>4. \A i \in PiTree(records) : PiAbove(records, i) = PiParents(records, i)
  BY OwnersAre DEF PiAbove, PiParents, PiNamed
<1>5. O = {i \in PiTree(records) : PiFirst(records, i)} /\ O \subseteq 1..n
  BY OwnersAre
<1>6. ASSUME NEW i \in rooted[Len(records)], PiFirst(records, i), NEW j \in PiAbove(records, i)
      PROVE  PlaceOf(passed, j) < PlaceOf(passed, i)
  <2>1. i \in PiTree(records) /\ (i \in O => i \in ToSet(T))
    <3>1. rooted[n] \in SUBSET PiTree(records) /\ rooted[n] \cap O \subseteq ToSet(T)
      BY RootedArePopped
    <3> HIDE DEF rooted, O, T
    <3>2. QED
      BY <1>0, <1>6, <3>1
  <2>2. i \in O /\ j \in PiParents(records, i)
    BY <1>4, <1>5, <1>6, <2>1
  <2>3. Popped(records, T)
    BY TopologicalOrders
  <2> DEFINE h == Len(headers)
             k == Len(T)
  <2>4. h \in Nat /\ k \in Nat /\ Len(cyclic) \in Nat
    BY <1>1
  <2>5. ToSet(T) = {T[p] : p \in 1..k}
    BY <1>1, PiToSetIs
  <2>6. PICK p \in 1..k : T[p] = i
    BY <2>1, <2>2, <2>5
  <2>7. PICK q \in 1..(p - 1) : T[q] = j
    BY <2>2, <2>3, <2>6 DEF Popped
  <2> HIDE DEF T, headers, cyclic, h, k
  <2>8. ASSUME NEW r \in 1..k PROVE h + r \in 1..n /\ passed[h + r] = T[r]
    <3>1. (headers \o T)[h + r] = T[r] /\ h + r \in 1..Len(headers \o T) /\ headers \o T \in Seq(1..n)
      BY <1>1, <2>4 DEF h, k
    <3>2. QED
      BY <1>1, <2>4, <3>1 DEF h, k
  <2>9. q \in 1..k
    BY <2>4, <2>6
  <2>10. PlaceOf(passed, i) = h + p /\ PlaceOf(passed, j) = h + q
    <3>1. h + p \in 1..n /\ passed[h + p] = i
      BY <2>6, <2>8
    <3>2. h + q \in 1..n /\ passed[h + q] = j
      BY <2>7, <2>8, <2>9
    <3>3. QED
      BY <1>3, <3>1, <3>2
  <2>11. QED
    BY <2>4, <2>10
<1>7. ASSUME \A i \in PiTree(records) : \A j \in PiAbove(records, i) : j < i, NEW i \in 1..n
      PROVE  PlaceOf(passed, i) = i
  <2>1. \A k \in O : \A j \in PiParents(records, k) : j < k
    BY <1>4, <1>5, <1>7
  <2>2. passed[i] = i
    BY <2>1, OrderedAlready
  <2>3. QED
    BY <1>3, <2>2
<1>8. QED
  <2> HIDE DEF rooted
  <2>1. QED
    BY <1>0, <1>1, <1>6, <1>7 DEF Ordered, rooted

(***************************************************************************)
(* The active path: a chain of parents that starts at the leaf.            *)
(***************************************************************************)

PiFollows(records, active, i) == {j \in active : records[j].parent = records[i].id}

\* What ActivePathIsAncestry says, of any index.
Ancestry(index, active) ==
  LET records == index.records
      leaves == {i \in active : PiFollows(records, active, i) = {}}
  IN /\ \A i \in active : PiFirst(records, i) /\ i \in PiTree(records)
     /\ \A i \in active : Cardinality(PiFollows(records, active, i)) <= 1
     /\ Cardinality({i \in active : records[i].parent = ""}) = 1
     /\ \A i \in active : records[i].parent # "" => \E j \in active : records[j].id = records[i].parent
     /\ \A i \in leaves : IF index.leaf # "" THEN records[i].id = index.leaf
                          ELSE \A j \in PiTree(records) : PiFirst(records, j) => j <= i

LEMMA ActivePathIsAncestryIs ==
  ActivePathIsAncestry <=>
    (harness = "pi" /\ Returned /\ reader.active # {} => Ancestry(reader.index, reader.active))
BY DEF ActivePathIsAncestry, Ancestry, PiFollows, PiFirst, PiTree

Chain(records, leaf, c) ==
  /\ c \in Seq(Pi!Owners(records)) /\ Once(c, Len(c))
  /\ Len(c) # 0 => c[1] \in leaf
  /\ \A k \in 1..(Len(c) - 1) : c[k + 1] \in PiNamed(records, records[c[k]].parent)

\* An identifier names one entry at most, and an entry has one parent at most.
LEMMA NamedIsOne ==
  ASSUME NEW n, NEW records, IsIndex(records, n), NEW id
  PROVE  /\ \A x, y \in PiNamed(records, id) : x = y
         /\ PiNamed(records, id) \subseteq Pi!Owners(records)
         /\ id = "" => PiNamed(records, id) = {}
<1>1. \A i, j \in Pi!Owners(records) : records[i].id = records[j].id => i = j
  BY OwnersAre
<1>2. \A i \in Pi!Owners(records) : records[i].id # ""
  BY OwnersAre DEF PiTree
<1>3. \A x \in PiNamed(records, id) : x \in Pi!Owners(records) /\ records[x].id = id
  BY DEF PiNamed
<1>4. QED
  BY <1>1, <1>2, <1>3

LEMMA UpIsChain ==
  ASSUME NEW n, NEW records, IsIndex(records, n), NEW leaf, NEW c, Chain(records, leaf, c)
  PROVE  \E d : Chain(records, leaf, d) /\ PiUp(records, ToSet(c)) = ToSet(d)
<1> DEFINE k == Len(c)
           X == ToSet(c)
           O == Pi!Owners(records)
           P(x) == PiNamed(records, records[x].parent)
<1>0. /\ c \in Seq(O) /\ k \in Nat /\ X = {c[p] : p \in 1..k} /\ Once(c, k)
      /\ \A p \in 1..(k - 1) : c[p + 1] \in P(c[p])
  <2>1. c \in Seq(O)
    BY DEF Chain
  <2>2. X = {c[p] : p \in 1..k}
    BY <2>1, PiToSetIs
  <2>3. QED
    BY <2>1, <2>2 DEF Chain
<1>1. PiUp(records, X) = X \cup UNION {P(x) : x \in X}
  BY DEF PiUp
<1>2. ASSUME NEW x PROVE (\A y, z \in P(x) : y = z) /\ P(x) \subseteq O
  BY NamedIsOne
<1> HIDE DEF k, X, P, O
<1>3. ASSUME NEW p \in 1..(k - 1) PROVE P(c[p]) \subseteq X
  <2>1. c[p + 1] \in P(c[p]) /\ p + 1 \in 1..k
    BY <1>0
  <2>2. c[p + 1] \in X
    BY <1>0, <2>1
  <2>3. QED
    BY <1>2, <2>1, <2>2
<1>4. CASE k = 0
  <2>1. X = {}
    BY <1>0, <1>4
  <2>2. PiUp(records, X) = X
    BY <1>1, <2>1
  <2>3. QED
    BY <2>2 DEF X
<1>5. CASE k # 0
  <2> DEFINE last == c[k]
  <2>1. k \in 1..k /\ last \in X
    BY <1>0, <1>5
  <2>2. \A p \in 1..k : p = k \/ p \in 1..(k - 1)
    BY <1>0
  <2>3. PiUp(records, X) = X \cup P(last)
    <3>1. \A x \in X : P(x) \subseteq X \cup P(last)
      BY <1>0, <1>3, <2>2
    <3>2. QED
      BY <1>1, <2>1, <3>1
  <2>4. CASE P(last) \subseteq X
    <3>1. PiUp(records, X) = X
      BY <2>3, <2>4
    <3>2. QED
      BY <3>1 DEF X
  <2>5. ASSUME NEW y \in P(last), y \notin X PROVE \E d : Chain(records, leaf, d) /\ PiUp(records, X) = ToSet(d)
    <3> DEFINE d == Append(c, y)
    <3>1. P(last) = {y} /\ y \in O
      BY <1>2, <2>5
    <3>2. d \in Seq(O) /\ Len(d) = k + 1 /\ d[k + 1] = y /\ \A p \in 1..k : d[p] = c[p]
      BY <1>0, <3>1 DEF k
    <3> HIDE DEF d, last
    <3>3. \A p \in 1..(k + 1) : p = k + 1 \/ p \in 1..k
      BY <1>0
    <3>4. Once(d, k + 1)
      <4>1. \A p \in 1..k : c[p] # y
        BY <1>0, <2>5
      <4>2. QED
        BY <1>0, <3>2, <3>3, <4>1 DEF Once
    <3>5. d[1] \in leaf
      <4>1. c[1] \in leaf /\ 1 \in 1..k
        BY <1>0, <1>5 DEF Chain, k
      <4>2. QED
        BY <3>2, <4>1
    <3>6. ASSUME NEW p \in 1..k PROVE d[p + 1] \in P(d[p])
      <4>1. CASE p = k
        BY <2>5, <3>2, <4>1 DEF last
      <4>2. CASE p # k
        <5>1. p \in 1..(k - 1) /\ p + 1 \in 1..k
          BY <1>0, <4>2
        <5>2. d[p + 1] = c[p + 1] /\ d[p] = c[p]
          BY <3>2, <5>1
        <5>3. QED
          BY <1>0, <5>1, <5>2
      <4>3. QED
        BY <4>1, <4>2
    <3>7. ToSet(d) = X \cup {y}
      <4>1. ToSet(d) = {d[p] : p \in 1..(k + 1)}
        BY <3>2, PiToSetIs
      <4>2. k + 1 \in 1..(k + 1) /\ \A p \in 1..k : p \in 1..(k + 1)
        BY <1>0
      <4>3. QED
        BY <1>0, <3>2, <3>3, <4>1, <4>2
    <3>8. Chain(records, leaf, d)
      <4>1. Len(d) - 1 = k
        BY <1>0, <3>2
      <4>2. QED
        BY <3>2, <3>4, <3>5, <3>6, <4>1 DEF Chain, O, P
    <3>9. QED
      BY <2>3, <3>1, <3>7, <3>8
  <2>6. QED
    BY <2>4, <2>5 DEF X
<1>6. QED
  BY <1>4, <1>5

LEMMA PathIsChain ==
  ASSUME NEW index, NEW n, IsIndex(index.records, n)
  PROVE  LET path == (CHOOSE f : IsClimbing(f, index))[n]
         IN \E c : Chain(index.records, PiLeaf(index), c) /\ path = ToSet(c)
<1> DEFINE records == index.records
           leaf == PiLeaf(index)
           O == Pi!Owners(records)
           S == {X \in SUBSET O : \E c : Chain(records, leaf, c) /\ X = ToSet(c)}
           next == [X \in S |-> PiUp(records, X)]
           climb == CHOOSE f : IsClimbing(f, index)
<1>0. n \in Nat /\ Len(records) = n /\ O \subseteq 1..n
  BY OwnersAre DEF IsIndex
<1>1. ASSUME NEW c, Chain(records, leaf, c) PROVE ToSet(c) \in S
  <2>1. c \in Seq(O)
    BY <1>1 DEF Chain
  <2>2. ToSet(c) = {c[p] : p \in 1..Len(c)}
    BY <2>1, PiToSetIs
  <2>3. ToSet(c) \subseteq O
    BY <2>1, <2>2
  <2>4. QED
    BY <1>1, <2>3
<1>2. leaf \in S
  <2>1. leaf \subseteq O /\ \A x, y \in leaf : x = y
    <3>1. \A x, y \in O : x <= y /\ y <= x => x = y
      BY <1>0
    <3>2. QED
      BY <3>1, NamedIsOne DEF PiLeaf
  <2>2. CASE leaf = {}
    <3>1. Chain(records, leaf, <<>>)
      BY DEF Chain, Once
    <3>2. ToSet(<<>>) = {}
      BY DEF ToSet
    <3>3. ToSet(<<>>) \in S
      BY <1>1, <3>1
    <3>4. QED
      BY <2>2, <3>2, <3>3
  <2>3. CASE leaf # {}
    <3>1. PICK x \in leaf : leaf = {x}
      BY <2>1, <2>3
    <3>2. x \in O
      BY <2>1
    <3> HIDE DEF O, leaf
    <3>3. <<x>> \in Seq(O) /\ Len(<<x>>) = 1 /\ <<x>>[1] = x
      BY <3>2
    <3>4. Chain(records, leaf, <<x>>)
      BY <3>3 DEF Chain, Once, O
    <3>5. ToSet(<<x>>) = {x}
      <4>1. ToSet(<<x>>) = {<<x>>[p] : p \in 1..1}
        BY <3>3, PiToSetIs
      <4>2. QED
        BY <3>3, <4>1
    <3> HIDE DEF S
    <3>6. ToSet(<<x>>) \in S
      BY <1>1, <3>4
    <3>7. QED
      BY <3>1, <3>5, <3>6
  <2>4. QED
    BY <2>2, <2>3
<1>3. \A X \in S : PiUp(records, X) \in S
  <2> SUFFICES ASSUME NEW X \in S PROVE PiUp(records, X) \in S
    OBVIOUS
  <2>1. PICK c : Chain(records, leaf, c) /\ X = ToSet(c)
    OBVIOUS
  <2>2. PICK d : Chain(records, leaf, d) /\ PiUp(records, X) = ToSet(d)
    BY <2>1, UpIsChain
  <2> HIDE DEF S
  <2>3. QED
    BY <1>1, <2>2
<1>4. next \in [S -> S] /\ \A X \in S : next[X] = PiUp(records, X)
  BY <1>3
<1>5. \A X \in S : \E c : Chain(records, leaf, c) /\ X = ToSet(c)
  OBVIOUS
<1> HIDE DEF S, next, leaf, O
<1>6. PICK g : Iterates(g, leaf, next, n) /\ Within(g, n, S)
  BY <1>0, <1>2, <1>4, IterationExists
<1>7. \E f : IsClimbing(f, index)
  <2> DEFINE h == [i \in 0..n |-> g[i]]
  <2>1. ASSUME NEW i \in 0..n PROVE h[i] = IF i = 0 THEN leaf ELSE PiUp(records, h[i - 1])
    <3>1. CASE i = 0
      BY <1>0, <1>6, <3>1 DEF Iterates
    <3>2. CASE i # 0
      <4>1. i \in 1..n /\ i - 1 \in 0..n
        BY <1>0, <3>2
      <4>2. h[i] = next[g[i - 1]] /\ g[i - 1] \in S /\ h[i - 1] = g[i - 1]
        BY <1>6, <4>1 DEF Iterates, Within
      <4> HIDE DEF h
      <4>3. QED
        BY <1>4, <3>2, <4>2
    <3>3. QED
      BY <3>1, <3>2
  <2>2. h = [i \in 0..n |-> h[i]]
    OBVIOUS
  <2> HIDE DEF h
  <2>3. h = [i \in 0..n |-> IF i = 0 THEN leaf ELSE PiUp(records, h[i - 1])]
    BY <2>1, <2>2
  <2>4. IsClimbing(h, index)
    BY <1>0, <2>3 DEF IsClimbing, leaf
  <2>5. QED
    BY <2>4
<1>8. IsClimbing(climb, index)
  BY <1>7
<1> HIDE DEF climb
<1>9. climb[0] = leaf /\ \A i \in 1..n : climb[i] = PiUp(records, climb[i - 1])
  <2>1. climb = [i \in 0..n |-> IF i = 0 THEN leaf ELSE PiUp(records, climb[i - 1])]
    BY <1>0, <1>8 DEF IsClimbing, leaf
  <2>2. \A i \in 1..n : i \in 0..n /\ i # 0
    BY <1>0
  <2>3. \A i \in 0..n : climb[i] = IF i = 0 THEN leaf ELSE PiUp(records, climb[i - 1])
    BY <2>1
  <2>4. QED
    BY <1>0, <2>2, <2>3
<1> DEFINE Good == {i \in Nat : climb[i] \in S}
<1>10. Inductive(Good, n)
  <2>1. ASSUME NEW i \in Nat, i < n, climb[i] \in S PROVE climb[i + 1] \in S
    <3> DEFINE k == i + 1
    <3>1. k \in 1..n /\ k - 1 = i
      BY <1>0, <2>1
    <3> HIDE DEF k
    <3>2. climb[k] = PiUp(records, climb[k - 1])
      BY <1>9, <3>1
    <3>3. PiUp(records, climb[i]) \in S
      BY <1>3, <2>1
    <3>4. QED
      BY <3>1, <3>2, <3>3 DEF k
  <2>2. QED
    BY <1>2, <1>9, <2>1 DEF Inductive
<1>11. n \in Good
  <2> HIDE DEF Good
  <2>1. QED
    BY <1>0, <1>10, Upward
<1>12. QED
  BY <1>5, <1>11 DEF climb, leaf

LEMMA AncestryIs ==
  ASSUME NEW index, NEW n, IsIndex(index.records, n),
         NEW active, active = Pi!ActivePath(index), active # {}
  PROVE  Ancestry(index, active)
<1> DEFINE records == index.records
           leaf == PiLeaf(index)
           O == Pi!Owners(records)
           climb == CHOOSE f : IsClimbing(f, index)
<1>0. n \in Nat /\ Len(records) = n
  BY DEF IsIndex
<1>1. active = climb[n] /\ \E i \in active : records[i].parent = ""
  <2>1. Pi!ActivePath(index) =
           IF \E i \in climb[Len(records)] : records[i].parent = "" THEN climb[Len(records)] ELSE {}
    BY ActivePathIs, Zenon
  <2> HIDE DEF climb
  <2>2. active = IF \E i \in climb[n] : records[i].parent = "" THEN climb[n] ELSE {}
    BY <1>0, <2>1
  <2>3. QED
    BY <2>2
<1>2. PICK c : Chain(records, leaf, c) /\ climb[n] = ToSet(c)
  BY PathIsChain
<1> DEFINE m == Len(c)
<1>3. /\ c \in Seq(O) /\ Once(c, m) /\ m \in Nat
      /\ m # 0 => c[1] \in leaf
      /\ \A k \in 1..(m - 1) : c[k + 1] \in PiNamed(records, records[c[k]].parent)
  BY <1>2 DEF Chain
<1>4. active = {c[p] : p \in 1..m} /\ active \subseteq O
  <2>1. ToSet(c) = {c[p] : p \in 1..m}
    BY <1>3, PiToSetIs
  <2>2. \A p \in 1..m : c[p] \in O
    BY <1>3
  <2> HIDE DEF O, m, climb, records
  <2>3. active = {c[p] : p \in 1..m}
    BY <1>1, <1>2, <2>1, Zenon
  <2>4. QED
    BY <2>2, <2>3
<1>5. \A i \in O : i \in PiTree(records) /\ PiFirst(records, i) /\ records[i].id # ""
  BY OwnersAre DEF PiTree
<1> HIDE DEF leaf, climb, O, m
<1>6. ASSUME NEW k \in 1..m, k # m
      PROVE  /\ c[k + 1] \in O /\ k + 1 \in 1..m
             /\ records[c[k]].parent # "" /\ records[c[k + 1]].id = records[c[k]].parent
  <2>1. k \in 1..(m - 1) /\ k + 1 \in 1..m
    BY <1>3, <1>6
  <2>2. c[k + 1] \in PiNamed(records, records[c[k]].parent)
    BY <1>3, <2>1
  <2>3. c[k + 1] \in O /\ records[c[k + 1]].id = records[c[k]].parent
    BY <2>2 DEF PiNamed, O
  <2>4. records[c[k]].parent # ""
    BY <2>2, NamedIsOne
  <2>5. QED
    BY <2>1, <2>3, <2>4
<1>7. m \in 1..m /\ records[c[m]].parent = ""
  <2>1. PICK k \in 1..m : records[c[k]].parent = ""
    BY <1>1, <1>4
  <2>2. k = m
    BY <1>6, <2>1
  <2>3. QED
    BY <2>1, <2>2
<1>8. Cardinality({i \in active : records[i].parent = ""}) = 1
  <2>1. {i \in active : records[i].parent = ""} = {c[m]}
    BY <1>4, <1>6, <1>7
  <2>2. Cardinality({c[m]}) = 1
    BY FS_Singleton
  <2>3. QED
    BY <2>1, <2>2
<1>9. ASSUME NEW k \in 1..m, NEW j \in PiFollows(records, active, c[k])
      PROVE  k - 1 \in 1..m /\ j = c[k - 1]
  <2>1. PICK q \in 1..m : j = c[q]
    BY <1>4, <1>9 DEF PiFollows
  <2>2. records[c[q]].parent = records[c[k]].id /\ c[k] \in O
    BY <1>4, <1>9, <2>1 DEF PiFollows
  <2>3. records[c[k]].id # ""
    BY <1>5, <2>2
  <2>4. q # m
    BY <1>7, <2>2, <2>3
  <2>5. c[q + 1] \in O /\ q + 1 \in 1..m /\ records[c[q + 1]].id = records[c[k]].id
    BY <1>6, <2>2, <2>4
  <2>6. c[q + 1] = c[k]
    BY <2>2, <2>5, OwnersAre DEF O
  <2>7. q + 1 = k
    BY <1>3, <2>5, <2>6 DEF Once
  <2>8. QED
    BY <2>1, <2>7
<1>10. ASSUME NEW k \in 1..m PROVE Cardinality(PiFollows(records, active, c[k])) <= 1
  <2>1. PiFollows(records, active, c[k]) \subseteq {c[k - 1]}
    BY <1>9
  <2>2. PiFollows(records, active, c[k]) = {} \/ PiFollows(records, active, c[k]) = {c[k - 1]}
    BY <2>1
  <2>3. Cardinality({}) = 0 /\ Cardinality({c[k - 1]}) = 1
    BY FS_EmptySet, FS_Singleton
  <2>4. QED
    BY <2>2, <2>3
<1>11. ASSUME NEW k \in 1..m, PiFollows(records, active, c[k]) = {} PROVE k = 1
  <2> SUFFICES ASSUME k # 1 PROVE FALSE
    OBVIOUS
  <2> DEFINE l == k - 1
  <2>1. l \in 1..m /\ l # m /\ l + 1 = k
    BY <1>3
  <2> HIDE DEF l
  <2>2. records[c[l + 1]].id = records[c[l]].parent
    BY <1>6, <2>1
  <2>3. c[l] \in PiFollows(records, active, c[k])
    BY <1>4, <2>1, <2>2 DEF PiFollows
  <2>4. QED
    BY <1>11, <2>3
<1>12. ASSUME NEW i \in active, PiFollows(records, active, i) = {}
       PROVE  IF index.leaf # "" THEN records[i].id = index.leaf
              ELSE \A j \in PiTree(records) : PiFirst(records, j) => j <= i
  <2>1. PICK k \in 1..m : i = c[k]
    BY <1>4
  <2>2. k = 1
    BY <1>11, <1>12, <2>1
  <2>3. i \in leaf
    BY <1>3, <2>1, <2>2
  <2>4. \A j \in PiTree(records) : PiFirst(records, j) => j \in O
    BY OwnersAre DEF O
  <2>5. QED
    BY <2>3, <2>4 DEF leaf, PiLeaf, PiNamed, O
<1>13. ASSUME NEW i \in active, records[i].parent # "" PROVE \E j \in active : records[j].id = records[i].parent
  <2>1. PICK k \in 1..m : i = c[k]
    BY <1>4
  <2>2. k # m
    BY <1>7, <1>13, <2>1
  <2>3. k + 1 \in 1..m /\ records[c[k + 1]].id = records[i].parent
    BY <1>6, <2>1, <2>2
  <2>4. QED
    BY <1>4, <2>3
<1>14. \A i \in active : Cardinality(PiFollows(records, active, i)) <= 1
  BY <1>4, <1>10
<1>15. \A i \in active : PiFirst(records, i) /\ i \in PiTree(records)
  BY <1>4, <1>5
<1>16. QED
  BY <1>8, <1>12, <1>13, <1>14, <1>15 DEF Ancestry

(***************************************************************************)
(* The index that buildIndex makes of the lines it reads.                  *)
(***************************************************************************)

\* What a record of the index says about its line.
PiMarked(lines, i, record) ==
  /\ record.line = i
  /\ record.header <=> i = 1 /\ lines[i].form = "record" /\ ~TooLarge(lines[i]) /\ lines[i].rec.type = "session"
  /\ record.tooLarge <=> TooLarge(lines[i])
  /\ record.malformed <=> ~TooLarge(lines[i]) /\ (lines[i].form # "record" \/ lines[i].rec.type = "")
  /\ record.header \/ record.tooLarge \/ record.malformed => record.id = ""

PiIndex(index, lines) ==
  /\ index = [version |-> index.version, leaf |-> index.leaf, previous |-> index.previous,
              records |-> index.records]
  /\ \E S : index.records \in Seq(S)
  /\ Len(index.records) = Len(lines)
  /\ \A i \in 1..Len(lines) : PiMarked(lines, i, index.records[i])
  /\ index.version = PiVersion(lines)

LEMMA PiIndexIs ==
  ASSUME NEW index, NEW lines, NEW S, lines \in Seq(S), PiIndex(index, lines)
  PROVE  IsIndex(index.records, Len(lines)) /\ DOMAIN index.records = 1..Len(lines)
<1>1. Len(lines) \in Nat
  OBVIOUS
<1>2. PICK T : index.records \in Seq(T)
  BY DEF PiIndex
<1>3. DOMAIN index.records = 1..Len(lines) /\ Len(index.records) = Len(lines)
  BY <1>2 DEF PiIndex
<1>4. \A i \in 1..Len(lines) : PiMarked(lines, i, index.records[i])
  BY DEF PiIndex
<1>5. QED
  BY <1>1, <1>3, <1>4 DEF IsIndex, PiMarked

\* A record joins the index.
LEMMA IndexAppend ==
  ASSUME NEW index, NEW lines \in Seq(Lines("pi")), NEW line \in Lines("pi"), NEW more, more = Append(lines, line),
         PiIndex(index, lines), NEW record, PiMarked(more, Len(lines) + 1, record),
         NEW next, next = [version |-> next.version, leaf |-> next.leaf, previous |-> next.previous,
                           records |-> Append(index.records, record)],
         next.version = PiVersion(more)
  PROVE  PiIndex(next, more)
<1> DEFINE n == Len(lines)
           old == index.records
           new == next.records
<1>1. /\ more \in Seq(Lines("pi")) /\ n \in Nat /\ Len(more) = n + 1 /\ \A i \in 1..n : more[i] = lines[i]
  BY LinesAppend
<1>2. PICK S : old \in Seq(S)
  BY DEF PiIndex
<1>3. Len(old) = n /\ \A i \in 1..n : PiMarked(lines, i, old[i])
  BY DEF PiIndex
<1> DEFINE T == S \cup {record}
<1>4. old \in Seq(T) /\ record \in T
  BY <1>2, SeqMonotonic
<1>5. new = Append(old, record)
  OBVIOUS
<1> HIDE DEF T, old, new, n
<1>6. new \in Seq(T) /\ Len(new) = n + 1 /\ new[n + 1] = record /\ \A i \in 1..n : new[i] = old[i]
  BY <1>3, <1>4, <1>5
<1>7. ASSUME NEW i \in 1..(n + 1) PROVE PiMarked(more, i, new[i])
  <2>1. CASE i = n + 1
    BY <1>6, <2>1 DEF n
  <2>2. CASE i # n + 1
    <3>1. i \in 1..n
      BY <1>1, <2>2
    <3>2. PiMarked(lines, i, old[i]) /\ more[i] = lines[i] /\ new[i] = old[i]
      BY <1>1, <1>3, <1>6, <3>1
    <3>3. QED
      BY <3>2 DEF PiMarked
  <2>3. QED
    BY <2>1, <2>2
<1>8. next = [version |-> next.version, leaf |-> next.leaf, previous |-> next.previous, records |-> next.records]
  <2>1. next.records = Append(index.records, record)
    OBVIOUS
  <2>2. QED
    BY <2>1
<1>9. QED
  BY <1>1, <1>6, <1>7, <1>8 DEF PiIndex, new

LEMMA VersionStays ==
  ASSUME NEW lines \in Seq(Lines("pi")), NEW line \in Lines("pi"), NEW more, more = Append(lines, line)
  PROVE  /\ Len(lines) # 0 => PiVersion(more) = PiVersion(lines)
         /\ Len(lines) = 0 =>
              PiVersion(more) = IF line.form = "record" /\ ~TooLarge(line) /\ line.rec.type = "session"
                                THEN IF line.rec.version = 0 THEN 1 ELSE line.rec.version ELSE 0
         /\ Len(lines) = 0 => PiVersion(lines) = 0
<1>1. /\ more \in Seq(Lines("pi")) /\ Len(lines) \in Nat /\ Len(more) = Len(lines) + 1
      /\ more[Len(lines) + 1] = line /\ \A i \in 1..Len(lines) : more[i] = lines[i]
  BY LinesAppend
<1>2. more # <<>> /\ (lines = <<>> <=> Len(lines) = 0)
  BY <1>1
<1>3. CASE Len(lines) = 0
  <2>1. more[1] = line
    BY <1>1, <1>3
  <2>2. QED
    BY <1>2, <1>3, <2>1 DEF PiVersion
<1>4. CASE Len(lines) # 0
  <2>1. more[1] = lines[1]
    BY <1>1, <1>4
  <2>2. QED
    BY <1>2, <1>4, <2>1 DEF PiVersion
<1>5. QED
  BY <1>3, <1>4

\* The body of buildIndex's loop keeps what the index says about its lines.
LEMMA IndexGrows ==
  ASSUME NEW index, NEW lines \in Seq(Lines("pi")), NEW line \in Lines("pi"), NEW more, more = Append(lines, line),
         PiIndex(index, lines), NEW at, at = Len(lines) + 1
  PROVE  PiIndex(Indexed(index, line, at), more)
<1> DEFINE next == Indexed(index, line, at)
<1>0. /\ index = [version |-> index.version, leaf |-> index.leaf, previous |-> index.previous,
                  records |-> index.records]
      /\ index.version = PiVersion(lines)
  BY DEF PiIndex
<1>1. /\ Len(lines) \in Nat /\ at \in Nat /\ more[at] = line /\ (at = 1 <=> Len(lines) = 0)
  BY LinesAppend
<1>2. line.form \in {"record", "blank", "garbage", "torn"}
  BY RecordsAreTyped
<1>3. CASE TooLarge(line) \/ line.form # "record" \/ line.rec.type = ""
  <2> DEFINE large == TooLarge(line)
             record == [line |-> at, header |-> FALSE, tooLarge |-> large, malformed |-> ~large, id |-> "",
                        parent |-> ""]
  <2>1. next = Pi!IndexUnreadable(index, at, large)
    <3>1. CASE TooLarge(line)
      BY <3>1 DEF Indexed
    <3>2. CASE ~TooLarge(line)
      <4>1. large = FALSE
        BY <3>2 DEF TooLarge
      <4>2. next = Pi!IndexUnreadable(index, at, FALSE)
        BY <1>3, <3>2 DEF Indexed
      <4>3. QED
        BY <4>1, <4>2
    <3>3. QED
      BY <3>1, <3>2
  <2>2. next = [index EXCEPT !.records = Append(@, record)]
    BY <2>1 DEF Pi!IndexUnreadable
  <2>3. PiMarked(more, at, record)
    BY <1>1, <1>3 DEF PiMarked
  <2> HIDE DEF record, next
  <2>4. next = [version |-> next.version, leaf |-> next.leaf, previous |-> next.previous,
                records |-> Append(index.records, record)] /\ next.version = index.version
    BY <1>0, <2>2
  <2>5. next.version = PiVersion(more)
    BY <1>0, <1>3, <2>4, VersionStays
  <2>6. QED
    BY <2>3, <2>4, <2>5, IndexAppend DEF next
<1>4. CASE ~(TooLarge(line) \/ line.form # "record" \/ line.rec.type = "") /\ at = 1 /\ line.rec.type = "session"
  <2> DEFINE record == [line |-> at, header |-> TRUE, tooLarge |-> FALSE, malformed |-> FALSE, id |-> "", parent |-> ""]
             version == IF line.rec.version = 0 THEN 1 ELSE line.rec.version
  <2>1. next = Pi!IndexHeader(index, line.rec, at)
    BY <1>4 DEF Indexed
  <2>2. next = [index EXCEPT !.version = version, !.leaf = line.rec.leaf, !.records = Append(@, record)]
    BY <2>1 DEF Pi!IndexHeader
  <2>3. PiMarked(more, at, record)
    BY <1>1, <1>4 DEF PiMarked
  <2> HIDE DEF record, next, version
  <2>4. next = [version |-> next.version, leaf |-> next.leaf, previous |-> next.previous,
                records |-> Append(index.records, record)] /\ next.version = version
    BY <1>0, <2>2
  <2>5. next.version = PiVersion(more)
    BY <1>1, <1>4, <2>4, VersionStays DEF version
  <2>6. QED
    BY <2>3, <2>4, <2>5, IndexAppend DEF next
<1>5. CASE ~(TooLarge(line) \/ line.form # "record" \/ line.rec.type = "") /\ ~(at = 1 /\ line.rec.type = "session")
  <2> DEFINE linear == index.version = 1
             id == IF linear /\ line.rec.id = "" THEN Pi!LineID(at) ELSE line.rec.id
             previous == IF linear THEN id ELSE index.previous
             parent == IF linear THEN index.previous ELSE line.rec.parent
             record == [line |-> at, header |-> FALSE, tooLarge |-> FALSE, malformed |-> FALSE, id |-> id,
                        parent |-> parent]
  <2>1. next = Pi!IndexEntry(index, line.rec, at)
    BY <1>5 DEF Indexed
  <2>2. next = [index EXCEPT !.previous = previous, !.records = Append(@, record)]
    BY <2>1 DEF Pi!IndexEntry
  <2> HIDE DEF next, id, previous, parent
  <2>3. PiMarked(more, at, record)
    BY <1>1, <1>5 DEF PiMarked
  <2> HIDE DEF record
  <2>4. next = [version |-> next.version, leaf |-> next.leaf, previous |-> next.previous,
                records |-> Append(index.records, record)] /\ next.version = index.version
    BY <1>0, <2>2
  <2>5. next.version = PiVersion(more)
    BY <1>0, <1>1, <1>5, <2>4, VersionStays
  <2>6. QED
    BY <2>3, <2>4, <2>5, IndexAppend DEF next
<1>6. QED
  BY <1>3, <1>4, <1>5

(***************************************************************************)
(* The stages of Pi's Parse: the index while it is built, what the         *)
(* analysis makes of it, and what has been passed on so far.               *)
(***************************************************************************)

Unanalyzed == reader.order = <<>> /\ reader.active = {} /\ seen.passed = <<>>

\* What was passed on and what is left of the order are the order.
Analyzed ==
  /\ seen.passed \in Seq(1..Len(seen.lines)) /\ reader.order \in Seq(1..Len(seen.lines))
  /\ seen.passed \o reader.order = Pi!Order(reader.index.records)
  /\ reader.active = Pi!ActivePath(reader.index)

PiStage ==
  harness = "pi" =>
    /\ PiIndex(reader.index, seen.lines)
    /\ reader.pc # "read"
    /\ reader.pc # "done" => reader.error = "none" /\ ~reader.changed
    /\ reader.pc \in {"stat", "open", "index", "indexed"} => Unanalyzed
    /\ reader.pc \in {"emit", "after"} => Analyzed
    /\ reader.pc = "after" \/ (reader.pc = "done" /\ reader.error = "none") =>
         Analyzed /\ reader.order = <<>>
    /\ Unanalyzed \/ Analyzed

LEMMA StageStarts == Init => PiStage
<1> SUFFICES ASSUME Init, harness = "pi" PROVE PiStage
  BY DEF PiStage
<1>1. /\ reader.changed = FALSE /\ reader.error = "none"
      /\ reader.index = Pi!NoIndex /\ reader.order = <<>> /\ reader.active = {}
      /\ reader.pc = "stat" /\ seen.lines = <<>> /\ seen.passed = <<>>
  BY StartOfLines
<1>2. Unanalyzed
  BY <1>1 DEF Unanalyzed
<1>3. PiIndex(reader.index, seen.lines)
  <2> DEFINE index == Pi!NoIndex
  <2>1. index = [version |-> index.version, leaf |-> index.leaf, previous |-> index.previous,
                 records |-> index.records] /\ index.records = <<>> /\ index.version = 0
    BY DEF Pi!NoIndex
  <2>2. <<>> \in Seq({}) /\ Len(<<>>) = 0 /\ PiVersion(<<>>) = 0
    BY DEF PiVersion
  <2> HIDE DEF index
  <2>3. PiIndex(index, <<>>)
    BY <2>1, <2>2 DEF PiIndex
  <2>4. QED
    BY <1>1, <2>3 DEF index
<1>4. QED
  BY <1>1, <1>2, <1>3 DEF PiStage

\* buildIndex reads on, or has met the end of the file.
LEMMA PiReadsOn ==
  ASSUME Locals, PiIndexesLine
  PROVE  /\ reader'.index = Indexed(reader.index, NextLine, NextAt)
         /\ reader'.order = reader.order /\ reader'.active = reader.active
         /\ reader'.changed = reader.changed /\ reader'.error = reader.error
         /\ reader'.pc \in {"index", "indexed"}
<1> DEFINE index == Indexed(reader.index, NextLine, NextAt)
           record == index.records[NextAt]
           lost == record.tooLarge \/ record.malformed
           headless == NextAt = 1 /\ ~record.header
           consumed == Consumed(NextLine, lost, "indexed")
<1>0. reader.pc = "index" /\ IsReader(reader)
  BY DEF PiIndexesLine, Turn, Locals
<1>1. reader' = [consumed EXCEPT !.index = index, !.partial = @ \/ headless]
  BY DEF PiIndexesLine
<1> HIDE DEF lost, headless, index
<1>2. /\ IsReader(consumed) /\ consumed.pc = IF NextLine.form = "torn" THEN "indexed" ELSE reader.pc
      /\ consumed.order = reader.order /\ consumed.active = reader.active
      /\ consumed.changed = reader.changed /\ consumed.error = reader.error
  BY <1>0 DEF Consumed, Marked, IsReader, Fields
<1> HIDE DEF consumed
<1>3. QED
  BY <1>0, <1>1, <1>2 DEF IsReader, Fields, index

LEMMA PiIndexesStage ==
  ASSUME LineInv, LineResult, PiStage, PiIndexesLine
  PROVE  PiStage'
<1> DEFINE index == Indexed(reader.index, NextLine, NextAt)
<1>0. harness = "pi" /\ reader.pc = "index" /\ reader.buffer # <<>> /\ harness' = harness
  BY DEF PiIndexesLine, Turn
<1>1. /\ IsReader(reader) /\ seen.lines \in Seq(Lines("pi")) /\ NextLine \in Lines("pi")
      /\ seen = [before |-> seen.before, lines |-> seen.lines, passed |-> seen.passed,
                 touched |-> seen.touched, stood |-> seen.stood]
  BY <1>0 DEF LineInv, Locals, NextLine
<1>2. seen'.lines = Append(seen.lines, NextLine) /\ seen'.passed = seen.passed
  BY <1>1 DEF PiIndexesLine, Sees
<1>3. /\ reader'.index = index /\ reader'.order = reader.order /\ reader'.active = reader.active
      /\ reader'.changed = reader.changed /\ reader'.error = reader.error
      /\ reader'.pc \in {"index", "indexed"}
  BY <1>0, PiReadsOn DEF LineInv
<1>4. PiIndex(reader'.index, seen'.lines)
  <2>1. NextAt = Len(seen.lines) + 1
    BY <1>0 DEF LineResult, NextAt
  <2>2. QED
    BY <1>0, <1>1, <1>2, <1>3, <2>1, IndexGrows DEF PiStage
<1>5. Unanalyzed'
  BY <1>0, <1>2, <1>3 DEF PiStage, Unanalyzed
<1>6. QED
  BY <1>0, <1>3, <1>4, <1>5 DEF PiStage

LEMMA PiAnalyzesStage ==
  ASSUME LineInv, PiStage, PiAnalyzes
  PROVE  PiStage'
<1> DEFINE order == Pi!Order(reader.index.records)
           active == Pi!ActivePath(reader.index)
           n == Len(seen.lines)
<1>0. harness = "pi" /\ reader.pc \in {"index", "indexed"} /\ harness' = harness /\ seen' = seen
  BY DEF PiAnalyzes, Turn
<1>1. IsReader(reader) /\ seen.lines \in Seq(Lines("pi")) /\ PiIndex(reader.index, seen.lines) /\ Unanalyzed
      /\ reader.error = "none" /\ ~reader.changed
  BY <1>0 DEF LineInv, Locals, PiStage
<1>2. order \in Seq(1..n)
  <2>1. IsIndex(reader.index.records, n)
    BY <1>1, PiIndexIs
  <2>2. QED
    BY <2>1, OrderIs
<1> HIDE DEF order, active
<1>3. PICK more : reader' = [reader EXCEPT !.pc = "emit", !.order = order, !.active = active, !.partial = @ \/ more]
  <2> DEFINE more == ~Pi!Supported(reader.index.version) \/ Pi!Irregular(reader.index)
  <2>1. reader' = [reader EXCEPT !.pc = "emit", !.order = order, !.active = active, !.partial = @ \/ more]
    BY DEF PiAnalyzes, order, active
  <2> HIDE DEF more
  <2>2. QED
    BY <2>1
<1>4. /\ reader'.index = reader.index /\ reader'.order = order /\ reader'.active = active
      /\ reader'.changed = reader.changed /\ reader'.error = reader.error /\ reader'.pc = "emit"
  BY <1>1, <1>3 DEF IsReader, Fields
<1>5. Analyzed'
  <2>1. <<>> \o order = order /\ <<>> \in Seq(1..n)
    BY <1>2
  <2>2. QED
    BY <1>0, <1>1, <1>2, <1>4, <2>1 DEF Analyzed, Unanalyzed, order, active
<1>6. QED
  BY <1>0, <1>1, <1>4, <1>5 DEF PiStage

\* One record is passed on.
LEMMA Passes ==
  ASSUME NEW S, NEW passed \in Seq(S), NEW order \in Seq(S), order # <<>>
  PROVE  /\ Append(passed, Head(order)) \in Seq(S) /\ Tail(order) \in Seq(S) /\ Head(order) \in S
         /\ Append(passed, Head(order)) \o Tail(order) = passed \o order
<1> DEFINE more == Append(passed, Head(order))
           rest == Tail(order)
           all == passed \o order
<1>1. /\ more \in Seq(S) /\ rest \in Seq(S) /\ Head(order) \in S /\ Head(order) = order[1]
      /\ Len(more) = Len(passed) + 1 /\ Len(rest) = Len(order) - 1
      /\ Len(order) \in Nat /\ Len(passed) \in Nat /\ Len(order) # 0
  OBVIOUS
<1>2. /\ more \o rest \in Seq(S) /\ all \in Seq(S)
      /\ Len(more \o rest) = Len(passed) + Len(order) /\ Len(all) = Len(passed) + Len(order)
  BY <1>1
<1>3. ASSUME NEW i \in 1..(Len(passed) + Len(order)) PROVE (more \o rest)[i] = all[i]
  <2>1. CASE i <= Len(passed)
    <3>1. i \in 1..Len(passed)
      BY <1>1, <2>1
    <3>2. more[i] = passed[i] /\ all[i] = passed[i]
      BY <3>1
    <3>3. (more \o rest)[i] = more[i]
      BY <1>1, <3>1
    <3>4. QED
      BY <3>2, <3>3
  <2>2. CASE i = Len(passed) + 1
    <3>1. more[i] = order[1] /\ all[i] = order[1]
      BY <1>1, <2>2
    <3>2. (more \o rest)[i] = more[i]
      BY <1>1, <2>2
    <3>3. QED
      BY <3>1, <3>2
  <2>3. CASE i > Len(passed) + 1
    <3> DEFINE k == i - Len(passed) - 1
    <3>1. k \in 1..Len(rest) /\ i = Len(more) + k /\ i = Len(passed) + (k + 1) /\ k + 1 \in 1..Len(order)
      BY <1>1, <2>3
    <3> HIDE DEF k
    <3>2. rest[k] = order[k + 1]
      BY <1>1, <3>1
    <3>3. all[i] = order[k + 1]
      BY <1>1, <3>1
    <3>4. (more \o rest)[i] = rest[k]
      BY <1>1, <3>1
    <3>5. QED
      BY <3>2, <3>3, <3>4
  <2>4. QED
    BY <1>1, <2>1, <2>2, <2>3
<1>4. more \o rest = all
  <2> HIDE DEF more, rest, all
  <2>1. QED
    BY <1>2, <1>3, SeqEqual
<1>5. QED
  BY <1>1, <1>4

LEMMA PiEmitsStage ==
  ASSUME LineInv, PiStage, PiEmits
  PROVE  /\ PiStage'
         /\ Head(reader.order) \in 1..Len(seen.lines)
         /\ seen'.passed = Append(seen.passed, Head(reader.order)) /\ reader'.pc = "emit"
         /\ seen'.lines = seen.lines /\ seen'.before = seen.before /\ seen'.stood = seen.stood
         /\ reader'.before = reader.before
<1> DEFINE record == reader.index.records[Head(reader.order)]
           events == IF record.tooLarge THEN <<>> ELSE PiEvents(record)
           lost == ~record.tooLarge /\ events = Pi!MapError
           n == Len(seen.lines)
<1>0. harness = "pi" /\ reader.pc = "emit" /\ reader.order # <<>> /\ harness' = harness
  BY DEF PiEmits, Turn
<1>1. /\ IsReader(reader) /\ PiIndex(reader.index, seen.lines) /\ Analyzed
      /\ seen = [before |-> seen.before, lines |-> seen.lines, passed |-> seen.passed,
                 touched |-> seen.touched, stood |-> seen.stood]
      /\ reader.error = "none" /\ ~reader.changed
  BY <1>0 DEF LineInv, Locals, PiStage
<1>2. /\ reader'.index = reader.index /\ reader'.order = Tail(reader.order) /\ reader'.active = reader.active
      /\ reader'.changed = reader.changed /\ reader'.error = reader.error /\ reader'.pc = "emit"
      /\ reader'.before = reader.before
  <2>1. reader' = [Marked(lost, IF lost THEN 1 ELSE 0) EXCEPT !.order = Tail(@)]
    BY DEF PiEmits
  <2> HIDE DEF lost
  <2>2. QED
    BY <1>0, <1>1, <2>1 DEF Marked, IsReader, Fields
<1>3. /\ seen'.passed = Append(seen.passed, Head(reader.order))
      /\ seen'.lines = seen.lines /\ seen'.before = seen.before /\ seen'.stood = seen.stood
  BY <1>1 DEF PiEmits
<1>4. Analyzed' /\ Head(reader.order) \in 1..n
  <2> DEFINE N == 1..n
             passed == seen.passed
             order == reader.order
  <2>1. passed \in Seq(N) /\ order \in Seq(N) /\ order # <<>>
    BY <1>0, <1>1 DEF Analyzed
  <2>2. seen'.passed = Append(passed, Head(order)) /\ reader'.order = Tail(order)
    BY <1>2, <1>3
  <2> HIDE DEF N, passed, order
  <2>3. /\ Append(passed, Head(order)) \in Seq(N) /\ Tail(order) \in Seq(N) /\ Head(order) \in N
        /\ Append(passed, Head(order)) \o Tail(order) = passed \o order
    BY <2>1, Passes
  <2>4. /\ seen'.passed \in Seq(N) /\ reader'.order \in Seq(N) /\ Head(order) \in N
        /\ seen'.passed \o reader'.order = passed \o order
    BY <2>2, <2>3
  <2>5. QED
    BY <1>1, <1>2, <1>3, <2>4 DEF Analyzed, N, passed, order
<1>5. QED
  BY <1>0, <1>1, <1>2, <1>3, <1>4 DEF PiStage

LEMMA StageStep == LineInv /\ LineResult /\ PiStage /\ [Next]_vars => PiStage'
<1> SUFFICES ASSUME LineInv, LineResult, PiStage, [Next]_vars, harness = "pi" PROVE PiStage'
  BY HarnessStays DEF PiStage
<1>0. harness' = harness
  BY HarnessStays
<1>1. CASE Keeps
  <2>1. /\ UNCHANGED <<seen.lines, seen.passed>>
        /\ UNCHANGED <<reader.changed, reader.error, reader.index, reader.order, reader.active>>
    BY <1>1 DEF Keeps
  <2>2. (Unanalyzed <=> Unanalyzed') /\ (Analyzed <=> Analyzed')
    BY <2>1 DEF Unanalyzed, Analyzed
  <2>3. QED
    BY <1>0, <1>1, <2>1, <2>2 DEF Keeps, PiStage
<1>2. CASE GivesUp
  <2>1. /\ UNCHANGED <<seen.lines, seen.passed>>
        /\ UNCHANGED <<reader.index, reader.order, reader.active>>
    BY <1>2 DEF GivesUp
  <2>2. (Unanalyzed <=> Unanalyzed') /\ (Analyzed <=> Analyzed')
    BY <2>1 DEF Unanalyzed, Analyzed
  <2>3. QED
    BY <1>0, <1>2, <2>1, <2>2 DEF GivesUp, PiStage
<1>3. CASE PiIndexesLine
  BY <1>3, PiIndexesStage
<1>4. CASE PiAnalyzes
  BY <1>4, PiAnalyzesStage
<1>5. CASE PiEmits
  BY <1>5, PiEmitsStage
<1>6. CASE ClaudeReadsLine \/ CodexReadsLine
  BY <1>6 DEF ClaudeReadsLine, CodexReadsLine, Turn
<1>7. QED
  BY <1>1, <1>2, <1>3, <1>4, <1>5, <1>6, LineMoves

LEMMA StageAlways == Spec => [](LineInv /\ LineResult /\ LinesTold /\ PiStage)
<1>1. Init => PiStage
  BY StageStarts
<1>2. (LineInv /\ LineResult /\ LinesTold) /\ PiStage /\ [Next]_vars => PiStage'
  BY StageStep
<1>3. QED
  BY <1>1, <1>2, TellingAlways, PTL DEF Spec

LEMMA PassedIsOrdered == LineInv /\ PiStage => EntriesOrdered /\ ActivePathIsAncestry
<1> SUFFICES ASSUME LineInv, PiStage, harness = "pi", Returned
             PROVE  /\ Ordered(reader.index.records, seen.passed)
                    /\ reader.active # {} => Ancestry(reader.index, reader.active)
  BY EntriesOrderedIs, ActivePathIsAncestryIs
<1> DEFINE n == Len(seen.lines)
<1>1. reader.pc = "done" /\ reader.error = "none"
  BY DEF Returned, Done, Running
<1>2. /\ PiIndex(reader.index, seen.lines) /\ Analyzed /\ reader.order = <<>>
      /\ seen.lines \in Seq(Lines("pi"))
  BY <1>1 DEF PiStage, LineInv, Locals
<1>3. IsIndex(reader.index.records, n)
  BY <1>2, PiIndexIs
<1>4. seen.passed = Pi!Order(reader.index.records) /\ reader.active = Pi!ActivePath(reader.index)
  <2> DEFINE passed == seen.passed
             N == 1..n
  <2>1. passed \in Seq(N) /\ passed \o <<>> = Pi!Order(reader.index.records)
    BY <1>2 DEF Analyzed
  <2> HIDE DEF passed, N
  <2>2. passed \o <<>> = passed
    BY <2>1
  <2>3. QED
    BY <1>2, <2>1, <2>2 DEF Analyzed, passed
<1> HIDE DEF n
<1>5. Ordered(reader.index.records, seen.passed)
  BY <1>3, <1>4, OrderedIs
<1>6. reader.active # {} => Ancestry(reader.index, reader.active)
  BY <1>3, <1>4, AncestryIs
<1>7. QED
  BY <1>5, <1>6

\* Pi passes every record of its index on once, an entry that descends from a
\* root after its parent, and keeps the order of a file that has it already.
THEOREM PiOrdersEntries == Spec => []EntriesOrdered
<1>1. LineInv /\ PiStage => EntriesOrdered
  BY PassedIsOrdered
<1>2. QED
  BY <1>1, StageAlways, PTL

\* A known active path is one line of descent, from a root to the leaf.
THEOREM PiActivePathIsAncestry == Spec => []ActivePathIsAncestry
<1>1. LineInv /\ PiStage => ActivePathIsAncestry
  BY PassedIsOrdered
<1>2. QED
  BY <1>1, StageAlways, PTL

(***************************************************************************)
(* Pi's second pass: what the records passed on so far tell.               *)
(***************************************************************************)

PassedTold(lines, passed) == [i \in DOMAIN passed |-> LineSays("pi", lines, passed[i])]

\* The file is still, by its status, what it was at the first stat.
Certain ==
  \/ reader.pc \in {"emit", "after"} /\ PathThere /\ Stat = reader.before
  \/ reader.pc = "done" /\ reader.error = "none" /\ ~reader.changed /\ seen.stood

\* As long as the file is what it was at the first stat, what was emitted is
\* what its lines tell, in the order they were passed on.
PiEmitted ==
  harness = "pi" =>
    /\ emitted \in Seq(Messages) /\ Distinct(emitted) /\ Positions(emitted) \subseteq ToSet(seen.passed)
    /\ Certain => emitted = FlattenSeq(PassedTold(seen.before, seen.passed))

\* An event that is not usable tells nothing.
LEMMA SilentEvent == ASSUME NEW event, ~Usable(event) PROVE UsageEvents(<<event>>) = <<>>
<1>1. FirstOnly(<<event>>, 1) /\ <<event>>[1] = event
  BY DEF FirstOnly
<1>2. Told(event) = <<>>
  BY DEF Told
<1>3. QED
  BY <1>1, <1>2, FirstIsTold

\* What a record of the index tells: at most one message, at its line; and, if
\* nothing was written, what the line told when Parse began.
LEMMA RecordTells ==
  ASSUME LineInv, PiStage, harness = "pi", reader.pc = "emit", NEW i \in 1..Len(seen.lines)
  PROVE  LET record == reader.index.records[i]
             events == IF record.tooLarge THEN <<>> ELSE PiEvents(record)
         IN  /\ OneAt(UsageEvents(events), i)
             /\ PathThere /\ Stat = reader.before =>
                  UsageEvents(events) = LineSays("pi", seen.before, i) /\ seen.before = seen.lines
<1> DEFINE record == reader.index.records[i]
           events == IF record.tooLarge THEN <<>> ELSE PiEvents(record)
           first == seen.lines[i]
           lines == Inode(reader.fd).lines
           says == LineSays("pi", seen.lines, i)
<1>1. /\ Disk /\ Locals /\ Snapshot /\ PiMarked(seen.lines, i, record)
      /\ reader.index.version = PiVersion(seen.lines)
  BY DEF LineInv, PiStage, PiIndex
<1>2. /\ record.line = i
      /\ record.header <=> i = 1 /\ first.form = "record" /\ ~TooLarge(first) /\ first.rec.type = "session"
      /\ record.tooLarge <=> TooLarge(first)
      /\ record.malformed <=> ~TooLarge(first) /\ (first.form # "record" \/ first.rec.type = "")
  BY <1>1 DEF PiMarked
<1>3. seen.lines \in Seq(Lines("pi")) /\ i \in Nat /\ first \in Lines("pi")
  BY <1>1 DEF Locals
<1>4. says = IF first.form # "record" \/ TooLarge(first) THEN <<>>
             ELSE IF PiVersion(seen.lines) \in 1..3 THEN PiSays(first.rec, i) ELSE <<>>
  BY DEF LineSays
<1>5. lines \in Seq(Lines("pi"))
  <2>1. reader.fd \in 1..Len(store.inodes)
    BY <1>1 DEF Locals, Disk
  <2>2. Inode(reader.fd) \in [lines : Contents(harness), size : Nat, mtime : Nat]
    BY <1>1, <2>1, InodesAreTyped
  <2>3. QED
    BY <2>2 DEF Contents
<1>6. PathThere /\ Stat = reader.before => seen.before = seen.lines /\ lines = seen.lines
  BY <1>1 DEF Snapshot, Still
<1> DEFINE tells == UsageEvents(events)
<1>7. OneAt(<<>>, i)
  BY DEF OneAt
<1>8. OneAt(tells, i) /\ (lines = seen.lines => tells = says)
  <2>1. CASE record.tooLarge
    <3>1. says = <<>> /\ events = <<>>
      BY <1>2, <1>4, <2>1
    <3>2. QED
      BY <1>7, <3>1, NothingTellsNothing
  <2>2. CASE ~record.tooLarge /\ record.malformed
    <3>1. says = <<>>
      <4>1. first.form # "record" \/ first.rec.type = ""
        BY <1>2, <2>2
      <4>2. first.rec.type = "" => PiSays(first.rec, i) = <<>>
        BY DEF PiSays
      <4>3. QED
        BY <1>4, <4>1, <4>2
    <3>2. events = <<Pi!UnknownEvent(i)>>
      BY <1>2, <2>2 DEF PiEvents
    <3>3. ~Usable(Pi!UnknownEvent(i))
      BY DEF Usable, Pi!UnknownEvent, Pi!Event
    <3> HIDE DEF events, says
    <3>4. tells = <<>>
      BY <3>2, <3>3, SilentEvent
    <3>5. QED
      BY <1>7, <3>1, <3>4
  <2>3. CASE ~record.tooLarge /\ ~record.malformed /\ record.header
    <3>1. says = <<>>
      <4>1. PiSays(first.rec, i) = <<>>
        BY <1>2, <2>3 DEF PiSays
      <4>2. QED
        BY <1>4, <4>1
    <3>2. events = <<Pi!HeaderEvent(i)>>
      BY <1>2, <2>3 DEF PiEvents
    <3>3. ~Usable(Pi!HeaderEvent(i))
      BY DEF Usable, Pi!HeaderEvent, Pi!Event
    <3> HIDE DEF events, says
    <3>4. tells = <<>>
      BY <3>2, <3>3, SilentEvent
    <3>5. QED
      BY <1>7, <3>1, <3>4
  <2>4. CASE ~record.tooLarge /\ ~record.malformed /\ ~record.header /\ ~Pi!Supported(reader.index.version)
    <3>1. says = <<>>
      BY <1>1, <1>4, <2>4 DEF Pi!Supported
    <3>2. events = <<Pi!UnknownEvent(i)>>
      BY <1>2, <2>4 DEF PiEvents
    <3>3. ~Usable(Pi!UnknownEvent(i))
      BY DEF Usable, Pi!UnknownEvent, Pi!Event
    <3> HIDE DEF events, says
    <3>4. tells = <<>>
      BY <3>2, <3>3, SilentEvent
    <3>5. QED
      BY <1>7, <3>1, <3>4
  <2>5. CASE ~record.tooLarge /\ ~record.malformed /\ ~record.header /\ Pi!Supported(reader.index.version)
    <3>1. events = InPlace(record)
      BY <2>5 DEF PiEvents
    <3>2. says = PiSays(first.rec, i) /\ first.form = "record" /\ ~TooLarge(first)
      BY <1>1, <1>2, <1>4, <2>5 DEF Pi!Supported
    <3>3. CASE i \in DOMAIN lines /\ lines[i].form = "record" /\ ~TooLarge(lines[i])
      <4>1. events = Pi!MapEntry(lines[i].rec, i)
        BY <1>2, <3>1, <3>3 DEF InPlace
      <4>2. Pi!IsEntry(lines[i].rec)
        <5>1. lines[i] \in Lines("pi")
          BY <1>5, <3>3
        <5>2. QED
          BY <5>1, RecordsAreTyped
      <4> HIDE DEF events, lines, says
      <4>3. tells = PiSays(lines[i].rec, i)
        BY <4>1, <4>2, PiTold
      <4>4. OneAt(PiSays(lines[i].rec, i), i)
        BY <1>3, <4>2, PiSaysOne
      <4>5. QED
        BY <3>2, <4>3, <4>4
    <3>4. CASE ~(i \in DOMAIN lines /\ lines[i].form = "record" /\ ~TooLarge(lines[i]))
      <4>1. events = <<>>
        BY <1>2, <3>1, <3>4 DEF InPlace, Pi!MapError
      <4>2. lines # seen.lines
        BY <1>3, <3>2, <3>4
      <4> HIDE DEF events, lines, says
      <4>3. QED
        BY <1>7, <4>1, <4>2, NothingTellsNothing
    <3>5. QED
      BY <3>3, <3>4
  <2>6. QED
    BY <2>1, <2>2, <2>3, <2>4, <2>5
<1> HIDE DEF lines
<1>9. QED
  BY <1>6, <1>8

LEMMA PassedAppend ==
  ASSUME NEW lines \in Seq(Lines("pi")), NEW passed \in Seq(1..Len(lines)), NEW i \in 1..Len(lines)
  PROVE  FlattenSeq(PassedTold(lines, Append(passed, i)))
           = FlattenSeq(PassedTold(lines, passed)) \o LineSays("pi", lines, i)
<1> DEFINE N == 1..Len(lines)
           S == Seq(Messages)
           says == [k \in N |-> LineSays("pi", lines, k)]
           more == Append(passed, i)
           m == Len(passed)
           told == PassedTold(lines, passed)
           all == PassedTold(lines, more)
           last == LineSays("pi", lines, i)
<1>1. says \in [N -> S]
  <2>1. \A k \in N : LineSays("pi", lines, k) \in S
    BY LineSaysOne, OneIsSeq
  <2> HIDE DEF S
  <2>2. QED
    BY <2>1
<1> HIDE DEF N
<1>2. /\ m \in Nat /\ more \in Seq(N) /\ Len(more) = m + 1 /\ more[m + 1] = i
      /\ DOMAIN passed = 1..m /\ DOMAIN more = 1..(m + 1)
      /\ (\A k \in 1..m : more[k] = passed[k] /\ passed[k] \in N) /\ i \in N
  BY DEF N
<1>3. /\ told = [k \in 1..m |-> says[passed[k]]]
      /\ all = [k \in 1..(m + 1) |-> says[more[k]]] /\ last = says[i]
  <2>1. \A k \in N : says[k] = LineSays("pi", lines, k)
    OBVIOUS
  <2>2. \A k \in 1..(m + 1) : more[k] \in N
    BY <1>2
  <2> HIDE DEF says, m, more
  <2>3. told = [k \in 1..m |-> LineSays("pi", lines, passed[k])]
    BY <1>2 DEF PassedTold
  <2>4. all = [k \in 1..(m + 1) |-> LineSays("pi", lines, more[k])]
    BY <1>2 DEF PassedTold
  <2>5. \A k \in 1..m : LineSays("pi", lines, passed[k]) = says[passed[k]]
    BY <1>2, <2>1
  <2>6. \A k \in 1..(m + 1) : LineSays("pi", lines, more[k]) = says[more[k]]
    BY <2>1, <2>2
  <2> HIDE DEF told, all
  <2>7. QED
    BY <1>2, <2>1, <2>3, <2>4, <2>5, <2>6
<1> HIDE DEF says, told, all, last, S, m, more
<1>4. told \in [1..m -> S] /\ all \in [1..(m + 1) -> S] /\ last \in S
  <2>1. \A k \in 1..(m + 1) : more[k] \in N
    BY <1>2
  <2>2. \A k \in N : says[k] \in S
    BY <1>1
  <2>3. QED
    BY <1>2, <1>3, <2>1, <2>2
<1>5. told \in Seq(S) /\ all \in Seq(S) /\ Len(told) = m /\ Len(all) = m + 1
  BY <1>2, <1>4
<1>6. all = Append(told, last)
  <2>1. Append(told, last) \in Seq(S) /\ Len(Append(told, last)) = m + 1
        /\ \A k \in 1..(m + 1) : Append(told, last)[k] = IF k = m + 1 THEN last ELSE told[k]
    BY <1>2, <1>4, <1>5
  <2>2. \A k \in 1..(m + 1) : all[k] = IF k = m + 1 THEN last ELSE told[k]
    <3> SUFFICES ASSUME NEW k \in 1..(m + 1) PROVE all[k] = IF k = m + 1 THEN last ELSE told[k]
      OBVIOUS
    <3>1. CASE k = m + 1
      BY <1>2, <1>3, <3>1
    <3>2. CASE k # m + 1
      <4>1. k \in 1..m
        BY <1>2, <3>2
      <4>2. QED
        BY <1>2, <1>3, <3>2, <4>1
    <3>3. QED
      BY <3>1, <3>2
  <2>3. QED
    BY <1>5, <2>1, <2>2, SeqEqual
<1>7. FlattenSeq(all) = FlattenSeq(told) \o last
  BY <1>4, <1>5, <1>6, FlattenAppend DEF S
<1>8. QED
  BY <1>7 DEF all, told, last, more

\* What comes next was not passed on before.
LEMMA HeadIsNew ==
  ASSUME NEW N, NEW passed \in Seq(N), NEW order \in Seq(N), order # <<>>,
         NEW all, all = passed \o order, Once(all, Len(all))
  PROVE  Head(order) \notin ToSet(passed) /\ ToSet(Append(passed, Head(order))) = ToSet(passed) \cup {Head(order)}
<1> DEFINE m == Len(passed)
           x == Head(order)
<1>1. /\ m \in Nat /\ Len(order) \in Nat /\ Len(order) # 0 /\ x = order[1] /\ x \in N
      /\ Len(all) = m + Len(order) /\ all[m + 1] = x
  OBVIOUS
<1>2. \A i \in 1..m : all[i] = passed[i]
  OBVIOUS
<1>3. ToSet(passed) = {passed[i] : i \in 1..m}
  BY PiToSetIs
<1>4. x \notin ToSet(passed)
  <2> SUFFICES ASSUME NEW i \in 1..m, passed[i] = x PROVE FALSE
    BY <1>3
  <2>1. all[i] = all[m + 1] /\ i \in 1..Len(all) /\ m + 1 \in 1..Len(all) /\ i # m + 1
    BY <1>1, <1>2
  <2> HIDE DEF m, x
  <2>2. QED
    BY <2>1 DEF Once
<1> DEFINE more == Append(passed, x)
<1>5. more \in Seq(N) /\ Len(more) = m + 1 /\ more[m + 1] = x /\ \A i \in 1..m : more[i] = passed[i]
  BY <1>1
<1> HIDE DEF more, m, x
<1>6. ToSet(more) = {more[i] : i \in 1..(m + 1)}
  BY <1>5, PiToSetIs
<1>7. {more[i] : i \in 1..(m + 1)} = {passed[i] : i \in 1..m} \cup {x}
  <2>1. \A i \in 1..(m + 1) : i = m + 1 \/ i \in 1..m
    BY <1>1
  <2>2. m + 1 \in 1..(m + 1) /\ \A i \in 1..m : i \in 1..(m + 1)
    BY <1>1
  <2>3. QED
    BY <1>5, <2>1, <2>2
<1>8. QED
  BY <1>3, <1>4, <1>6, <1>7 DEF more, x

LEMMA EmittedStarts == Init => PiEmitted
<1> SUFFICES ASSUME Init, harness = "pi" PROVE PiEmitted
  BY DEF PiEmitted
<1>1. reader.pc = "stat" /\ emitted = <<>> /\ seen.passed = <<>>
  BY StartOfLines
<1>2. emitted \in Seq(Messages) /\ Distinct(emitted) /\ Positions(emitted) = {}
  BY <1>1 DEF Distinct, Positions
<1>3. QED
  BY <1>1, <1>2 DEF PiEmitted, Certain

LEMMA PiEmitsTold ==
  ASSUME LineInv, LineResult, PiStage, PiEmitted, PiEmits
  PROVE  PiEmitted'
<1> DEFINE i == Head(reader.order)
           record == reader.index.records[i]
           events == IF record.tooLarge THEN <<>> ELSE PiEvents(record)
           said == UsageEvents(events)
           n == Len(seen.lines)
<1>0. harness = "pi" /\ reader.pc = "emit" /\ reader.order # <<>> /\ harness' = harness /\ store' = store
      /\ emitted' = emitted \o said
  BY DEF PiEmits, Turn, Emit
<1>1. /\ Analyzed /\ PiIndex(reader.index, seen.lines) /\ seen.lines \in Seq(Lines("pi"))
      /\ i \in 1..n /\ seen'.passed = Append(seen.passed, i) /\ reader'.pc = "emit"
      /\ seen'.before = seen.before /\ reader'.before = reader.before
  BY <1>0, PiEmitsStage DEF PiStage, LineInv, Locals
<1>2. i \notin ToSet(seen.passed) /\ ToSet(seen'.passed) = ToSet(seen.passed) \cup {i}
  <2> DEFINE all == Pi!Order(reader.index.records)
             N == 1..n
  <2>1. Once(all, Len(all))
    <3>1. IsIndex(reader.index.records, n)
      BY <1>1, PiIndexIs
    <3>2. Len(all) = n /\ Once(all, n)
      BY <3>1, OrderIs
    <3> HIDE DEF all, n
    <3>3. QED
      BY <3>2
  <2>2. seen.passed \in Seq(N) /\ reader.order \in Seq(N) /\ all = seen.passed \o reader.order
    BY <1>1 DEF Analyzed
  <2> HIDE DEF all, N
  <2>3. QED
    BY <1>0, <1>1, <2>1, <2>2, HeadIsNew
<1>3. /\ OneAt(said, i)
      /\ PathThere /\ Stat = reader.before =>
           said = LineSays("pi", seen.before, i) /\ seen.before = seen.lines
  BY <1>0, <1>1, RecordTells
<1>4. /\ emitted \in Seq(Messages) /\ Distinct(emitted) /\ Positions(emitted) \subseteq ToSet(seen.passed)
      /\ PathThere /\ Stat = reader.before => emitted = FlattenSeq(PassedTold(seen.before, seen.passed))
  BY <1>0 DEF PiEmitted, Certain
<1> HIDE DEF said
<1>5. /\ emitted' \in Seq(Messages) /\ Distinct(emitted') /\ Positions(emitted') \subseteq ToSet(seen'.passed)
  <2>1. /\ emitted \o said \in Seq(Messages)
        /\ Positions(emitted \o said) \in SUBSET (Positions(emitted) \cup {i})
        /\ Distinct(emitted) /\ i \notin Positions(emitted) => Distinct(emitted \o said)
    BY <1>3, <1>4, Joins
  <2> HIDE DEF i
  <2>2. QED
    BY <1>0, <1>2, <1>4, <2>1
<1>6. ASSUME PathThere', Stat' = reader'.before
      PROVE  emitted' = FlattenSeq(PassedTold(seen'.before, seen'.passed))
  <2>1. PathThere /\ Stat = reader.before
    BY <1>0, <1>1, <1>6 DEF PathThere, Stat, Inode
  <2>2. seen.before = seen.lines /\ seen.passed \in Seq(1..n)
    BY <1>1, <1>3, <2>1 DEF Analyzed
  <2>3. FlattenSeq(PassedTold(seen.lines, Append(seen.passed, i)))
          = FlattenSeq(PassedTold(seen.lines, seen.passed)) \o LineSays("pi", seen.lines, i)
    BY <1>1, <2>2, PassedAppend
  <2> HIDE DEF i
  <2>4. QED
    BY <1>0, <1>1, <1>3, <1>4, <2>1, <2>2, <2>3
<1>7. QED
  BY <1>0, <1>1, <1>5, <1>6 DEF PiEmitted, Certain, Distinct, Positions

\* What is certain after a step that finds nothing was certain before it.
LEMMA StaysCertain ==
  ASSUME LineInv, PiStage, harness = "pi", Keeps, Certain'
  PROVE  Certain /\ seen'.before = seen.before
<1>0. Disk /\ Locals /\ Snapshot
  BY DEF LineInv
<1>1. UNCHANGED <<reader.error, reader.changed>> /\ Between
  BY DEF Keeps
<1>2. CASE reader'.pc \in {"emit", "after"} /\ PathThere' /\ Stat' = reader'.before
  <2>1. reader.pc \in {"emit", "after"}
    <3>1. reader.pc # "read"
      BY DEF PiStage
    <3>2. QED
      BY <1>2, <3>1 DEF Keeps
  <2>2. UNCHANGED reader.before /\ UNCHANGED seen.before
    BY <1>1, <2>1 DEF Between
  <2>3. PathThere /\ Stat = reader.before
    <3>1. CASE UNCHANGED store
      BY <1>2, <2>2, <3>1 DEF PathThere, Stat, Inode
    <3>2. CASE Writes
      <4>1. /\ PathThere /\ Stat'.size >= Stat.size /\ Stat'.mtime >= Stat.mtime
            /\ Stat'.size > Stat.size \/ Stat'.mtime > Stat.mtime
        BY <1>0, <1>2, <3>2, WritesMoveStat
      <4>2. Stat.size >= reader.before.size /\ Stat.mtime >= reader.before.mtime
        BY <1>0, <2>1, <4>1 DEF Snapshot, Since
      <4>3. Stat'.size = reader.before.size /\ Stat'.mtime = reader.before.mtime
        BY <1>2, <2>2
      <4>4. Stat.size \in Nat /\ Stat.mtime \in Nat /\ reader.before.size \in Nat /\ reader.before.mtime \in Nat
        <5>1. store.path \in 1..Len(store.inodes)
          BY <1>0, <4>1 DEF Disk, PathThere
        <5>2. Inode(store.path) \in [lines : Contents(harness), size : Nat, mtime : Nat]
          BY <1>0, <5>1, InodesAreTyped
        <5>3. reader.before \in [size : Nat, mtime : Nat]
          BY <1>0 DEF Locals
        <5>4. QED
          BY <5>2, <5>3 DEF Stat
      <4>5. QED
        BY ONLY <4>1, <4>2, <4>3, <4>4
    <3>3. QED
      BY <1>1, <3>1, <3>2 DEF Between
  <2>4. QED
    BY <2>1, <2>2, <2>3 DEF Certain
<1>3. CASE reader'.pc = "done" /\ reader'.error = "none" /\ ~reader'.changed /\ seen'.stood
  <2>1. reader.pc \in {"done", "after"} /\ reader.error = "none" /\ ~reader.changed
    BY <1>1, <1>3 DEF Keeps
  <2>2. UNCHANGED seen.before
    BY <1>1, <2>1 DEF Between
  <2>3. CASE reader.pc = "done"
    <3>1. seen.stood
      BY <1>1, <1>3, <2>3 DEF Between
    <3>2. QED
      BY <2>1, <2>2, <2>3, <3>1 DEF Certain
  <2>4. CASE reader.pc = "after"
    <3>1. PathThere /\ Stat = reader.before
      BY <1>1, <1>3, <2>4 DEF Between
    <3>2. QED
      BY <2>2, <2>4, <3>1 DEF Certain
  <2>5. QED
    BY <2>1, <2>3, <2>4
<1>4. QED
  BY <1>2, <1>3 DEF Certain

LEMMA EmittedStep == LineInv /\ LineResult /\ PiStage /\ PiEmitted /\ [Next]_vars => PiEmitted'
<1> SUFFICES ASSUME LineInv, LineResult, PiStage, PiEmitted, [Next]_vars, harness = "pi" PROVE PiEmitted'
  BY HarnessStays DEF PiEmitted
<1>0. harness' = harness /\ Disk /\ Locals /\ Snapshot
  BY HarnessStays DEF LineInv
<1>1. /\ emitted \in Seq(Messages) /\ Distinct(emitted) /\ Positions(emitted) \subseteq ToSet(seen.passed)
  BY DEF PiEmitted
<1>2. ASSUME UNCHANGED <<emitted, seen.passed>>
      PROVE  emitted' \in Seq(Messages) /\ Distinct(emitted') /\ Positions(emitted') \subseteq ToSet(seen'.passed)
  BY <1>1, <1>2
<1>3. CASE Keeps
  <2>1. UNCHANGED <<emitted, seen.passed>>
    BY <1>3 DEF Keeps
  <2>2. emitted' \in Seq(Messages) /\ Distinct(emitted') /\ Positions(emitted') \subseteq ToSet(seen'.passed)
    BY <1>2, <2>1
  <2>3. ASSUME Certain' PROVE emitted' = FlattenSeq(PassedTold(seen'.before, seen'.passed))
    <3>1. Certain /\ seen'.before = seen.before
      BY <1>3, <2>3, StaysCertain
    <3>2. QED
      BY <2>1, <3>1 DEF PiEmitted
  <2>4. QED
    BY <1>0, <2>2, <2>3 DEF PiEmitted, Distinct, Positions
<1>4. CASE GivesUp
  <2>1. UNCHANGED <<emitted, seen.passed>> /\ reader'.pc = "done" /\ (reader'.error # "none" \/ reader'.changed)
    BY <1>4 DEF GivesUp
  <2>2. emitted' \in Seq(Messages) /\ Distinct(emitted') /\ Positions(emitted') \subseteq ToSet(seen'.passed)
    BY <1>2, <2>1
  <2>3. QED
    BY <2>1, <2>2 DEF PiEmitted, Certain, Distinct, Positions
<1>5. CASE PiEmits
  BY <1>5, PiEmitsTold
<1>6. CASE PiIndexesLine
  <2>1. UNCHANGED emitted /\ PiStage' /\ reader.pc = "index" /\ Unanalyzed
    BY <1>6, PiIndexesStage DEF PiIndexesLine, Turn, PiStage
  <2>2. seen'.passed = seen.passed /\ reader'.pc \notin {"emit", "after", "done"}
    <3>1. seen' = [seen EXCEPT !.lines = Append(seen.lines, NextLine)]
      BY <1>0, <1>6 DEF PiIndexesLine, Sees, Locals
    <3>2. seen'.passed = seen.passed
      BY <1>0, <3>1 DEF Locals
    <3>3. reader'.pc \in {"index", "indexed"}
      BY <1>0, <1>6, PiReadsOn
    <3>4. QED
      BY <3>2, <3>3
  <2>3. emitted' \in Seq(Messages) /\ Distinct(emitted') /\ Positions(emitted') \subseteq ToSet(seen'.passed)
    BY <1>2, <2>1, <2>2
  <2>4. QED
    BY <2>2, <2>3 DEF PiEmitted, Certain, Distinct, Positions
<1>7. CASE PiAnalyzes
  <2>1. UNCHANGED emitted /\ UNCHANGED seen /\ Unanalyzed
    BY <1>7 DEF PiAnalyzes, Turn, PiStage
  <2>2. reader'.pc = "emit"
    <3>1. PICK order, active, partial :
            reader' = [reader EXCEPT !.pc = "emit", !.order = order, !.active = active, !.partial = partial]
      BY <1>7 DEF PiAnalyzes
    <3>2. QED
      BY <1>0, <3>1 DEF Locals, IsReader, Fields
  <2>3. emitted' \in Seq(Messages) /\ Distinct(emitted') /\ Positions(emitted') \subseteq ToSet(seen'.passed)
    BY <1>2, <2>1
  <2>4. emitted' = FlattenSeq(PassedTold(seen'.before, seen'.passed))
    <3>1. seen.passed = <<>>
      BY <2>1 DEF Unanalyzed
    <3>2. emitted = <<>>
      <4>1. ToSet(<<>>) = {}
        BY DEF ToSet
      <4>2. DOMAIN emitted = {}
        BY <1>1, <3>1, <4>1 DEF Positions
      <4>3. QED
        BY <1>1, <4>2
    <3>3. PassedTold(seen.before, <<>>) = <<>>
      BY DEF PassedTold
    <3>4. QED
      BY <2>1, <3>1, <3>2, <3>3, FlattenNone
  <2>5. QED
    BY <2>2, <2>3, <2>4 DEF PiEmitted, Distinct, Positions
<1>8. CASE ClaudeReadsLine \/ CodexReadsLine
  BY <1>8 DEF ClaudeReadsLine, CodexReadsLine, Turn
<1>9. QED
  BY <1>3, <1>4, <1>5, <1>6, <1>7, <1>8, LineMoves

LEMMA EmittedAlways == Spec => [](LineInv /\ LineResult /\ LinesTold /\ PiStage /\ PiEmitted)
<1>1. Init => PiEmitted
  BY EmittedStarts
<1>2. (LineInv /\ LineResult /\ LinesTold /\ PiStage) /\ PiEmitted /\ [Next]_vars => PiEmitted'
  BY EmittedStep
<1>3. QED
  BY <1>1, <1>2, StageAlways, PTL DEF Spec

\* Of an undisturbed Pi session every message comes out once, in the order in
\* which the entries are passed on.
LEMMA PassedIsWhole ==
  ASSUME PiEmitted, harness = "pi", Undisturbed
  PROVE  emitted = FlattenSeq(PassedTold(seen.before, seen.passed))
<1>1. reader.pc = "done" /\ reader.error = "none" /\ ~reader.changed /\ seen.stood
  BY DEF Undisturbed, Returned, Done, Running
<1>2. QED
  BY <1>1 DEF PiEmitted, Certain

(***************************************************************************)
(* The tree that PiIsTree looks for, and what the index knows of it.       *)
(***************************************************************************)

\* A line that makes an entry, and the identifier the entry gets.
IsEntryLine(lines, i) ==
  /\ lines[i].form = "record" /\ ~TooLarge(lines[i]) /\ lines[i].rec.type # ""
  /\ ~(i = 1 /\ lines[i].rec.type = "session")

IdOf(lines, i) ==
  IF PiVersion(lines) = 1 /\ lines[i].rec.id = "" THEN Pi!LineID(i) ELSE lines[i].rec.id

Known(lines, id, m) == id = "" \/ \E j \in 1..m : IsEntryLine(lines, j) /\ IdOf(lines, j) = id

\* The index has the identifiers and the parents of its lines; in a version 1
\* session the parent is the entry before.
Filed(index, lines) ==
  /\ lines = <<>> => index.previous = ""
  /\ PiVersion(lines) = 1 => Known(lines, index.previous, Len(lines))
  /\ \A i \in 1..Len(lines) : IsEntryLine(lines, i) =>
       /\ index.records[i].id = IdOf(lines, i)
       /\ PiVersion(lines) = 1 => Known(lines, index.records[i].parent, i - 1)
       /\ PiVersion(lines) # 1 => index.records[i].parent = lines[i].rec.parent

\* Climbing from the roots, one generation after the other.
Parentless(lines) == {i \in 2..Len(lines) : lines[i].rec.parent = ""}
ParentLines(lines, i) == {j \in 2..Len(lines) : IdOf(lines, j) = lines[i].rec.parent}
Descend(lines, X) == X \cup {i \in 2..Len(lines) : ParentLines(lines, i) \cap X # {}}

IsDescent(f, lines) ==
  f = [n \in 0..Len(lines) |-> IF n = 0 THEN Parentless(lines) ELSE Descend(lines, f[n - 1])]

\* No two entries have one identifier, and each has one.
Distinguished(lines) ==
  \A i \in 2..Len(lines) :
    IdOf(lines, i) # "" /\ \A j \in (2..Len(lines)) \ {i} : IdOf(lines, i) # IdOf(lines, j)

LEMMA PiIsTreeIs ==
  ASSUME NEW lines
  PROVE  LET above == CHOOSE f : IsDescent(f, lines)
         IN PiIsTree(lines) <=>
              /\ Distinguished(lines)
              /\ PiVersion(lines) # 1 =>
                   above[Len(lines)] = 2..Len(lines) /\ Cardinality(above[0]) <= 1
BY DEF PiIsTree, IsDescent, Descend, Parentless, ParentLines, IdOf, Distinguished

LEMMA DescentIs ==
  ASSUME NEW S, NEW lines \in Seq(S)
  PROVE  LET above == CHOOSE f : IsDescent(f, lines)
             n == Len(lines)
         IN  /\ above[0] = Parentless(lines)
             /\ \A i \in 1..n : above[i] = Descend(lines, above[i - 1])
<1> DEFINE n == Len(lines)
           first == Parentless(lines)
           T == SUBSET (2..n)
           next == [X \in T |-> Descend(lines, X)]
           above == CHOOSE f : IsDescent(f, lines)
<1>1. n \in Nat /\ first \in T /\ \A X \in T : Descend(lines, X) \in T
  <2>1. n \in Nat
    OBVIOUS
  <2>2. first \in T
    BY DEF Parentless
  <2>3. ASSUME NEW X \in T PROVE Descend(lines, X) \in T
    BY DEF Descend
  <2>4. QED
    BY <2>1, <2>2, <2>3
<1> HIDE DEF n, first, T
<1>2. next \in [T -> T] /\ \A X \in T : next[X] = Descend(lines, X)
  BY <1>1
<1> HIDE DEF next
<1>3. PICK g : Iterates(g, first, next, n) /\ Within(g, n, T)
  BY <1>1, <1>2, IterationExists
<1>4. \E f : IsDescent(f, lines)
  <2> DEFINE h == [i \in 0..n |-> g[i]]
  <2>1. ASSUME NEW i \in 0..n PROVE h[i] = IF i = 0 THEN first ELSE Descend(lines, h[i - 1])
    <3>1. CASE i = 0
      BY <1>1, <1>3, <3>1 DEF Iterates
    <3>2. CASE i # 0
      <4>1. i \in 1..n /\ i - 1 \in 0..n
        BY <1>1, <3>2
      <4>2. h[i] = next[g[i - 1]] /\ g[i - 1] \in T /\ h[i - 1] = g[i - 1]
        BY <1>3, <4>1 DEF Iterates, Within
      <4> HIDE DEF h
      <4>3. QED
        BY <1>2, <3>2, <4>2
    <3>3. QED
      BY <3>1, <3>2
  <2>2. h = [i \in 0..n |-> h[i]]
    OBVIOUS
  <2> HIDE DEF h
  <2>3. h = [i \in 0..n |-> IF i = 0 THEN first ELSE Descend(lines, h[i - 1])]
    BY <2>1, <2>2
  <2>4. IsDescent(h, lines)
    BY <2>3 DEF IsDescent, n, first
  <2>5. QED
    BY <2>4
<1>5. IsDescent(above, lines)
  BY <1>4
<1> HIDE DEF above
<1>6. above = [i \in 0..n |-> IF i = 0 THEN first ELSE Descend(lines, above[i - 1])]
  BY <1>5 DEF IsDescent, n, first
<1>7. \A i \in 0..n : above[i] = IF i = 0 THEN first ELSE Descend(lines, above[i - 1])
  BY <1>6
<1>8. \A i \in 1..n : i \in 0..n /\ i # 0
  BY <1>1
<1>9. above[0] = first /\ \A i \in 1..n : above[i] = Descend(lines, above[i - 1])
  BY <1>1, <1>7, <1>8
<1>10. QED
  BY <1>9 DEF above, n, first

\* An index of nothing but entries, under a header: all of its lines could be
\* read.
Readable(lines) ==
  /\ lines # <<>> /\ ~IsEntryLine(lines, 1) /\ PiVersion(lines) \in 1..3
  /\ \A i \in 2..Len(lines) : IsEntryLine(lines, i)

FollowsOne(records, i) == records[i].parent = "" \/ \E j \in 2..(i - 1) : records[j].id = records[i].parent

LEMMA ReadableIndex ==
  ASSUME NEW index, NEW S, NEW lines \in Seq(S), PiIndex(index, lines), Filed(index, lines), Readable(lines)
  PROVE  LET n == Len(lines)
             records == index.records
         IN  /\ n \in Nat \ {0} /\ IsIndex(records, n) /\ DOMAIN records = 1..n
             /\ records[1].header /\ PiBody(records) = 2..n
             /\ \A i \in 2..n : ~records[i].header /\ ~records[i].tooLarge /\ ~records[i].malformed
             /\ \A i \in 2..n : records[i].id = IdOf(lines, i)
             /\ \A i \in 2..n : PiVersion(lines) # 1 => records[i].parent = lines[i].rec.parent
             /\ \A i \in 2..n : PiVersion(lines) = 1 => FollowsOne(records, i)
<1> DEFINE n == Len(lines)
           records == index.records
<1>1. n \in Nat \ {0}
  BY DEF Readable
<1>2. IsIndex(records, n) /\ DOMAIN records = 1..n
  BY PiIndexIs
<1>3. \A i \in 1..n : PiMarked(lines, i, records[i])
  BY DEF PiIndex
<1>4. records[1].header
  <2>1. lines[1].form = "record" /\ ~TooLarge(lines[1]) /\ lines[1].rec.type = "session"
    BY DEF Readable, PiVersion
  <2>2. PiMarked(lines, 1, records[1])
    BY <1>1, <1>3
  <2>3. QED
    BY <2>1, <2>2 DEF PiMarked
<1>5. ASSUME NEW i \in 2..n
      PROVE  /\ ~records[i].header /\ ~records[i].tooLarge /\ ~records[i].malformed
             /\ IsEntryLine(lines, i) /\ i \in 1..n
  <2>1. i \in 1..n /\ i # 1 /\ PiMarked(lines, i, records[i]) /\ IsEntryLine(lines, i)
    BY <1>1, <1>3 DEF Readable
  <2>2. QED
    BY <2>1 DEF PiMarked, IsEntryLine
<1>6. PiBody(records) = 2..n
  <2>1. \A i \in 1..n : i = 1 \/ i \in 2..n
    BY <1>1
  <2>2. QED
    BY <1>1, <1>2, <1>4, <1>5, <2>1 DEF PiBody
<1>7. ASSUME NEW i \in 2..n
      PROVE  /\ records[i].id = IdOf(lines, i)
             /\ PiVersion(lines) # 1 => records[i].parent = lines[i].rec.parent
             /\ PiVersion(lines) = 1 => FollowsOne(records, i)
  <2>1. /\ records[i].id = IdOf(lines, i)
        /\ PiVersion(lines) = 1 => Known(lines, records[i].parent, i - 1)
        /\ PiVersion(lines) # 1 => records[i].parent = lines[i].rec.parent
    BY <1>5 DEF Filed
  <2>2. ASSUME PiVersion(lines) = 1, records[i].parent # ""
        PROVE  \E j \in 2..(i - 1) : records[j].id = records[i].parent
    <3>1. PICK j \in 1..(i - 1) : IsEntryLine(lines, j) /\ IdOf(lines, j) = records[i].parent
      BY <2>1, <2>2 DEF Known
    <3>2. j # 1
      BY <3>1 DEF Readable
    <3>3. j \in 2..(i - 1) /\ j \in 1..n
      BY <1>1, <3>1, <3>2
    <3>4. records[j].id = IdOf(lines, j)
      BY <3>1, <3>3 DEF Filed
    <3>5. QED
      BY <3>1, <3>3, <3>4
  <2>3. QED
    BY <2>1, <2>2 DEF FollowsOne
<1>8. QED
  BY <1>1, <1>2, <1>4, <1>5, <1>6, <1>7

\* What the analysis asks of an index of entries: an identifier for each, which
\* is its own, a parent that is there, and a place in the order of descent.
LEMMA DistinguishedIs ==
  ASSUME NEW index, NEW S, NEW lines \in Seq(S), PiIndex(index, lines), Filed(index, lines), Readable(lines)
  PROVE  LET E == 2..Len(lines)
             records == index.records
         IN  /\ Distinguished(lines) <=> (\A i \in E : records[i].id # "") /\ Pi!Duplicates(records) = {}
             /\ Distinguished(lines) => Pi!Owners(records) = E
<1> DEFINE n == Len(lines)
           E == 2..n
           records == index.records
           O == Pi!Owners(records)
<1>1. /\ n \in Nat \ {0} /\ IsIndex(records, n) /\ DOMAIN records = 1..n
      /\ records[1].header /\ PiBody(records) = E
      /\ \A i \in E : ~records[i].header /\ ~records[i].tooLarge /\ ~records[i].malformed
      /\ \A i \in E : records[i].id = IdOf(lines, i)
  BY ReadableIndex
<1>2. O \subseteq E /\ (\A i, j \in O : records[i].id = records[j].id => i = j)
  BY <1>1, OwnersAre
<1>3. \A i \in 1..n : Pi!InTree(records[i]) <=> i \in E /\ records[i].id # ""
  <2>1. \A i \in 1..n : i = 1 \/ i \in E
    BY <1>1
  <2>2. 1 \notin E
    BY <1>1
  <2>3. QED
    BY <1>1, <2>1, <2>2 DEF Pi!InTree
<1>4. /\ \A i \in 1..n : i \in O <=>
           Pi!InTree(records[i]) /\ \A j \in 1..(i - 1) : Pi!InTree(records[j]) => records[j].id # records[i].id
      /\ Pi!Duplicates(records) = {i \in 1..n : Pi!InTree(records[i])} \ O
  BY <1>1 DEF Pi!Owners, Pi!Duplicates
<1>5. Distinguished(lines) <=>
        \A i \in E : records[i].id # "" /\ \A j \in E \ {i} : records[i].id # records[j].id
  BY <1>1 DEF Distinguished
<1>6. E \subseteq 1..n
  BY <1>1
<1> HIDE DEF E, O, n
<1>7. ASSUME Distinguished(lines) PROVE O = E
  <2>1. ASSUME NEW i \in E PROVE i \in O
    <3>1. i \in 1..n /\ Pi!InTree(records[i])
      BY <1>3, <1>5, <1>6, <1>7
    <3>2. ASSUME NEW j \in 1..(i - 1), Pi!InTree(records[j]) PROVE records[j].id # records[i].id
      <4>1. j \in 1..n /\ j # i
        BY <1>1, <3>1
      <4>2. j \in E \ {i}
        BY <1>3, <3>2, <4>1
      <4>3. QED
        BY <1>5, <1>7, <4>2
    <3>3. QED
      BY <1>4, <3>1, <3>2
  <2>2. QED
    BY <1>2, <2>1
<1>8. ASSUME Distinguished(lines) PROVE (\A i \in E : records[i].id # "") /\ Pi!Duplicates(records) = {}
  BY <1>3, <1>4, <1>5, <1>7, <1>8
<1>9. ASSUME \A i \in E : records[i].id # "", Pi!Duplicates(records) = {} PROVE Distinguished(lines)
  <2>1. E \subseteq O
    BY <1>3, <1>4, <1>6, <1>9
  <2>2. QED
    BY <1>2, <1>5, <1>9, <2>1
<1>10. QED
  BY <1>7, <1>8, <1>9 DEF E, O, n

\* What is ready has been popped.
LEMMA NothingIsReady ==
  ASSUME NEW n, NEW records, IsIndex(records, n)
  PROVE  LET T == Pi!Topological(records)
         IN  /\ Popped(records, T) /\ T \in Seq(PiBody(records)) /\ Len(T) \in Nat /\ Len(T) <= n
             /\ ToSet(T) = {T[p] : p \in 1..Len(T)}
             /\ \A i \in Pi!Owners(records) : PiParents(records, i) \subseteq ToSet(T) => i \in ToSet(T)
<1> DEFINE T == Pi!Topological(records)
           B == PiBody(records)
<1>1. Popped(records, T) /\ PiReady(records, Pi!ToSet(T)) = {}
  BY TopologicalOrders
<1>2. T \in Seq(B) /\ Once(T, Len(T))
  BY <1>1 DEF Popped
<1>3. Pi!ToSet(T) = {T[p] : p \in 1..Len(T)} /\ Pi!ToSet(T) = ToSet(T)
  BY <1>2, PiToSetIs
<1>4. B \subseteq 1..n /\ Pi!Owners(records) \subseteq B /\ n \in Nat
  BY OwnersAre DEF IsIndex
<1>5. PiReady(records, ToSet(T)) =
        {i \in B \ ToSet(T) : i \in Pi!Owners(records) => PiParents(records, i) \subseteq ToSet(T)}
  BY ReadyIs
<1> HIDE DEF T, B
<1>6. Len(T) \in Nat /\ \A p \in 1..Len(T) : T[p] \in B
  BY <1>2
<1>7. Len(T) <= n
  <2>1. Into(T, Len(T), n)
    BY <1>4, <1>6 DEF Into
  <2>2. QED
    BY <1>2, <1>4, <1>6, <2>1, FitsIn
<1>8. QED
  BY <1>1, <1>2, <1>3, <1>4, <1>5, <1>6, <1>7 DEF T, B

\* Parents that come first are popped first.
LEMMA EarlierParents ==
  ASSUME NEW n, NEW records, IsIndex(records, n),
         \A i \in Pi!Owners(records) : \A j \in PiParents(records, i) : j < i
  PROVE  Pi!Owners(records) \subseteq ToSet(Pi!Topological(records))
<1> DEFINE T == Pi!Topological(records)
           O == Pi!Owners(records)
           left == O \ ToSet(T)
<1>1. \A i \in O : PiParents(records, i) \subseteq ToSet(T) => i \in ToSet(T)
  BY NothingIsReady
<1>2. O \subseteq 1..n /\ \A i : PiParents(records, i) \subseteq O
  BY OwnersAre DEF PiParents, PiNamed
<1> HIDE DEF T, O
<1>3. ASSUME left # {} PROVE FALSE
  <2>1. left \in SUBSET Nat
    <3>1. 1..n \subseteq Nat
      <4>1. n \in Nat
        BY DEF IsIndex
      <4>2. QED
        BY <4>1
    <3>2. QED
      BY <1>2, <3>1
  <2> HIDE DEF left
  <2>2. PICK i \in left : \A j \in left : i <= j
    BY <1>3, <2>1, LeastNumber
  <2>3. i \in O /\ i \notin ToSet(T)
    BY DEF left
  <2>4. ASSUME NEW j \in PiParents(records, i) PROVE j \in ToSet(T)
    <3>1. j \in O /\ j < i
      BY <1>2, <2>3 DEF O
    <3>2. j \in Nat /\ i \in Nat
      BY <1>2, <2>3, <3>1
    <3>3. j \notin left
      BY <2>2, <3>1, <3>2
    <3>4. QED
      BY <3>1, <3>3 DEF left
  <2>5. QED
    BY <1>1, <2>3, <2>4
<1>4. QED
  BY <1>3 DEF T, O

\* The climb reaches what was popped and has its parents.
LEMMA DescentIsPopped ==
  ASSUME NEW index, NEW S, NEW lines \in Seq(S), PiIndex(index, lines), Filed(index, lines), Readable(lines),
         Distinguished(lines), PiVersion(lines) # 1
  PROVE  LET n == Len(lines)
             records == index.records
             above == CHOOSE f : IsDescent(f, lines)
             parented == {i \in 2..n : records[i].parent = "" \/ PiParents(records, i) # {}}
         IN  above[n] = 2..n <=> 2..n \subseteq parented \cap ToSet(Pi!Topological(records))
<1> DEFINE n == Len(lines)
           E == 2..n
           records == index.records
           above == CHOOSE f : IsDescent(f, lines)
           T == Pi!Topological(records)
           parented == {i \in E : records[i].parent = "" \/ PiParents(records, i) # {}}
<1>1. /\ n \in Nat \ {0} /\ IsIndex(records, n) /\ PiBody(records) = E
      /\ \A i \in E : records[i].id = IdOf(lines, i)
      /\ \A i \in E : records[i].parent = lines[i].rec.parent
  BY ReadableIndex
<1>2. Pi!Owners(records) = E /\ \A i \in E : records[i].id # ""
  BY DistinguishedIs
<1>3. \A i \in E : ParentLines(lines, i) = PiParents(records, i)
  BY <1>1, <1>2 DEF ParentLines, PiParents, PiNamed
<1>4. \A i \in E : \A x, y \in PiParents(records, i) : x = y
  BY <1>1, NamedIsOne DEF PiParents
<1>5. \A i \in E : PiParents(records, i) \subseteq E /\ (records[i].parent = "" => PiParents(records, i) = {})
  BY <1>1, <1>2, NamedIsOne DEF PiParents
<1>6. /\ Popped(records, T) /\ T \in Seq(E) /\ Len(T) \in Nat /\ Len(T) <= n
      /\ ToSet(T) = {T[p] : p \in 1..Len(T)}
      /\ \A i \in E : PiParents(records, i) \subseteq ToSet(T) => i \in ToSet(T)
  BY <1>1, <1>2, NothingIsReady
<1>7. \A p \in 1..Len(T) : T[p] \in E /\ \A j \in PiParents(records, T[p]) : \E q \in 1..(p - 1) : T[q] = j
  <2>1. \A p \in 1..Len(T) : T[p] \in E
    <3> HIDE DEF T, E
    <3>1. QED
      BY <1>6
  <2>2. \A p \in 1..Len(T) : T[p] \in E =>
          \A j \in PiParents(records, T[p]) : \E q \in 1..(p - 1) : T[q] = j
    BY <1>2, <1>6 DEF Popped
  <2>3. QED
    BY <2>1, <2>2
<1>8. /\ above[0] = {i \in E : records[i].parent = ""}
      /\ \A k \in 1..n : above[k] = above[k - 1] \cup {i \in E : PiParents(records, i) \cap above[k - 1] # {}}
  <2>1. Parentless(lines) = {i \in E : records[i].parent = ""}
    BY <1>1 DEF Parentless
  <2>2. \A X : Descend(lines, X) = X \cup {i \in E : PiParents(records, i) \cap X # {}}
    BY <1>3 DEF Descend
  <2>3. above[0] = Parentless(lines) /\ \A i \in 1..n : above[i] = Descend(lines, above[i - 1])
    BY DescentIs
  <2> HIDE DEF above, E
  <2>4. QED
    BY <2>1, <2>2, <2>3
<1> HIDE DEF above, T, E, n, records
<1> DEFINE Child(k) == {i \in E : PiParents(records, i) \cap above[k] # {}}
<1>9. \A k \in Nat : k < n => above[k + 1] = above[k] \cup Child(k)
  <2> SUFFICES ASSUME NEW k \in Nat, k < n PROVE above[k + 1] = above[k] \cup Child(k)
    OBVIOUS
  <2> DEFINE m == k + 1
  <2>1. m \in 1..n /\ m - 1 = k
    BY <1>1
  <2> HIDE DEF m
  <2>2. above[m] = above[m - 1] \cup {i \in E : PiParents(records, i) \cap above[m - 1] # {}}
    BY <1>8, <2>1
  <2>3. QED
    BY <2>1, <2>2 DEF m
<1>10. above[n] \subseteq parented \cap ToSet(T)
  <2> DEFINE Good == {k \in Nat : above[k] \subseteq parented \cap ToSet(T)}
  <2>1. 0 \in Good
    <3>1. ASSUME NEW i \in above[0] PROVE i \in parented /\ i \in ToSet(T)
      <4>1. i \in E /\ PiParents(records, i) = {} /\ records[i].parent = ""
        BY <1>5, <1>8
      <4>2. QED
        BY <1>6, <4>1
    <3>2. QED
      BY <3>1
  <2>2. ASSUME NEW k \in Nat, k < n, k \in Good PROVE k + 1 \in Good
    <3>1. ASSUME NEW i \in Child(k) PROVE i \in parented /\ i \in ToSet(T)
      <4>1. PICK j \in PiParents(records, i) : j \in ToSet(T)
        BY <2>2
      <4>2. i \in E /\ PiParents(records, i) \subseteq ToSet(T)
        BY <1>4, <4>1
      <4>3. QED
        BY <1>6, <4>1, <4>2
    <3>2. above[k + 1] \subseteq parented \cap ToSet(T)
      BY <1>9, <2>2, <3>1
    <3>3. k + 1 \in Nat
      OBVIOUS
    <3> HIDE DEF parented
    <3>4. QED
      BY <3>2, <3>3
  <2>3. Inductive(Good, n)
    BY <2>1, <2>2 DEF Inductive
  <2>4. n \in Good
    <3> HIDE DEF Good
    <3>1. QED
      BY <1>1, <2>3, Upward
  <2>5. QED
    BY <2>4
<1>11. ASSUME E \subseteq parented PROVE ToSet(T) \subseteq above[n]
  <2> DEFINE Good == {k \in Nat : above[0] \subseteq above[k] /\ \A p \in 1..Len(T) : p <= k => T[p] \in above[k]}
  <2>1. 0 \in Good
    BY <1>6
  <2>2. ASSUME NEW k \in Nat, k < n, k \in Good PROVE k + 1 \in Good
    <3>1. above[k + 1] = above[k] \cup Child(k)
      BY <1>9, <2>2
    <3>2. ASSUME NEW p \in 1..Len(T), p <= k + 1 PROVE T[p] \in above[k] \cup Child(k)
      <4>1. CASE p <= k
        BY <2>2, <4>1
      <4>2. CASE p = k + 1
        <5>1. CASE records[T[p]].parent = ""
          <6>1. T[p] \in above[0]
            BY <1>7, <1>8, <5>1
          <6>2. QED
            BY <2>2, <6>1
        <5>2. CASE records[T[p]].parent # ""
          <6>1. PICK j \in PiParents(records, T[p]) : TRUE
            BY <1>7, <1>11, <5>2
          <6>2. PICK q \in 1..(p - 1) : T[q] = j
            BY <1>7, <6>1
          <6>3. q \in 1..Len(T) /\ q <= k
            BY <1>6, <2>2, <4>2, <6>2
          <6>4. j \in above[k]
            BY <2>2, <6>2, <6>3
          <6>5. T[p] \in E
            BY <1>7
          <6>6. QED
            BY <6>1, <6>4, <6>5
        <5>3. QED
          BY <5>1, <5>2
      <4>3. QED
        BY <1>6, <2>2, <3>2, <4>1, <4>2
    <3>3. QED
      BY <2>2, <3>1, <3>2
  <2>3. Inductive(Good, n)
    BY <2>1, <2>2 DEF Inductive
  <2>4. n \in Good
    <3>1. n \in Nat
      BY <1>1
    <3> HIDE DEF Good
    <3>2. QED
      <4>1. \A i \in 0..n : i \in Good
        BY ONLY <2>3, <3>1, Upward, ZenonT(60)
      <4>2. QED
        BY ONLY <3>1, <4>1
  <2>5. QED
    BY <1>6, <2>4
<1>12. above[n] \subseteq E
  BY <1>10
<1>13. above[n] = E <=> E \subseteq parented \cap ToSet(T)
  BY <1>10, <1>11, <1>12
<1>14. QED
  BY <1>13 DEF above, T, E, n, records

\* The analysis finds nothing amiss in an index of entries exactly when they
\* make a tree.
LEMMA TreeIsRegular ==
  ASSUME NEW index, NEW S, NEW lines \in Seq(S), PiIndex(index, lines), Filed(index, lines), Readable(lines)
  PROVE  Pi!Irregular(index) <=> ~PiIsTree(lines)
<1> DEFINE n == Len(lines)
           E == 2..n
           records == index.records
           above == CHOOSE f : IsDescent(f, lines)
           T == Pi!Topological(records)
           O == Pi!Owners(records)
           linear == PiVersion(lines) = 1
           named == \A i \in E : records[i].id # ""
           missing == \E i \in O : records[i].parent # "" /\ Pi!ParentOf(records, i) = 0
           roots == Pi!Roots(records)
           many == Cardinality(roots) > 1 /\ index.version \in 2..3
           held == ~(O \subseteq ToSet(T))
<1>1. /\ n \in Nat \ {0} /\ IsIndex(records, n) /\ DOMAIN records = 1..n /\ PiBody(records) = E
      /\ records[1].header
      /\ \A i \in E : ~records[i].header /\ ~records[i].tooLarge /\ ~records[i].malformed
  BY ReadableIndex
<1>9. \A i \in E : ~linear => records[i].parent = lines[i].rec.parent
  BY ReadableIndex
<1>10. \A i \in E : linear => records[i].parent = "" \/ \E j \in 2..(i - 1) : records[j].id = records[i].parent
  <2> SUFFICES ASSUME NEW i \in E, linear PROVE FollowsOne(records, i)
    BY DEF FollowsOne
  <2>1. \A k \in 2..Len(lines) : PiVersion(lines) = 1 => FollowsOne(index.records, k)
    BY ReadableIndex
  <2>2. QED
    BY <2>1
<1>11. /\ \A i \in 1..n : i = 1 \/ i \in E
       /\ \A i \in E : i \in 1..n /\ \A k \in 2..(i - 1) : k \in E /\ k < i
  <2>1. n \in Nat
    BY <1>1
  <2> HIDE DEF n
  <2>2. QED
    BY <2>1
<1>2. /\ Distinguished(lines) <=> named /\ Pi!Duplicates(records) = {}
      /\ Distinguished(lines) => O = E
  BY DistinguishedIs
<1>3. Pi!Irregular(index) <=> ~named \/ Pi!Duplicates(records) # {} \/ missing \/ many \/ held
  <2>1. (\E i \in DOMAIN records :
           ~records[i].header /\ ~records[i].tooLarge /\ ~records[i].malformed /\ records[i].id = "") <=> ~named
    <3> HIDE DEF E, n, records
    <3>1. QED
      BY <1>1, <1>11
  <2>2. Pi!ToSet(T) = ToSet(T)
    <3>1. T \in Seq(PiBody(records))
      BY <1>1, NothingIsReady
    <3>2. QED
      BY <3>1, PiToSetIs
  <2>3. Pi!Irregular(index) <=>
          \/ \E i \in DOMAIN records :
               ~records[i].header /\ ~records[i].tooLarge /\ ~records[i].malformed /\ records[i].id = ""
          \/ Pi!Duplicates(records) # {} \/ missing
          \/ (Pi!Cardinality(roots) > 1 /\ index.version \in 2..3)
          \/ ~(O \subseteq Pi!ToSet(T))
    BY DEF Pi!Irregular
  <2>4. Pi!Cardinality(roots) = Cardinality(roots)
    BY DEF Pi!Cardinality, Cardinality
  <2>5. QED
    BY <2>1, <2>2, <2>3, <2>4
<1>4. PiIsTree(lines) <=> Distinguished(lines) /\ (~linear => above[n] = E /\ Cardinality(above[0]) <= 1)
  BY PiIsTreeIs
<1>5. CASE ~Distinguished(lines)
  BY <1>2, <1>3, <1>4, <1>5
<1>6. CASE Distinguished(lines) /\ linear
  <2>1. O = E /\ \A i \in E : PiParents(records, i) = {j \in E : records[j].id = records[i].parent}
    BY <1>2, <1>6 DEF PiParents, PiNamed
  <2>2. ASSUME NEW i \in E, NEW j \in PiParents(records, i) PROVE j < i
    <3>1. j \in E /\ records[j].id = records[i].parent /\ records[i].parent # ""
      BY <1>2, <1>6, <2>1, <2>2
    <3>2. PICK k \in 2..(i - 1) : records[k].id = records[i].parent
      BY <1>6, <1>10, <3>1
    <3>3. k \in E /\ k < i
      BY <1>11, <3>2
    <3>4. j = k
      <4>1. \A x, y \in O : records[x].id = records[y].id => x = y
        BY <1>1, OwnersAre
      <4>2. QED
        BY <2>1, <3>1, <3>2, <3>3, <4>1
    <3>5. QED
      BY <3>3, <3>4
  <2>3. ~held
    BY <1>1, <2>1, <2>2, EarlierParents
  <2>4. ~missing
    <3> SUFFICES ASSUME NEW i \in E, records[i].parent # "" PROVE Pi!ParentOf(records, i) # 0
      BY <2>1
    <3>1. PICK k \in 2..(i - 1) : records[k].id = records[i].parent
      BY <1>6, <1>10
    <3>2. k \in E
      BY <1>11, <3>1
    <3>3. PiParents(records, i) # {}
      BY <2>1, <3>1, <3>2
    <3>4. QED
      BY <1>1, <3>3, ParentIs
  <2>5. ~many
    BY <1>6 DEF PiIndex
  <2>6. QED
    BY <1>2, <1>3, <1>4, <1>6, <2>3, <2>4, <2>5
<1>7. CASE Distinguished(lines) /\ ~linear
  <2> DEFINE parented == {i \in E : records[i].parent = "" \/ PiParents(records, i) # {}}
  <2>1. above[n] = E <=> E \subseteq parented \cap ToSet(T)
    BY <1>7, DescentIsPopped
  <2>2. O = E
    BY <1>2, <1>7
  <2>3. missing <=> ~(E \subseteq parented)
    <3>1. \A i \in E : Pi!ParentOf(records, i) = 0 <=> PiParents(records, i) = {}
      <4>1. ASSUME NEW i \in E PROVE Pi!ParentOf(records, i) = 0 <=> PiParents(records, i) = {}
        <5>1. IF Pi!ParentOf(records, i) = 0 THEN PiParents(records, i) = {}
              ELSE PiParents(records, i) = {Pi!ParentOf(records, i)}
          BY <1>1, ParentIs
        <5>2. QED
          BY <5>1
      <4>2. QED
        BY <4>1
    <3>2. QED
      BY <2>2, <3>1
  <2>4. held <=> ~(E \subseteq ToSet(T))
    BY <2>2
  <2>5. ASSUME ~missing PROVE roots = above[0]
    <3>1. above[0] = {i \in E : lines[i].rec.parent = ""}
      BY DescentIs DEF Parentless
    <3>2. roots = {i \in E : Pi!ParentOf(records, i) = 0}
      BY <2>2 DEF Pi!Roots
    <3>3. \A i \in E : records[i].parent = "" => Pi!ParentOf(records, i) = 0
      BY DEF Pi!ParentOf
    <3>4. \A i \in E : Pi!ParentOf(records, i) = 0 => records[i].parent = ""
      BY <2>2, <2>5
    <3>5. QED
      BY <1>7, <1>9, <3>1, <3>2, <3>3, <3>4
  <2>6. index.version \in 2..3
    <3>1. index.version = PiVersion(lines) /\ PiVersion(lines) \in 1..3
      BY DEF PiIndex, Readable
    <3>2. QED
      BY <1>7, <3>1
  <2>7. Cardinality(roots) \in Nat
    <3>1. roots \in SUBSET (1..n)
      BY <1>1, OwnersAre DEF Pi!Roots
    <3>2. IsFiniteSet(1..n)
      BY <1>1, FS_Interval
    <3>3. QED
      BY <3>1, <3>2, SubsetSizes
  <2> HIDE DEF missing, held, roots, above, E, parented
  <2>8. many <=> ~(Cardinality(roots) <= 1)
    BY <2>6, <2>7
  <2> HIDE DEF many, named
  <2>9. QED
    BY <1>2, <1>3, <1>4, <1>7, <2>1, <2>3, <2>4, <2>5, <2>8
<1>8. QED
  BY <1>5, <1>6, <1>7

(***************************************************************************)
(* buildIndex keeps it so.                                                 *)
(***************************************************************************)

\* What a line adds to an index.
Files(index, lines, line, more, record, next) ==
  LET at == Len(lines) + 1 IN
  /\ next.records = Append(index.records, record)
  /\ IsEntryLine(more, at) =>
       /\ record.id = IdOf(more, at)
       /\ PiVersion(lines) = 1 => record.parent = index.previous /\ next.previous = record.id
       /\ PiVersion(lines) # 1 => record.parent = line.rec.parent
  /\ ~IsEntryLine(more, at) => next.previous = index.previous

LEMMA FiledAppend ==
  ASSUME NEW index, NEW lines \in Seq(Lines("pi")), NEW line \in Lines("pi"), NEW more, more = Append(lines, line),
         PiIndex(index, lines), Filed(index, lines),
         NEW record, NEW next, Files(index, lines, line, more, record, next)
  PROVE  Filed(next, more)
<1> DEFINE n == Len(lines)
           at == n + 1
           old == index.records
           new == next.records
<1>1. /\ n \in Nat /\ Len(more) = n + 1 /\ at = n + 1 /\ more[at] = line /\ \A i \in 1..n : more[i] = lines[i]
  BY LinesAppend
<1>2. new[at] = record /\ \A i \in 1..n : new[i] = old[i]
  <2>1. PICK S : old \in Seq(S)
    BY DEF PiIndex
  <2> DEFINE T == S \cup {record}
  <2>2. old \in Seq(T) /\ record \in T /\ Len(old) = n
    BY <2>1, SeqMonotonic DEF PiIndex
  <2> HIDE DEF T, old, n
  <2>3. new = Append(old, record)
    BY DEF Files, old
  <2> HIDE DEF new, old
  <2>4. QED
    BY <1>1, <2>2, <2>3
<1>3. ASSUME n # 0 PROVE PiVersion(more) = PiVersion(lines)
  BY <1>3, VersionStays
<1>4. ASSUME n = 0
      PROVE  PiVersion(lines) = 0 /\ (IsEntryLine(more, at) => PiVersion(more) = 0) /\ index.previous = ""
  <2>1. PiVersion(lines) = 0
    BY <1>4, VersionStays
  <2>2. IsEntryLine(more, at) => PiVersion(more) = 0
    <3>1. at = 1
      BY <1>4
    <3>2. IsEntryLine(more, at) => ~(line.form = "record" /\ ~TooLarge(line) /\ line.rec.type = "session")
      BY <1>1, <3>1 DEF IsEntryLine
    <3>3. QED
      BY <1>4, <3>2, VersionStays
  <2>3. lines = <<>>
    BY <1>4
  <2>4. QED
    BY <2>1, <2>2, <2>3 DEF Filed
<1>5. IsEntryLine(more, at) => PiVersion(more) = PiVersion(lines)
  BY <1>3, <1>4
<1>6. \A i \in 1..n : IsEntryLine(more, i) <=> IsEntryLine(lines, i)
  BY <1>1 DEF IsEntryLine
<1>7. \A i \in 1..n : IdOf(more, i) = IdOf(lines, i)
  <2> SUFFICES ASSUME NEW i \in 1..n PROVE IdOf(more, i) = IdOf(lines, i)
    OBVIOUS
  <2>1. n # 0 /\ more[i] = lines[i]
    BY <1>1
  <2>2. QED
    BY <1>3, <2>1 DEF IdOf
<1>13. /\ IsEntryLine(more, at) =>
            /\ record.id = IdOf(more, at)
            /\ PiVersion(lines) = 1 => record.parent = index.previous /\ next.previous = record.id
            /\ PiVersion(lines) # 1 => record.parent = line.rec.parent
       /\ ~IsEntryLine(more, at) => next.previous = index.previous
  BY DEF Files
<1> HIDE DEF n, old, new, at
<1>8. ASSUME NEW id, NEW m \in Nat, m <= n, Known(lines, id, m) PROVE Known(more, id, m)
  <2>1. \A j \in 1..m : j \in 1..n
    BY <1>1, <1>8
  <2>2. QED
    BY <1>6, <1>7, <1>8, <2>1 DEF Known
<1>9. ASSUME NEW i \in 1..(n + 1), IsEntryLine(more, i)
      PROVE  /\ new[i].id = IdOf(more, i)
             /\ PiVersion(more) = 1 => Known(more, new[i].parent, i - 1)
             /\ PiVersion(more) # 1 => new[i].parent = more[i].rec.parent
  <2>1. CASE i \in 1..n
    <3>1. /\ old[i].id = IdOf(lines, i)
          /\ PiVersion(lines) = 1 => Known(lines, old[i].parent, i - 1)
          /\ PiVersion(lines) # 1 => old[i].parent = lines[i].rec.parent
      BY <1>6, <1>9, <2>1 DEF Filed, old, n
    <3>2. i - 1 \in Nat /\ i - 1 <= n /\ n # 0
      BY <1>1, <2>1
    <3>3. PiVersion(lines) = 1 => Known(more, old[i].parent, i - 1)
      BY <1>8, <3>1, <3>2
    <3>4. QED
      BY <1>1, <1>2, <1>3, <1>7, <2>1, <3>1, <3>2, <3>3
  <2>2. CASE i = at
    <3>1. /\ record.id = IdOf(more, at) /\ PiVersion(more) = PiVersion(lines)
          /\ PiVersion(lines) = 1 => record.parent = index.previous
          /\ PiVersion(lines) # 1 => record.parent = line.rec.parent
      BY <1>5, <1>9, <1>13, <2>2
    <3>2. PiVersion(lines) = 1 => Known(more, index.previous, n)
      <4>1. PiVersion(lines) = 1 => Known(lines, index.previous, n)
        BY DEF Filed, n
      <4>2. n <= n
        BY <1>1
      <4>3. QED
        BY <1>1, <1>8, <4>1, <4>2
    <3>3. i - 1 = n
      BY <1>1, <2>2
    <3>4. QED
      BY <1>1, <1>2, <2>2, <3>1, <3>2, <3>3
  <2>3. QED
    BY <1>1, <2>1, <2>2
<1>10. PiVersion(more) = 1 => Known(more, next.previous, n + 1)
  <2> SUFFICES ASSUME PiVersion(more) = 1 PROVE Known(more, next.previous, n + 1)
    OBVIOUS
  <2>1. CASE IsEntryLine(more, at)
    <3>1. next.previous = IdOf(more, at) /\ at \in 1..(n + 1)
      BY <1>1, <1>5, <1>13, <2>1
    <3>2. QED
      BY <2>1, <3>1 DEF Known
  <2>2. CASE ~IsEntryLine(more, at)
    <3>1. CASE n = 0
      BY <1>4, <1>13, <2>2, <3>1 DEF Known
    <3>2. CASE n # 0
      <4>1. Known(lines, index.previous, n)
        BY <1>3, <3>2 DEF Filed, n
      <4>2. Known(more, index.previous, n)
        <5>1. n <= n
          BY <1>1
        <5>2. QED
          BY <1>1, <1>8, <4>1, <5>1
      <4>3. \A j \in 1..n : j \in 1..(n + 1)
        BY <1>1
      <4>4. QED
        BY <1>13, <2>2, <4>2, <4>3 DEF Known
    <3>3. QED
      BY <3>1, <3>2
  <2>3. QED
    BY <2>1, <2>2
<1>11. more # <<>>
  BY <1>1
<1>12. QED
  BY <1>1, <1>9, <1>10, <1>11 DEF Filed, new

LEMMA FilingGrows ==
  ASSUME NEW index, NEW lines \in Seq(Lines("pi")), NEW line \in Lines("pi"), NEW more, more = Append(lines, line),
         PiIndex(index, lines), Filed(index, lines), NEW at, at = Len(lines) + 1
  PROVE  Filed(Indexed(index, line, at), more)
<1> DEFINE next == Indexed(index, line, at)
<1>0. /\ index = [version |-> index.version, leaf |-> index.leaf, previous |-> index.previous,
                  records |-> index.records]
      /\ index.version = PiVersion(lines)
  BY DEF PiIndex
<1>1. /\ Len(lines) \in Nat /\ at \in Nat /\ more[at] = line /\ (at = 1 <=> Len(lines) = 0)
  BY LinesAppend
<1>2. CASE TooLarge(line) \/ line.form # "record" \/ line.rec.type = ""
  <2>1. PICK record : next = [index EXCEPT !.records = Append(@, record)]
    <3>1. CASE TooLarge(line)
      BY <3>1 DEF Indexed, Pi!IndexUnreadable
    <3>2. CASE ~TooLarge(line)
      <4>1. next = Pi!IndexUnreadable(index, at, FALSE)
        BY <1>2, <3>2 DEF Indexed
      <4>2. QED
        BY <4>1 DEF Pi!IndexUnreadable
    <3>3. QED
      BY <3>1, <3>2
  <2> HIDE DEF next
  <2>2. next.records = Append(index.records, record) /\ next.previous = index.previous
    BY <1>0, <2>1
  <2>3. ~IsEntryLine(more, at)
    BY <1>1, <1>2 DEF IsEntryLine
  <2>4. Files(index, lines, line, more, record, next)
    BY <2>2, <2>3 DEF Files
  <2>5. QED
    BY <2>4, FiledAppend DEF next
<1>3. CASE ~(TooLarge(line) \/ line.form # "record" \/ line.rec.type = "") /\ at = 1 /\ line.rec.type = "session"
  <2>1. next = Pi!IndexHeader(index, line.rec, at)
    BY <1>3 DEF Indexed
  <2>2. PICK version, leaf, record :
          next = [index EXCEPT !.version = version, !.leaf = leaf, !.records = Append(@, record)]
    <3> DEFINE rec == [line |-> at, header |-> TRUE, tooLarge |-> FALSE, malformed |-> FALSE, id |-> "", parent |-> ""]
               v == IF line.rec.version = 0 THEN 1 ELSE line.rec.version
    <3>1. next = [index EXCEPT !.version = v, !.leaf = line.rec.leaf, !.records = Append(@, rec)]
      BY <2>1 DEF Pi!IndexHeader
    <3> HIDE DEF v, rec, next
    <3>2. QED
      BY <3>1
  <2> HIDE DEF next
  <2>3. next.records = Append(index.records, record) /\ next.previous = index.previous
    BY <1>0, <2>2
  <2>4. ~IsEntryLine(more, at)
    BY <1>1, <1>3 DEF IsEntryLine
  <2>5. Files(index, lines, line, more, record, next)
    BY <2>3, <2>4 DEF Files
  <2>6. QED
    BY <2>5, FiledAppend DEF next
<1>4. CASE ~(TooLarge(line) \/ line.form # "record" \/ line.rec.type = "") /\ ~(at = 1 /\ line.rec.type = "session")
  <2> DEFINE linear == index.version = 1
             id == IF linear /\ line.rec.id = "" THEN Pi!LineID(at) ELSE line.rec.id
             previous == IF linear THEN id ELSE index.previous
             parent == IF linear THEN index.previous ELSE line.rec.parent
             record == [line |-> at, header |-> FALSE, tooLarge |-> FALSE, malformed |-> FALSE, id |-> id,
                        parent |-> parent]
  <2>1. next = Pi!IndexEntry(index, line.rec, at)
    BY <1>4 DEF Indexed
  <2>2. next = [index EXCEPT !.previous = previous, !.records = Append(@, record)]
    BY <2>1 DEF Pi!IndexEntry
  <2>3. id = IdOf(more, at)
    <3>1. PiVersion(more) = PiVersion(lines)
      <4>1. CASE Len(lines) = 0
        BY <1>1, <1>4, <4>1, VersionStays
      <4>2. CASE Len(lines) # 0
        BY <4>2, VersionStays
      <4>3. QED
        BY <4>1, <4>2
    <3>2. QED
      BY <1>0, <1>1, <3>1 DEF IdOf
  <2>4. /\ PiVersion(lines) = 1 => parent = index.previous /\ previous = id
        /\ PiVersion(lines) # 1 => parent = line.rec.parent
    BY <1>0
  <2> HIDE DEF next, id, previous, parent
  <2>5. record.id = id /\ record.parent = parent
    OBVIOUS
  <2> HIDE DEF record
  <2>6. next.records = Append(index.records, record) /\ next.previous = previous
    BY <1>0, <2>2
  <2>7. IsEntryLine(more, at)
    BY <1>1, <1>4 DEF IsEntryLine
  <2>8. Files(index, lines, line, more, record, next)
    BY <2>3, <2>4, <2>5, <2>6, <2>7 DEF Files
  <2>9. QED
    BY <2>8, FiledAppend DEF next
<1>5. QED
  BY <1>2, <1>3, <1>4

(***************************************************************************)
(* What is missing from the history, and when Pi marks it.                 *)
(***************************************************************************)

\* The first line is a header.
Headed(lines) ==
  lines # <<>> /\ lines[1].form = "record" /\ ~TooLarge(lines[1]) /\ lines[1].rec.type = "session"

\* What buildIndex, analyzeGraph and the second pass find missing.
Unread(lines) == SomeUnread("pi", lines) \/ (lines # <<>> /\ ~Headed(lines))

Untidy(index) == ~Pi!Supported(index.version) \/ Pi!Irregular(index)

Failing(lines, i) == IsEntryLine(lines, i) /\ PiVersion(lines) \in 1..3 /\ PiFails(lines[i].rec)

SomeFailing(lines, passed) == \E i \in ToSet(passed) : Failing(lines, i)

Missing(index, lines, passed) == Unread(lines) \/ Untidy(index) \/ SomeFailing(lines, passed)

\* The first pass has marked what it could not read; while the file is what it
\* was, the second has marked what the analysis found and what does not decode.
PiLossStage ==
  harness = "pi" =>
    /\ Filed(reader.index, seen.lines)
    /\ reader.pc \in {"stat", "open", "index", "indexed"} => (reader.partial <=> Unread(seen.lines))
    /\ Certain => (reader.partial <=> Missing(reader.index, seen.lines, seen.passed))

LEMMA LossStarts == Init => PiLossStage
<1> SUFFICES ASSUME Init, harness = "pi" PROVE PiLossStage
  BY DEF PiLossStage
<1>1. /\ reader.partial = FALSE /\ reader.pc = "stat" /\ seen.lines = <<>>
      /\ reader.index = Pi!NoIndex
  BY StartOfLines
<1>2. ~Unread(<<>>)
  BY DEF Unread, SomeUnread
<1>3. Filed(Pi!NoIndex, <<>>)
  <2>1. Pi!NoIndex.previous = "" /\ Len(<<>>) = 0
    BY DEF Pi!NoIndex
  <2>2. Known(<<>>, Pi!NoIndex.previous, Len(<<>>))
    BY <2>1 DEF Known
  <2>3. \A i \in 1..Len(<<>>) : FALSE
    <3>1. 1..0 = {}
      OBVIOUS
    <3>2. QED
      BY <2>1, <3>1
  <2>4. QED
    BY <2>1, <2>2, <2>3 DEF Filed
<1>4. QED
  BY <1>1, <1>2, <1>3 DEF PiLossStage, Certain

\* What a line adds to what the first pass could not read.
LEMMA UnreadAppend ==
  ASSUME NEW lines \in Seq(Lines("pi")), NEW line \in Lines("pi"), NEW more, more = Append(lines, line),
         NEW record, PiMarked(more, Len(lines) + 1, record)
  PROVE  /\ record.tooLarge \/ record.malformed <=> LineUnread("pi", line)
         /\ Unread(more) <=> Unread(lines) \/ LineUnread("pi", line) \/ (Len(lines) = 0 /\ ~record.header)
<1> DEFINE n == Len(lines)
<1>1. /\ n \in Nat /\ Len(more) = n + 1 /\ DOMAIN lines = 1..n /\ DOMAIN more = 1..(n + 1)
      /\ more[n + 1] = line /\ \A i \in 1..n : more[i] = lines[i]
  BY LinesAppend
<1>2. line.form \in {"record", "blank", "garbage", "torn"}
  BY RecordsAreTyped
<1>3. /\ record.header <=>
           n + 1 = 1 /\ line.form = "record" /\ ~TooLarge(line) /\ line.rec.type = "session"
      /\ record.tooLarge <=> TooLarge(line)
      /\ record.malformed <=> ~TooLarge(line) /\ (line.form # "record" \/ line.rec.type = "")
  BY <1>1 DEF PiMarked
<1>4. LineUnread("pi", line) <=> TooLarge(line) \/ line.form # "record" \/ line.rec.type = ""
  BY <1>2 DEF LineUnread
<1>5. record.tooLarge \/ record.malformed <=> LineUnread("pi", line)
  BY <1>3, <1>4
<1>6. SomeUnread("pi", more) <=> SomeUnread("pi", lines) \/ LineUnread("pi", line)
  <2>1. (\E i \in 1..n : LineUnread("pi", more[i])) <=> \E i \in 1..n : LineUnread("pi", lines[i])
    BY <1>1
  <2>2. \A i : i \in 1..(n + 1) <=> i \in 1..n \/ i = n + 1
    BY <1>1
  <2> HIDE DEF n
  <2>3. QED
    BY <1>1, <2>1, <2>2 DEF SomeUnread
<1>7. CASE n = 0
  <2>1. lines = <<>> /\ more # <<>> /\ more[1] = line
    BY <1>1, <1>7
  <2>2. ~SomeUnread("pi", lines)
    BY <1>1, <1>7 DEF SomeUnread
  <2>3. n + 1 = 1
    BY <1>7
  <2> HIDE DEF n
  <2>5. Headed(more) <=> record.header
    BY <1>3, <2>1, <2>3 DEF Headed
  <2>4. QED
    BY <1>5, <1>6, <1>7, <2>1, <2>2, <2>5 DEF Unread, n
<1>8. CASE n # 0
  <2>1. lines # <<>> /\ more # <<>> /\ more[1] = lines[1]
    BY <1>1, <1>8
  <2>2. Headed(more) <=> Headed(lines)
    BY <2>1 DEF Headed
  <2>3. QED
    BY <1>5, <1>6, <1>8, <2>1, <2>2 DEF Unread
<1>9. QED
  BY <1>7, <1>8

LEMMA PiIndexesLoss ==
  ASSUME LineInv, LineResult, PiStage, PiLossStage, PiIndexesLine
  PROVE  PiLossStage'
<1> DEFINE index == Indexed(reader.index, NextLine, NextAt)
           record == index.records[NextAt]
           lost == record.tooLarge \/ record.malformed
           headless == NextAt = 1 /\ ~record.header
           consumed == Consumed(NextLine, lost, "indexed")
           more == Append(seen.lines, NextLine)
<1>0. harness = "pi" /\ reader.pc = "index" /\ reader.buffer # <<>> /\ harness' = harness
  BY DEF PiIndexesLine, Turn
<1>1. /\ IsReader(reader) /\ seen.lines \in Seq(Lines("pi")) /\ NextLine \in Lines("pi")
      /\ seen = [before |-> seen.before, lines |-> seen.lines, passed |-> seen.passed,
                 touched |-> seen.touched, stood |-> seen.stood]
  BY <1>0 DEF LineInv, Locals, NextLine
<1>2. seen'.lines = more
  BY <1>1 DEF PiIndexesLine, Sees
<1>3. NextAt = Len(seen.lines) + 1 /\ Len(seen.lines) \in Nat
  BY <1>0, <1>1 DEF LineResult, NextAt
<1>4. /\ PiIndex(reader.index, seen.lines) /\ Filed(reader.index, seen.lines)
      /\ reader.partial \in BOOLEAN
      /\ reader.partial <=> Unread(seen.lines)
  BY <1>0 DEF PiStage, PiLossStage, LineResult
<1>5. PiIndex(index, more) /\ Filed(index, more)
  BY <1>1, <1>3, <1>4, IndexGrows, FilingGrows
<1>6. PiMarked(more, NextAt, record)
  <2>1. NextAt \in 1..Len(more)
    BY <1>1, <1>3, LinesAppend
  <2> HIDE DEF index, more
  <2>2. QED
    BY <1>5, <2>1 DEF PiIndex
<1>7. reader'.index = index /\ reader'.pc \in {"index", "indexed"}
  BY <1>0, PiReadsOn DEF LineInv
<1>8. reader'.partial <=> reader.partial \/ lost \/ headless
  <2>1. reader' = [consumed EXCEPT !.index = index, !.partial = @ \/ headless]
    BY DEF PiIndexesLine
  <2>2. lost \in BOOLEAN /\ headless \in BOOLEAN
    OBVIOUS
  <2> HIDE DEF lost, headless, index
  <2>3. consumed.partial = (reader.partial \/ lost)
    BY <1>1, <1>4, <2>2, ConsumedResult
  <2>4. IsReader(consumed)
    BY <1>1, ConsumedLine
  <2> HIDE DEF consumed
  <2>5. reader'.partial = (consumed.partial \/ headless)
    BY <2>1, <2>4 DEF IsReader, Fields
  <2>6. QED
    BY <2>3, <2>5
<1> HIDE DEF index, consumed
<1>9. /\ lost <=> LineUnread("pi", NextLine)
      /\ Unread(more) <=> Unread(seen.lines) \/ LineUnread("pi", NextLine)
                            \/ (Len(seen.lines) = 0 /\ ~record.header)
  <2> HIDE DEF record
  <2>1. PiMarked(more, Len(seen.lines) + 1, record)
    BY <1>3, <1>6
  <2>2. QED
    BY <1>1, <2>1, UnreadAppend
<1>10. headless <=> Len(seen.lines) = 0 /\ ~record.header
  <2>1. NextAt = 1 <=> Len(seen.lines) = 0
    BY <1>3
  <2> HIDE DEF record
  <2>2. QED
    BY <2>1
<1> HIDE DEF record, lost, headless, more
<1>11. reader'.partial <=> Unread(more)
  BY <1>4, <1>8, <1>9, <1>10
<1>12. QED
  BY <1>0, <1>2, <1>5, <1>7, <1>11 DEF PiLossStage, Certain

LEMMA PiAnalyzesLoss ==
  ASSUME LineInv, LineResult, PiStage, PiLossStage, PiAnalyzes
  PROVE  PiLossStage'
<1> DEFINE order == Pi!Order(reader.index.records)
           active == Pi!ActivePath(reader.index)
           more == ~Pi!Supported(reader.index.version) \/ Pi!Irregular(reader.index)
<1>0. harness = "pi" /\ reader.pc \in {"index", "indexed"} /\ harness' = harness /\ seen' = seen
  BY DEF PiAnalyzes, Turn
<1>1. /\ IsReader(reader) /\ reader.partial \in BOOLEAN /\ seen.passed = <<>>
      /\ Filed(reader.index, seen.lines) /\ (reader.partial <=> Unread(seen.lines))
  BY <1>0 DEF LineInv, Locals, LineResult, PiStage, Unanalyzed, PiLossStage
<1>2. reader' = [reader EXCEPT !.pc = "emit", !.order = order, !.active = active, !.partial = @ \/ more]
  BY DEF PiAnalyzes
<1>3. more <=> Untidy(reader.index)
  BY DEF Untidy
<1> HIDE DEF order, active, more
<1>4. /\ reader'.index = reader.index /\ reader'.pc = "emit"
      /\ reader'.partial = (reader.partial \/ more)
  BY <1>1, <1>2 DEF IsReader, Fields
<1>5. ~SomeFailing(seen.lines, seen.passed)
  <2>1. ToSet(<<>>) = {}
    BY DEF ToSet
  <2>2. QED
    BY <1>1, <2>1 DEF SomeFailing
<1>6. reader'.partial <=> Missing(reader.index, seen.lines, seen.passed)
  BY <1>1, <1>3, <1>4, <1>5 DEF Missing
<1>7. QED
  BY <1>0, <1>1, <1>4, <1>6 DEF PiLossStage

\* While the file is what it was, an entry fails again exactly when its line
\* does not decode.
LEMMA RecordFails ==
  ASSUME LineInv, PiStage, harness = "pi", reader.pc = "emit", PathThere, Stat = reader.before,
         NEW i \in 1..Len(seen.lines)
  PROVE  LET record == reader.index.records[i]
             events == IF record.tooLarge THEN <<>> ELSE PiEvents(record)
         IN  (~record.tooLarge /\ events = Pi!MapError) <=> Failing(seen.lines, i)
<1> DEFINE record == reader.index.records[i]
           events == IF record.tooLarge THEN <<>> ELSE PiEvents(record)
           line == seen.lines[i]
<1>1. /\ Disk /\ Locals /\ Snapshot /\ PiMarked(seen.lines, i, record)
      /\ reader.index.version = PiVersion(seen.lines)
  BY DEF LineInv, PiStage, PiIndex
<1>2. /\ record.line = i
      /\ record.header <=> i = 1 /\ line.form = "record" /\ ~TooLarge(line) /\ line.rec.type = "session"
      /\ record.tooLarge <=> TooLarge(line)
      /\ record.malformed <=> ~TooLarge(line) /\ (line.form # "record" \/ line.rec.type = "")
  BY <1>1 DEF PiMarked
<1>3. seen.lines \in Seq(Lines("pi")) /\ line \in Lines("pi") /\ i \in DOMAIN seen.lines
  BY <1>1 DEF Locals
<1>4. Inode(reader.fd).lines = seen.lines
  BY <1>1 DEF Snapshot, Still
<1>5. IsEntryLine(seen.lines, i) <=> ~record.tooLarge /\ ~record.malformed /\ ~record.header
  BY <1>2 DEF IsEntryLine
<1>6. Pi!Supported(reader.index.version) <=> PiVersion(seen.lines) \in 1..3
  BY <1>1 DEF Pi!Supported
<1>7. CASE record.tooLarge
  BY <1>5, <1>7 DEF Failing
<1>8. CASE ~record.tooLarge /\ ~(IsEntryLine(seen.lines, i) /\ PiVersion(seen.lines) \in 1..3)
  <2>1. events = <<Pi!UnknownEvent(record.line)>> \/ events = <<Pi!HeaderEvent(record.line)>>
    BY <1>5, <1>6, <1>8 DEF PiEvents
  <2> HIDE DEF events
  <2>2. events # Pi!MapError
    <3>1. PICK e : events = <<e>>
      BY ONLY <2>1
    <3>2. QED
      BY ONLY <3>1 DEF Pi!MapError
  <2>3. QED
    BY <1>8, <2>2 DEF Failing, events
<1>9. CASE IsEntryLine(seen.lines, i) /\ PiVersion(seen.lines) \in 1..3
  <2>1. ~record.tooLarge /\ events = InPlace(record)
    BY <1>5, <1>6, <1>9 DEF PiEvents
  <2>2. line.form = "record" /\ ~TooLarge(line)
    BY <1>9 DEF IsEntryLine
  <2>3. InPlace(record) = Pi!MapEntry(line.rec, i)
    BY <1>2, <1>3, <1>4, <2>2 DEF InPlace
  <2>4. Pi!IsEntry(line.rec)
    BY <1>3, RecordsAreTyped
  <2>5. Pi!MapEntry(line.rec, i) = Pi!MapError <=> PiFails(line.rec)
    BY <2>4, PiTold
  <2> HIDE DEF events
  <2>6. (events = Pi!MapError) <=> PiFails(line.rec)
    BY <2>1, <2>3, <2>5
  <2>7. QED
    BY <1>9, <2>1, <2>6 DEF Failing, events
<1>10. QED
  BY <1>7, <1>8, <1>9

LEMMA PiEmitsLoss ==
  ASSUME LineInv, LineResult, PiStage, PiLossStage, PiEmits
  PROVE  PiLossStage'
<1> DEFINE i == Head(reader.order)
           record == reader.index.records[i]
           events == IF record.tooLarge THEN <<>> ELSE PiEvents(record)
           lost == ~record.tooLarge /\ events = Pi!MapError
           n == Len(seen.lines)
<1>0. harness = "pi" /\ reader.pc = "emit" /\ reader.order # <<>> /\ harness' = harness /\ store' = store
  BY DEF PiEmits, Turn
<1>1. /\ Analyzed /\ PiIndex(reader.index, seen.lines) /\ seen.lines \in Seq(Lines("pi"))
      /\ i \in 1..n /\ seen'.passed = Append(seen.passed, i) /\ reader'.pc = "emit"
      /\ seen'.lines = seen.lines /\ reader'.before = reader.before
      /\ IsReader(reader) /\ reader.partial \in BOOLEAN /\ Filed(reader.index, seen.lines)
  BY <1>0, PiEmitsStage DEF PiStage, LineInv, Locals, LineResult, PiLossStage
<1>2. reader'.index = reader.index /\ reader'.partial = (reader.partial \/ lost)
  <2>1. reader' = [Marked(lost, IF lost THEN 1 ELSE 0) EXCEPT !.order = Tail(@)]
    BY DEF PiEmits
  <2> HIDE DEF lost
  <2>2. QED
    BY <1>1, <2>1 DEF Marked, IsReader, Fields
<1>3. ASSUME PathThere', Stat' = reader'.before
      PROVE  reader'.partial <=> Missing(reader.index, seen.lines, seen'.passed)
  <2>1. PathThere /\ Stat = reader.before
    BY <1>0, <1>1, <1>3 DEF PathThere, Stat, Inode
  <2>2. lost <=> Failing(seen.lines, i)
    BY <1>0, <1>1, <2>1, RecordFails
  <2>3. reader.partial <=> Missing(reader.index, seen.lines, seen.passed)
    BY <1>0, <2>1 DEF PiLossStage, Certain
  <2>4. ToSet(seen'.passed) = ToSet(seen.passed) \cup {i}
    <3> DEFINE all == Pi!Order(reader.index.records)
               N == 1..n
    <3>1. Once(all, Len(all))
      <4>1. IsIndex(reader.index.records, n)
        BY <1>1, PiIndexIs
      <4>2. Len(all) = n /\ Once(all, n)
        BY <4>1, OrderIs
      <4> HIDE DEF all, n
      <4>3. QED
        BY <4>2
    <3>2. seen.passed \in Seq(N) /\ reader.order \in Seq(N) /\ all = seen.passed \o reader.order
      BY <1>1 DEF Analyzed
    <3> HIDE DEF all, N
    <3>3. ToSet(Append(seen.passed, Head(reader.order))) = ToSet(seen.passed) \cup {Head(reader.order)}
      BY <1>0, <3>1, <3>2, HeadIsNew
    <3>4. QED
      BY <1>1, <3>3
  <2> HIDE DEF lost, i
  <2>5. SomeFailing(seen.lines, seen'.passed) <=> SomeFailing(seen.lines, seen.passed) \/ Failing(seen.lines, i)
    BY <2>4 DEF SomeFailing
  <2>6. QED
    BY <1>2, <2>2, <2>3, <2>5 DEF Missing
<1>4. QED
  BY <1>0, <1>1, <1>2, <1>3 DEF PiLossStage, Certain

LEMMA LossStep == LineInv /\ LineResult /\ PiStage /\ PiLossStage /\ [Next]_vars => PiLossStage'
<1> SUFFICES ASSUME LineInv, LineResult, PiStage, PiLossStage, [Next]_vars, harness = "pi" PROVE PiLossStage'
  BY HarnessStays DEF PiLossStage
<1>0. harness' = harness
  BY HarnessStays
<1>1. CASE Keeps
  <2>1. UNCHANGED <<seen.lines, seen.passed, reader.index, reader.partial>>
    BY <1>1 DEF Keeps
  <2>2. reader'.pc \in {"stat", "open", "index", "indexed"} => reader.pc \in {"stat", "open", "index", "indexed"}
    BY <1>1 DEF Keeps
  <2>3. Certain' => Certain
    BY <1>1, StaysCertain
  <2>4. QED
    BY <1>0, <2>1, <2>2, <2>3 DEF PiLossStage
<1>2. CASE GivesUp
  <2>1. UNCHANGED <<seen.lines, reader.index>> /\ reader'.pc = "done" /\ (reader'.error # "none" \/ reader'.changed)
    BY <1>2 DEF GivesUp
  <2>2. QED
    BY <1>0, <2>1 DEF PiLossStage, Certain
<1>3. CASE PiIndexesLine
  BY <1>3, PiIndexesLoss
<1>4. CASE PiAnalyzes
  BY <1>4, PiAnalyzesLoss
<1>5. CASE PiEmits
  BY <1>5, PiEmitsLoss
<1>6. CASE ClaudeReadsLine \/ CodexReadsLine
  BY <1>6 DEF ClaudeReadsLine, CodexReadsLine, Turn
<1>7. QED
  BY <1>1, <1>2, <1>3, <1>4, <1>5, <1>6, LineMoves

LEMMA LossStageAlways == Spec => []PiLossStage
<1>1. Init => PiLossStage
  BY LossStarts
<1>2. (LineInv /\ LineResult /\ LinesTold /\ PiStage /\ PiEmitted) /\ PiLossStage /\ [Next]_vars => PiLossStage'
  BY LossStep
<1>3. QED
  BY <1>1, <1>2, EmittedAlways, PTL DEF Spec

\* Of a whole index, what Pi marks is what is lost.
LEMMA MissingIsUnread ==
  ASSUME NEW index, NEW lines \in Seq(Lines("pi")), PiIndex(index, lines), Filed(index, lines),
         NEW passed, ToSet(passed) = 1..Len(lines)
  PROVE  Missing(index, lines, passed) <=> PiUnread(lines)
<1> DEFINE n == Len(lines)
<1>1. n \in Nat /\ DOMAIN lines = 1..n /\ index.version = PiVersion(lines)
  BY DEF PiIndex
<1>2. CASE PiVersion(lines) \notin 1..3
  <2>1. PiUnread(lines)
    BY <1>2 DEF PiUnread
  <2>2. Untidy(index)
    BY <1>1, <1>2 DEF Untidy, Pi!Supported
  <2>3. QED
    BY <2>1, <2>2 DEF Missing
<1>3. CASE SomeUnread("pi", lines)
  BY <1>3 DEF Missing, Unread, PiUnread, SomeUnread
<1>4. CASE PiVersion(lines) \in 1..3 /\ ~SomeUnread("pi", lines)
  <2>1. Headed(lines) /\ lines # <<>>
    BY <1>4 DEF PiVersion, Headed
  <2>2. n # 0 /\ 1 \in 1..n
    BY <1>1, <2>1
  <2>3. ASSUME NEW i \in 1..n
        PROVE  lines[i].form = "record" /\ ~TooLarge(lines[i]) /\ lines[i].rec.type # ""
    <3>1. ~LineUnread("pi", lines[i])
      BY <1>1, <1>4 DEF SomeUnread
    <3>2. lines[i].form \in {"record", "blank", "garbage", "torn"}
      BY RecordsAreTyped
    <3>3. QED
      BY <3>1, <3>2 DEF LineUnread
  <2>4. ~IsEntryLine(lines, 1)
    BY <2>1 DEF Headed, IsEntryLine
  <2>5. \A i \in 1..n : i # 1 => IsEntryLine(lines, i)
    BY <2>3 DEF IsEntryLine
  <2>6. Readable(lines)
    <3>1. \A i \in 2..n : i \in 1..n /\ i # 1
      BY <1>1
    <3>2. QED
      BY <1>4, <2>1, <2>4, <2>5, <3>1 DEF Readable
  <2>7. Pi!Irregular(index) <=> ~PiIsTree(lines)
    BY <2>6, TreeIsRegular
  <2>8. SomeFailing(lines, passed) <=> \E i \in 1..n : lines[i].rec.type = "message" /\ ~lines[i].rec.valid
    <3>1. ASSUME NEW i \in 1..n
          PROVE  Failing(lines, i) <=> lines[i].rec.type = "message" /\ ~lines[i].rec.valid
      <4>1. CASE i = 1
        <5>1. lines[i].rec.type = "session"
          BY <2>1, <4>1 DEF Headed
        <5>2. QED
          BY <2>4, <4>1, <5>1 DEF Failing
      <4>2. CASE i # 1
        BY <1>4, <2>3, <2>5, <4>2 DEF Failing, PiFails
      <4>3. QED
        BY <4>1, <4>2
    <3>2. QED
      BY <3>1 DEF SomeFailing
  <2>9. Untidy(index) <=> Pi!Irregular(index)
    BY <1>1, <1>4 DEF Untidy, Pi!Supported
  <2>10. ~Unread(lines)
    BY <1>4, <2>1 DEF Unread
  <2>11. PiUnread(lines) <=> \/ \E i \in 1..n : lines[i].rec.type = "message" /\ ~lines[i].rec.valid
                           \/ ~PiIsTree(lines)
    BY <1>1, <1>4 DEF PiUnread, SomeUnread
  <2> HIDE DEF n
  <2>12. QED
    BY <2>7, <2>8, <2>9, <2>10, <2>11 DEF Missing
<1>5. QED
  BY <1>2, <1>3, <1>4

\* Of an undisturbed Pi session the result is partial exactly when something of it
\* could not be read.
LEMMA PiMarksLosses ==
  ASSUME LineInv, PiStage, PiLossStage, harness = "pi", Undisturbed
  PROVE  reader.partial <=> PiUnread(seen.before)
<1> DEFINE n == Len(seen.lines)
<1>1. reader.pc = "done" /\ reader.error = "none" /\ ~reader.changed /\ seen.stood
  BY DEF Undisturbed, Returned, Done, Running
<1>2. /\ seen.lines = seen.before /\ seen.lines \in Seq(Lines("pi"))
      /\ PiIndex(reader.index, seen.lines) /\ Filed(reader.index, seen.lines)
      /\ Analyzed /\ reader.order = <<>>
      /\ reader.partial <=> Missing(reader.index, seen.lines, seen.passed)
  <2>1. seen.lines = seen.before /\ seen.lines \in Seq(Lines("pi"))
    BY <1>1 DEF LineInv, Snapshot, Locals
  <2>2. PiIndex(reader.index, seen.lines) /\ Analyzed /\ reader.order = <<>>
    BY <1>1 DEF PiStage
  <2>3. Filed(reader.index, seen.lines) /\ (reader.partial <=> Missing(reader.index, seen.lines, seen.passed))
    BY <1>1 DEF PiLossStage, Certain
  <2>4. QED
    BY <2>1, <2>2, <2>3
<1>3. ToSet(seen.passed) = 1..n
  <2> DEFINE passed == seen.passed
             N == 1..n
             order == Pi!Order(reader.index.records)
  <2>1. IsIndex(reader.index.records, n)
    BY <1>2, PiIndexIs
  <2>2. ToSet(order) = N
    BY <2>1, OrderIs
  <2>3. passed \in Seq(N) /\ passed \o <<>> = order
    BY <1>2 DEF Analyzed
  <2> HIDE DEF passed, N, order
  <2>4. passed \o <<>> = passed
    BY <2>3
  <2>5. QED
    BY <2>2, <2>3, <2>4 DEF passed, N
<1>4. Missing(reader.index, seen.lines, seen.passed) <=> PiUnread(seen.lines)
  BY <1>2, <1>3, MissingIsUnread
<1>5. QED
  BY <1>2, <1>4

===============================================================================
