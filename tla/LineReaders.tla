------------------------------ MODULE LineReaders -----------------------------
(***************************************************************************)
(* Parse of the adapters that read a file of lines.  Claude Code and Codex *)
(* take one line after the other; Pi first indexes the file, orders its    *)
(* tree of entries, and reads every entry again at its offset.             *)
(*                                                                         *)
(* The events of one line go to the sink in one step: at most the first of *)
(* them is a message, so a sink that refuses a later one is the same as a  *)
(* sink that refuses before the next line.                                 *)
(***************************************************************************)
EXTENDS Reading

CONSTANTS
  NoCall,     \* a Codex record that names no call
  ProbeLines  \* how many lines a probe reads at most: 64 in the code

Claude == INSTANCE ClaudeRecords
Codex == INSTANCE CodexRecords
Pi == INSTANCE PiRecords

ASSUME RecordsAssumption ==
  /\ \A record \in Records("claude") : Claude!IsRecord(record)
  /\ \A record \in Records("codex") : Codex!IsRecord(record)
  /\ \A entry \in Records("pi") : Pi!IsEntry(entry)

NextLine == Head(reader.buffer)
NextAt == reader.position + 1

\* The loop goes on unless the reader met the end of the file inside a line.
Consumed(line, lost, eof) ==
  [Marked(lost, IF lost THEN 1 ELSE 0) EXCEPT
     !.position = @ + 1, !.buffer = Tail(@),
     !.pc = IF line.form = "torn" THEN eof ELSE @]

Sees(line) == seen' = [seen EXCEPT !.lines = Append(@, line)]

-----------------------------------------------------------------------------
(* Claude Code *)

ClaudeEvents(line, at) ==
  IF line.form = "record" /\ ~TooLarge(line) THEN Claude!MapNativeRecord(line.rec, at)
  ELSE Claude!MapError

\* The malformedNativeEvent of a lost line shows nothing.
ClaudeReadsLine ==
  LET events == ClaudeEvents(NextLine, NextAt)
      lost == (TooLarge(NextLine) \/ NextLine.form # "blank") /\ events = Claude!MapError
  IN /\ Turn("claude", "read") /\ reader.buffer # <<>>
     /\ reader' = Consumed(NextLine, lost, "after")
     /\ Sees(NextLine)
     /\ Emit(events)
     /\ UNCHANGED <<harness, store, cancelled, writes>>

-----------------------------------------------------------------------------
(* Codex *)

CodexEvent(line, at) ==
  IF line.form = "record" /\ ~TooLarge(line) THEN Codex!MapRecord(line.rec, at)
  ELSE Codex!MapError

CodexReadsLine ==
  LET event == CodexEvent(NextLine, NextAt)
      failed == event = Codex!MapError
      lost == (TooLarge(NextLine) \/ NextLine.form # "blank") /\ failed
      commands == Codex!RememberCommand(reader.commands, event)
  IN /\ Turn("codex", "read") /\ reader.buffer # <<>>
     /\ reader' = [Consumed(NextLine, lost, "after") EXCEPT !.commands = commands]
     /\ Sees(NextLine)
     /\ Emit(IF failed THEN <<>> ELSE <<Codex!WithCommandResult(commands, event)>>)
     /\ UNCHANGED <<harness, store, cancelled, writes>>

\* Both loops end when a read finds nothing more.
EndOfFile ==
  /\ Turn("claude", "read") \/ Turn("codex", "read")
  /\ reader.buffer = <<>> /\ Remaining = <<>>
  /\ reader' = [reader EXCEPT !.pc = "after"]
  /\ UNCHANGED <<harness, store, emitted, seen, cancelled, writes>>

-----------------------------------------------------------------------------
(* Pi *)

Indexed(index, line, at) ==
  CASE TooLarge(line) -> Pi!IndexUnreadable(index, at, TRUE)
    [] ~TooLarge(line) /\ (line.form # "record" \/ line.rec.type = "") ->
         Pi!IndexUnreadable(index, at, FALSE)
    [] OTHER -> IF at = 1 /\ line.rec.type = "session" THEN Pi!IndexHeader(index, line.rec, at)
                ELSE Pi!IndexEntry(index, line.rec, at)

\* The body of buildIndex's loop.
PiIndexesLine ==
  LET index == Indexed(reader.index, NextLine, NextAt)
      record == index.records[NextAt]
      lost == record.tooLarge \/ record.malformed
      headless == NextAt = 1 /\ ~record.header
  IN /\ Turn("pi", "index") /\ reader.buffer # <<>>
     /\ reader' = [Consumed(NextLine, lost, "indexed") EXCEPT !.index = index, !.partial = @ \/ headless]
     /\ Sees(NextLine)
     /\ UNCHANGED <<harness, store, emitted, cancelled, writes>>

MutPiAnalyzesSilently ==
  /\ \/ harness = "pi" /\ reader.pc = "indexed"
     \/ Turn("pi", "index") /\ reader.buffer = <<>> /\ Remaining = <<>>
  /\ reader' = [reader EXCEPT !.pc = "emit", !.order = Pi!Order(reader.index.records),
                              !.active = Pi!ActivePath(reader.index),
                              !.partial = @ \/ ~Pi!Supported(reader.index.version)]
  /\ UNCHANGED <<harness, store, emitted, seen, cancelled, writes>>

\* The end of buildIndex, and analyzeGraph.
PiAnalyzes ==
  /\ \/ harness = "pi" /\ reader.pc = "indexed"
     \/ Turn("pi", "index") /\ reader.buffer = <<>> /\ Remaining = <<>>
  /\ reader' = [reader EXCEPT !.pc = "emit", !.order = Pi!Order(reader.index.records),
                              !.active = Pi!ActivePath(reader.index),
                              !.partial = @ \/ ~Pi!Supported(reader.index.version)
                                            \/ Pi!Irregular(reader.index)]
  /\ UNCHANGED <<harness, store, emitted, seen, cancelled, writes>>

\* readIndexedRecord: what is in the record's place by now.  A line of another
\* kind has another length, so its bytes do not make a record.
InPlace(record) ==
  LET lines == Inode(reader.fd).lines IN
  IF record.line \in DOMAIN lines /\ lines[record.line].form = "record" /\ ~TooLarge(lines[record.line])
  THEN Pi!MapEntry(lines[record.line].rec, record.line) ELSE Pi!MapError

PiEvents(record) ==
  CASE record.malformed -> <<Pi!UnknownEvent(record.line)>>
    [] record.header    -> <<Pi!HeaderEvent(record.line)>>
    [] OTHER -> IF Pi!Supported(reader.index.version) THEN InPlace(record)
                ELSE <<Pi!UnknownEvent(record.line)>>

\* One turn of Parse's loop over the order.
PiEmits ==
  LET record == reader.index.records[Head(reader.order)]
      events == IF record.tooLarge THEN <<>> ELSE PiEvents(record)
      lost == ~record.tooLarge /\ events = Pi!MapError
  IN /\ Turn("pi", "emit") /\ reader.order # <<>>
     /\ reader' = [Marked(lost, IF lost THEN 1 ELSE 0) EXCEPT
                     !.order = Tail(@)]
     /\ seen' = [seen EXCEPT !.passed = Append(@, Head(reader.order))]
     /\ Emit(events)
     /\ UNCHANGED <<harness, store, cancelled, writes>>

PiEnds ==
  /\ harness = "pi" /\ reader.pc = "emit" /\ reader.order = <<>>
  /\ reader' = [reader EXCEPT !.pc = "after"]
  /\ UNCHANGED <<harness, store, emitted, seen, cancelled, writes>>

-----------------------------------------------------------------------------
(* Probe: whose file is it?  "name" stands for the reference's own ID, which
   discovery takes from the file's name. *)

Unsupported == [supported |-> FALSE, id |-> "name"]
Identified(id) == [supported |-> TRUE, id |-> IF id = "" THEN "name" ELSE id]

\* The first of the probed lines that ends the scan: one over the probe's limit
\* fails it, one of those that tell identifies the session.
Scan(lines, tell) ==
  LET ends == {i \in DOMAIN lines :
                 i <= ProbeLines /\ (lines[i].size > ProbeLimit \/ i \in tell)}
      first == CHOOSE i \in ends : \A j \in ends : i <= j
  IN IF ends = {} \/ lines[first].size > ProbeLimit THEN Unsupported ELSE Identified(lines[first].rec.id)

MutClaudeProbeTakesLast(lines) ==
  LET tell == {i \in DOMAIN lines : lines[i].form = "record" /\ lines[i].rec.type # ""}
      last == CHOOSE i \in tell : \A j \in tell : j <= i
  IN IF tell = {} THEN Unsupported ELSE Identified(lines[last].rec.id)

ClaudeProbe(lines) ==
  Scan(lines, {i \in DOMAIN lines : lines[i].form = "record" /\ lines[i].rec.type # ""})

CodexProbe(lines) ==
  Scan(lines, {i \in DOMAIN lines : /\ lines[i].form = "record" /\ lines[i].rec.valid
                                    /\ lines[i].rec.type = "session_meta"})

\* readHeader: the first line or nothing.
PiProbe(lines) ==
  IF lines # <<>> /\ lines[1].form = "record" /\ lines[1].size <= ProbeLimit /\ lines[1].rec.type = "session"
  THEN Identified(lines[1].rec.id) ELSE Unsupported

Probe(lines) ==
  CASE harness = "claude" -> ClaudeProbe(lines)
    [] harness = "codex"  -> CodexProbe(lines)
    [] harness = "pi"     -> PiProbe(lines)

=============================================================================
