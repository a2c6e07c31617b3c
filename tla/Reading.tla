-------------------------------- MODULE Reading -------------------------------
(***************************************************************************)
(* What the four adapters' Parse functions share: a reader that walks      *)
(* through a harness's store, a harness that may be writing to that store, *)
(* the result Parse returns, and the messages usageEvent keeps of the      *)
(* events handed to the sink.                                              *)
(*                                                                         *)
(* A transcript file is an inode of lines.  A line is [form, size, rec]: a *)
(* complete "record", "blank", "garbage" that is not a JSON object, or     *)
(* "torn", a record still being written.  Sizes are 1, up to the probe's   *)
(* 4 MiB, 2, up to the record limit, and 3.  The size of a file grows with *)
(* every append; its modification time moves with every rewrite, but need  *)
(* not move with an append, for clocks are coarse.                         *)
(*                                                                         *)
(* The harness is modelled from what the adapters have to expect of a      *)
(* program that is running: it appends, in one write or two, rewrites the  *)
(* file in place or renames a new one over it, and deletes it.             *)
(***************************************************************************)
EXTENDS NativeEvents, SequencesExt

CONSTANTS
  Beginnings,   \* Beginnings[h]: a store a reader of h may find, and how many writes it will see
  Additions,    \* Additions[h]: what the harness may add: lines, or entries of a directory
  Versions      \* Versions[h]: the lines a rewritten file may have

\* Who reads: Parse of one of the adapters, or Discover ("walk").
Harnesses == {"claude", "codex", "pi", "legacy", "sqlite", "walk"}
LineHarnesses == {"claude", "codex", "pi"}

\* The records a harness leaves in its files, and the lines they are in.
Records(h) ==
  LET lines == Additions[h] \cup UNION {ToSet(version) : version \in Versions[h]}
                 \cup UNION {ToSet(b.store.inodes[1].lines) : b \in Beginnings[h]}
  IN {line.rec : line \in lines}
Lines(h) == [form : {"record", "blank", "garbage", "torn"}, size : 1..3, rec : Records(h)]

\* What a file may hold: only its end is ever torn.
Contents(h) ==
  {lines \in Seq(Lines(h)) : \A i \in DOMAIN lines : lines[i].form = "torn" => i = Len(lines)}

\* A store of inodes and the one the path names, 0 when it is gone.
Transcript(lines) == [inodes |-> <<[lines |-> lines, size |-> Len(lines), mtime |-> 0]>>, path |-> 1]

ASSUME ReadingAssumption ==
  /\ \A h \in Harnesses : \A b \in Beginnings[h] : b.writes \in Nat
  /\ \A h \in LineHarnesses :
       /\ \A b \in Beginnings[h] : \E lines \in {b.store.inodes[1].lines} \cap Contents(h) :
            b.store = Transcript(lines)
       /\ Additions[h] \subseteq Lines(h)
       /\ \A line \in Additions[h] : line.form \in {"record", "torn"}
       /\ Versions[h] \subseteq Contents(h)

VARIABLES
  harness,    \* which adapter reads
  store,      \* what the harness keeps on disk
  reader,     \* the local variables of Parse and its result
  emitted,    \* the messages usageEvent kept, in the order of the sink's calls
  seen,       \* history: the store at the first stat, and what was read of it
  cancelled,  \* ctx.Err() # nil
  writes      \* bound: the writes the harness may still make while it is read

vars == <<harness, store, reader, emitted, seen, cancelled, writes>>

-----------------------------------------------------------------------------
(* Transcript files *)

PathThere == store.path # 0
Inode(i) == store.inodes[i]
Stat == [size |-> Inode(store.path).size, mtime |-> Inode(store.path).mtime]

RecordLimit == 2
ProbeLimit == 1
TooLarge(line) == line.size > RecordLimit

-----------------------------------------------------------------------------
(* The result of Parse *)

Errors == {"none", "read_error", "cancelled", "normalization_error"}

NoResult == [partial |-> FALSE, malformed |-> 0, changed |-> FALSE, error |-> "none"]

Marked(partial, malformed) ==
  [reader EXCEPT !.partial = @ \/ partial, !.malformed = @ + malformed]

\* parseError: whatever was found so far is not reported.
Fail(code) ==
  reader' = [reader EXCEPT !.pc = "done", !.partial = TRUE, !.malformed = 0, !.changed = FALSE,
                           !.error = code]

Running == reader.pc # "done"

\* Handing events to the sink.
Emit(events) == emitted' = emitted \o UsageEvents(events)

\* Where a sink may refuse an event, where a failing read ends Parse (in the
\* legacy layout a file that cannot be read is only skipped), and where the
\* loops look at ctx.Err().
SinkPoints ==
  [claude |-> {"read"}, codex |-> {"read"}, pi |-> {"emit"},
   legacy |-> {"session", "message", "part"}, sqlite |-> {"session", "rows"}, walk |-> {}]
ReadPoints ==
  [claude |-> {"stat", "open", "read"}, codex |-> {"stat", "open", "read"},
   pi |-> {"stat", "open", "index", "emit"}, legacy |-> {"stat", "session"},
   sqlite |-> {"begin", "session", "rows"}, walk |-> {}]
CancelPoints ==
  [claude |-> {"read"}, codex |-> {"read"}, pi |-> {"index", "emit"}, legacy |-> {"message", "part"},
   sqlite |-> {"rows"}, walk |-> {}]

SinkRefuses ==
  /\ reader.pc \in SinkPoints[harness]
  /\ Fail("normalization_error")
  /\ UNCHANGED <<harness, store, emitted, seen, cancelled, writes>>

ReadFails ==
  /\ reader.pc \in ReadPoints[harness]
  /\ Fail("read_error")
  /\ UNCHANGED <<harness, store, emitted, seen, cancelled, writes>>

NoticesCancel ==
  /\ cancelled /\ reader.pc \in CancelPoints[harness]
  /\ Fail("cancelled")
  /\ UNCHANGED <<harness, store, emitted, seen, cancelled, writes>>

\* A turn of the loop that has passed its check.
Turn(h, pc) == harness = h /\ reader.pc = pc /\ ~cancelled

Cancel ==
  /\ Running /\ ~cancelled /\ cancelled' = TRUE
  /\ UNCHANGED <<harness, store, reader, emitted, seen, writes>>

-----------------------------------------------------------------------------
(* The frame of Parse around a transcript file *)

ReadsLines == harness \in LineHarnesses

StatsBefore ==
  /\ ReadsLines /\ reader.pc = "stat" /\ PathThere
  /\ reader' = [reader EXCEPT !.pc = "open", !.before = Stat]
  /\ seen' = [seen EXCEPT !.before = Inode(store.path).lines]
  /\ UNCHANGED <<harness, store, emitted, cancelled, writes>>

\* The descriptor keeps the inode, whatever becomes of the path.
Opens ==
  /\ ReadsLines /\ reader.pc = "open" /\ PathThere
  /\ reader' = [reader EXCEPT !.pc = IF harness = "pi" THEN "index" ELSE "read", !.fd = store.path]
  /\ UNCHANGED <<harness, store, emitted, seen, cancelled, writes>>

FindsNothing ==
  /\ ReadsLines /\ reader.pc \in {"stat", "open"} /\ ~PathThere
  /\ Fail("read_error")
  /\ UNCHANGED <<harness, store, emitted, seen, cancelled, writes>>

\* The reads of the buffered reader: one line or all there is.  A torn line is
\* taken when nothing else is left, for only then does the reader give up
\* looking for its end.
Remaining ==
  LET lines == Inode(reader.fd).lines
      next == reader.position + Len(reader.buffer) + 1
  IN SubSeq(lines, next, Len(lines))

Fills ==
  /\ ReadsLines /\ reader.pc \in {"read", "index"} /\ reader.buffer = <<>>
  /\ \E n \in DOMAIN Remaining :
       /\ \/ n = 1
          \/ Remaining[n].form # "torn" /\ \A m \in DOMAIN Remaining : m > n => Remaining[m].form = "torn"
       /\ reader' = [reader EXCEPT !.buffer = SubSeq(Remaining, 1, n)]
  /\ UNCHANGED <<harness, store, emitted, seen, cancelled, writes>>

MutStatsAfterBySize ==
  /\ ReadsLines /\ reader.pc = "after"
  /\ reader' =
       IF PathThere /\ Stat.size # reader.before.size
       THEN [reader EXCEPT !.pc = "done", !.changed = TRUE, !.partial = TRUE]
       ELSE [reader EXCEPT !.pc = "done"]
  /\ seen' = [seen EXCEPT !.stood = PathThere]
  /\ UNCHANGED <<harness, store, emitted, cancelled, writes>>

\* A file that is gone by now cannot be compared and passes for unchanged.
StatsAfter ==
  /\ ReadsLines /\ reader.pc = "after"
  /\ reader' =
       IF PathThere /\ Stat # reader.before
       THEN [reader EXCEPT !.pc = "done", !.changed = TRUE, !.partial = TRUE]
       ELSE [reader EXCEPT !.pc = "done"]
  /\ seen' = [seen EXCEPT !.stood = PathThere]
  /\ UNCHANGED <<harness, store, emitted, cancelled, writes>>

-----------------------------------------------------------------------------
(* The harness *)

MayWrite == Running /\ writes > 0

LastLine(inode) == inode.lines[Len(inode.lines)]
IsTorn(inode) == inode.lines # <<>> /\ LastLine(inode).form = "torn"

Written(inode) == store' = [store EXCEPT !.inodes[store.path] = inode]

HarnessAppends ==
  /\ ReadsLines /\ MayWrite /\ PathThere /\ ~IsTorn(Inode(store.path))
  /\ \E line \in Additions[harness], tick \in 0..1 :
       Written([lines |-> Append(Inode(store.path).lines, line),
                size |-> Inode(store.path).size + 1, mtime |-> Inode(store.path).mtime + tick])
  /\ writes' = writes - 1
  /\ UNCHANGED <<harness, reader, emitted, seen, cancelled>>

HarnessCompletes ==
  LET inode == Inode(store.path) IN
  /\ ReadsLines /\ MayWrite /\ PathThere /\ IsTorn(inode)
  /\ \E tick \in 0..1 :
       Written([lines |-> [inode.lines EXCEPT ![Len(inode.lines)].form = "record"],
                size |-> inode.size + 1, mtime |-> inode.mtime + tick])
  /\ writes' = writes - 1
  /\ UNCHANGED <<harness, reader, emitted, seen, cancelled>>

\* A rewritten file may end up with the size it had.
HarnessRewrites ==
  /\ ReadsLines /\ MayWrite /\ PathThere
  /\ \E lines \in Versions[harness] :
       Written([lines |-> lines, size |-> Inode(store.path).size, mtime |-> Inode(store.path).mtime + 1])
  /\ writes' = writes - 1
  /\ UNCHANGED <<harness, reader, emitted, seen, cancelled>>

HarnessReplaces ==
  /\ ReadsLines /\ MayWrite /\ PathThere
  /\ \E lines \in Versions[harness] :
       store' = [inodes |-> Append(store.inodes,
                   [lines |-> lines, size |-> Inode(store.path).size, mtime |-> Inode(store.path).mtime + 1]),
                 path |-> Len(store.inodes) + 1]
  /\ writes' = writes - 1
  /\ UNCHANGED <<harness, reader, emitted, seen, cancelled>>

HarnessRemoves ==
  /\ ReadsLines /\ MayWrite /\ PathThere
  /\ store' = [store EXCEPT !.path = 0]
  /\ writes' = writes - 1
  /\ UNCHANGED <<harness, reader, emitted, seen, cancelled>>

=============================================================================
