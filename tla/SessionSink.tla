------------------------------ MODULE SessionSink ------------------------------
(***************************************************************************)
(* The normalisation pipeline of one session: pipeline.SessionSink, which  *)
(* an adapter feeds with native events, and pipeline.FinalizedSession,     *)
(* which replays the spooled events to a renderer.                         *)
(*                                                                         *)
(* The sink drops what is not visible conversation, joins the assistant    *)
(* messages between two user messages into one turn, writes every turn as  *)
(* a line of a temporary spool file, and keeps in memory one index entry   *)
(* per line.  Finalize decides from the index alone whether the session    *)
(* belongs to the export and which lines are shown; Replay later reads the *)
(* file back and has to line up with that decision.                        *)
(*                                                                         *)
(* Abstractions.  The text of a message is the ordinal of the message      *)
(* among those kept, so a turn's text is the sequence of the ordinals it   *)
(* was joined from.  A timestamp is a number, NoTime when the record has   *)
(* none.  A native record is usable by one visible message at most, so the *)
(* number of the record is its source position.  usageEvent clears the     *)
(* native payload (sink.go:352), so persist's size and JSON-validity       *)
(* branches (sink.go:151-161) cannot be taken and are left out, and so is  *)
(* AddMalformed, which no adapter calls.  Removing the spool is taken to   *)
(* succeed: the whole workspace directory is removed after it.             *)
(***************************************************************************)
EXTENDS Naturals, Sequences, FiniteSets

CONSTANTS
  NativeIDs,      \* the identifiers a harness gives its records
  NoID,           \* a record without one
  MaxTime,        \* timestamps are 1..MaxTime
  From, To,       \* the requested range, both ends included
  References,     \* discovery's bounds of the session: [start, end]
  ResponseParts,  \* a turn joined from more messages is over the byte limit
  MaxRecords,     \* bound: records the adapter reads
  MaxReplays      \* bound: replays of the finalized session

NoTime == 0
Stamps == NoTime..MaxTime
Kinds == {"user", "assistant"}
Scopes == {"touched", "events-only"}

ASSUME SinkAssumption ==
  /\ NoID \notin NativeIDs
  /\ MaxTime \in Nat
  /\ From \in 1..MaxTime /\ To \in From..MaxTime
  /\ References \subseteq [start : Stamps, end : Stamps]
  /\ ResponseParts \in Nat \ {0}
  /\ MaxRecords \in Nat
  /\ MaxReplays \in Nat

VARIABLES
  options,    \* the scope and discovery's time bounds, fixed for the session
  sink,       \* the fields of SessionSink
  onDisk,     \* the spool file exists
  result,     \* the fields of FinalizedSession
  replay,     \* the loop variables of the current Replay and what it emitted
  cancelled,  \* ctx.Err() # nil
  read,       \* records the adapter has read
  kept        \* history: the messages usageEvent kept, in source order

vars == <<options, sink, onDisk, result, replay, cancelled, read, kept>>

-----------------------------------------------------------------------------
(* Values *)

Contains(t) == From <= t /\ t <= To
InRange(t) == t # NoTime /\ Contains(t)

\* A message that usageEvent kept: a native event reduced to its visible text.
Message(kind, id, pos, ts, ordinal) ==
  [kind |-> kind, id |-> id, pos |-> pos, ts |-> ts, text |-> <<ordinal>>]

Messages ==
  [kind : Kinds, id : NativeIDs \cup {NoID}, pos : Nat, ts : Stamps, text : Seq(Nat)]

\* The hash of an event's identity, taken to be injective: at is 0 unless the
\* source position takes part in it.
EventIDs == [id : NativeIDs \cup {NoID}, at : Nat]

Lines ==
  [seq : Nat, eventID : EventIDs, kind : Kinds, ts : Stamps, text : Seq(Nat), truncated : BOOLEAN]

Indexes == [kind : Kinds, inRange : BOOLEAN, timestamped : BOOLEAN, truncated : BOOLEAN]

Sinks ==
  [phase : {"open", "closed", "aborted"}, spool : Seq(Lines), indexes : Seq(Indexes),
   sequence : Nat, pending : Seq(Messages), nativeIDs : SUBSET NativeIDs,
   startedAt : Stamps, updatedAt : Stamps, matched : BOOLEAN]

Results ==
  [phase : {"none", "ready", "closed"}, included : BOOLEAN, selected : Seq(BOOLEAN),
   events : Nat, users : Nat, assistants : Nat,
   status : {"none", "partial", "truncated", "complete"}]

Replays ==
  [phase : {"idle", "running", "done", "failed"}, index : Nat, emitted : Seq(Lines), count : Nat]

NewSessionSink ==
  [phase |-> "open", spool |-> <<>>, indexes |-> <<>>, sequence |-> 0, pending |-> <<>>,
   nativeIDs |-> {}, startedAt |-> NoTime, updatedAt |-> NoTime, matched |-> FALSE]

NoResult ==
  [phase |-> "none", included |-> FALSE, selected |-> <<>>, events |-> 0, users |-> 0,
   assistants |-> 0, status |-> "none"]

NoReplay == [phase |-> "idle", index |-> 0, emitted |-> <<>>, count |-> 0]

-----------------------------------------------------------------------------
(* SessionSink: what the methods compute *)

\* (A definition named Mut... is a plausible slip in the one that follows it,
\* kept to show that a property would notice; no behaviour uses it.)

MutEventIDIgnoresRepeats(s, m) == [id |-> m.id, at |-> IF m.id = NoID THEN m.pos ELSE 0]

\* normalize: a repeated native ID is told apart by its source position, and a
\* record without one is known by its position alone.
EventID(s, m) ==
  [id |-> m.id, at |-> IF m.id = NoID \/ m.id \in s.nativeIDs THEN m.pos ELSE 0]

Truncated(m) == m.kind = "assistant" /\ Len(m.text) > ResponseParts

MutEarlierFirstWins(a, t) == IF a = NoTime THEN t ELSE a

Earlier(a, t) == IF t # NoTime /\ (a = NoTime \/ t < a) THEN t ELSE a
Later(a, t) == IF t # NoTime /\ (a = NoTime \/ t > a) THEN t ELSE a

Line(s, m) ==
  [seq |-> s.sequence, eventID |-> EventID(s, m), kind |-> m.kind, ts |-> m.ts,
   text |-> m.text, truncated |-> Truncated(m)]

Index(m) ==
  [kind |-> m.kind, inRange |-> InRange(m.ts), timestamped |-> m.ts # NoTime,
   truncated |-> Truncated(m)]

MutPersistKeepsSequence(s, m) ==
  [s EXCEPT
    !.spool = Append(@, Line(s, m)),
    !.indexes = Append(@, Index(m)),
    !.nativeIDs = @ \cup ({m.id} \ {NoID}),
    !.startedAt = Earlier(@, m.ts),
    !.updatedAt = Later(@, m.ts),
    !.matched = @ \/ InRange(m.ts)]

MutPersistCountsMissingID(s, m) ==
  [s EXCEPT
    !.spool = Append(@, Line(s, m)),
    !.indexes = Append(@, Index(m)),
    !.sequence = @ + 1,
    !.nativeIDs = @ \cup {m.id},
    !.startedAt = Earlier(@, m.ts),
    !.updatedAt = Later(@, m.ts),
    !.matched = @ \/ InRange(m.ts)]

\* persist, once the write has succeeded.
Persist(s, m) ==
  [s EXCEPT
    !.spool = Append(@, Line(s, m)),
    !.indexes = Append(@, Index(m)),
    !.sequence = @ + 1,
    !.nativeIDs = @ \cup ({m.id} \ {NoID}),
    !.startedAt = Earlier(@, m.ts),
    !.updatedAt = Later(@, m.ts),
    !.matched = @ \/ InRange(m.ts)]

FlushAssistant(s) ==
  IF s.pending = <<>> THEN s ELSE Persist([s EXCEPT !.pending = <<>>], s.pending[1])

\* The joined turn keeps the identity of its first message and takes the
\* timestamp of its last timestamped one.
Joined(left, right) ==
  [left EXCEPT !.text = @ \o right.text,
               !.ts = IF right.ts # NoTime THEN right.ts ELSE @]

MergeAssistant(s, m) ==
  [s EXCEPT !.pending = IF @ = <<>> THEN <<m>> ELSE <<Joined(@[1], m)>>]

MutAddMessageNoFlush(s, m) ==
  IF m.kind = "assistant" THEN MergeAssistant(s, m) ELSE Persist(s, m)

AddMessage(s, m) ==
  IF m.kind = "assistant" THEN MergeAssistant(s, m) ELSE Persist(FlushAssistant(s), m)

AbortSink == sink' = [sink EXCEPT !.phase = "aborted"] /\ onDisk' = FALSE

-----------------------------------------------------------------------------
(* SessionSink: the calls *)

\* The adapter reads the next record and hands its event to Add, which drops it
\* (usageEvent), joins it to the pending turn or writes it.
Add ==
  /\ sink.phase = "open" /\ ~cancelled
  /\ read < MaxRecords
  /\ read' = read + 1
  /\ \/ UNCHANGED <<sink, kept>>
     \/ \E kind \in Kinds, id \in NativeIDs \cup {NoID}, ts \in Stamps :
          /\ sink' = AddMessage(sink, Message(kind, id, read + 1, ts, Len(kept) + 1))
          /\ kept' = Append(kept, [kind |-> kind, ts |-> ts])
  /\ UNCHANGED <<options, onDisk, result, replay, cancelled>>

\* A failed write of the pending turn or of the new one aborts the sink, and so
\* does the next call after a cancellation.
AddFails ==
  /\ sink.phase = "open"
  /\ read < MaxRecords
  /\ read' = read + 1
  /\ AbortSink
  /\ UNCHANGED <<options, result, replay, cancelled, kept>>

\* The caller gives up: the source changed under the first attempt.
Abort ==
  /\ sink.phase = "open"
  /\ AbortSink
  /\ UNCHANGED <<options, result, replay, cancelled, read, kept>>

HasTimestampedMeaningful(indexes) ==
  \E i \in DOMAIN indexes : indexes[i].timestamped

\* A missing bound of the session's discovered interval is taken from the other.
CandidateMatch(ref) ==
  LET start == IF ref.start = NoTime THEN ref.end ELSE ref.start
      end == IF ref.end = NoTime THEN ref.start ELSE ref.end
  IN  start # NoTime /\ ~(end < From) /\ ~(start > To)

MutMatchedByBoundsToo(s) == s.matched \/ CandidateMatch(options.reference)

Matched(s) ==
  s.matched \/ (~HasTimestampedMeaningful(s.indexes) /\ CandidateMatch(options.reference))

Selection(s, matched) ==
  [i \in 1..Len(s.indexes) |->
     matched /\ (options.scope = "touched" \/ s.indexes[i].inRange)]

CountSelected(indexes, selected, kinds) ==
  Cardinality({i \in 1..Len(indexes) : selected[i] /\ indexes[i].kind \in kinds})

SelectedTruncations(indexes, selected) ==
  \E i \in 1..Len(indexes) : selected[i] /\ indexes[i].truncated

MutStatusIgnoresCuts(s, selected, partial) == IF partial THEN "partial" ELSE "complete"

Status(s, selected, partial) ==
  IF partial THEN "partial"
  ELSE IF SelectedTruncations(s.indexes, selected) THEN "truncated" ELSE "complete"

Finished(s, partial) ==
  LET matched == Matched(s)
      selected == Selection(s, matched)
  IN  [phase |-> "ready", included |-> matched, selected |-> selected,
       events |-> CountSelected(s.indexes, selected, Kinds),
       users |-> CountSelected(s.indexes, selected, {"user"}),
       assistants |-> CountSelected(s.indexes, selected, {"assistant"}),
       status |-> Status(s, selected, partial)]

\* The adapter is done; partial says that it reported a partial parse, a
\* changed source, a malformed record or an error.
Finalize ==
  /\ sink.phase = "open" /\ ~cancelled
  /\ sink' = [FlushAssistant(sink) EXCEPT !.phase = "closed"]
  /\ \E partial \in BOOLEAN : result' = Finished(FlushAssistant(sink), partial)
  /\ UNCHANGED <<options, onDisk, replay, cancelled, read, kept>>

\* The flush, the sync or the close of the spool fails, or the context is done.
FinalizeFails ==
  /\ sink.phase = "open"
  /\ AbortSink
  /\ UNCHANGED <<options, result, replay, cancelled, read, kept>>

-----------------------------------------------------------------------------
(* FinalizedSession: the calls *)

MutCloseResultLeavesSpool == UNCHANGED <<result, onDisk>>

CloseResult == result' = [result EXCEPT !.phase = "closed"] /\ onDisk' = FALSE

BeginReplay ==
  /\ result.phase = "ready" /\ replay.phase # "running"
  /\ replay.count < MaxReplays
  /\ replay' = [phase |-> "running", index |-> 0, emitted |-> <<>>, count |-> replay.count + 1]
  /\ UNCHANGED <<options, sink, onDisk, result, cancelled, read, kept>>

MutReplayNextIgnoresSelection ==
  LET next == replay.index + 1
  IN  /\ replay.phase = "running" /\ ~cancelled
      /\ next <= Len(sink.spool) /\ next <= Len(result.selected)
      /\ replay' = [replay EXCEPT !.index = next, !.emitted = Append(@, sink.spool[next])]
      /\ UNCHANGED <<options, sink, onDisk, result, cancelled, read, kept>>

\* One turn of the loop: a decoded line is emitted if it was selected.
ReplayNext ==
  LET next == replay.index + 1
  IN  /\ replay.phase = "running" /\ ~cancelled
      /\ next <= Len(sink.spool) /\ next <= Len(result.selected)
      /\ replay' = [replay EXCEPT
           !.index = next,
           !.emitted = IF result.included /\ result.selected[next]
                       THEN Append(@, sink.spool[next]) ELSE @]
      /\ UNCHANGED <<options, sink, onDisk, result, cancelled, read, kept>>

MutReplayDoneOffByOne ==
  /\ replay.phase = "running" /\ ~cancelled
  /\ replay.index = Len(sink.spool)
  /\ replay.index + 1 = Len(result.selected)
  /\ replay' = [replay EXCEPT !.phase = "done"]
  /\ UNCHANGED <<options, sink, onDisk, result, cancelled, read, kept>>

\* End of file with as many lines as the index has entries.
ReplayDone ==
  /\ replay.phase = "running" /\ ~cancelled
  /\ replay.index = Len(sink.spool)
  /\ replay.index = Len(result.selected)
  /\ replay' = [replay EXCEPT !.phase = "done"]
  /\ UNCHANGED <<options, sink, onDisk, result, cancelled, read, kept>>

\* Every error closes the session and removes its spool: a cancelled context,
\* a read error, a renderer that fails, a spool that does not match the index.
ReplayFails ==
  /\ replay.phase = "running"
  /\ replay' = [replay EXCEPT !.phase = "failed"]
  /\ CloseResult
  /\ UNCHANGED <<options, sink, cancelled, read, kept>>

Close ==
  /\ result.phase = "ready" /\ replay.phase # "running"
  /\ CloseResult
  /\ UNCHANGED <<options, sink, replay, cancelled, read, kept>>

\* SIGINT or SIGTERM (main.go).
Cancel ==
  /\ ~cancelled
  /\ cancelled' = TRUE
  /\ UNCHANGED <<options, sink, onDisk, result, replay, read, kept>>

-----------------------------------------------------------------------------
Init ==
  /\ options \in [scope : Scopes, reference : References]
  /\ sink = NewSessionSink
  /\ onDisk = TRUE
  /\ result = NoResult
  /\ replay = NoReplay
  /\ cancelled = FALSE
  /\ read = 0
  /\ kept = <<>>

Next ==
  \/ Add \/ AddFails \/ Abort \/ Finalize \/ FinalizeFails
  \/ BeginReplay \/ ReplayNext \/ ReplayDone \/ ReplayFails \/ Close
  \/ Cancel

\* The exporter is one goroutine that runs on unless it is killed: a replay goes
\* on to its next record, its end or, once cancelled, its error.  Other errors
\* are not fair: no replay may depend on one to end.
Fairness == WF_vars(ReplayNext \/ ReplayDone \/ (cancelled /\ ReplayFails))

Spec == Init /\ [][Next]_vars /\ Fairness

-----------------------------------------------------------------------------
(* Properties *)

\* The range of every field of the sink, the finalized session and the replay.
TypeOK ==
  /\ options \in [scope : Scopes, reference : References]
  /\ sink \in Sinks
  /\ onDisk \in BOOLEAN
  /\ result \in Results
  /\ replay \in Replays
  /\ cancelled \in BOOLEAN
  /\ read \in Nat
  /\ kept \in Seq([kind : Kinds, ts : Stamps])

\* One index entry per line, each saying of its line what Finalize asks.
Aligned(s) ==
  /\ Len(s.spool) = Len(s.indexes) /\ s.sequence = Len(s.indexes)
  /\ \A i \in 1..Len(s.spool) :
       /\ s.spool[i].seq = i - 1
       /\ s.indexes[i].kind = s.spool[i].kind
       /\ s.indexes[i].inRange <=> InRange(s.spool[i].ts)
       /\ s.indexes[i].timestamped <=> s.spool[i].ts # NoTime
       /\ s.indexes[i].truncated <=> s.spool[i].truncated

\* The file and the in-memory index describe the same lines: Finalize decides
\* from the index what Replay will find on disk, so an undamaged spool is never
\* reported as incomplete and no decision is taken for the wrong line
\* (finalize.go:187-199).
SpoolAligned ==
  /\ Aligned(sink)
  /\ result.phase # "none" =>
       sink.phase = "closed" /\ sink.pending = <<>> /\ Len(result.selected) = Len(sink.spool)

Turn(x) == [kind |-> x.kind, text |-> x.text]

\* The turns written to the spool, and the pending one.
Turns(s) ==
  [i \in 1..(Len(s.spool) + Len(s.pending)) |->
     IF i <= Len(s.spool) THEN Turn(s.spool[i]) ELSE Turn(s.pending[i - Len(s.spool)])]

FirstOf(t) == t.text[1]
FinalOf(t) == t.text[Len(t.text)]

\* turns are the messages from the first to the last, cut into runs.
InOrder(turns, messages) ==
  LET n == Len(turns)
  IN  /\ \A i \in 1..n :
           /\ turns[i].text # <<>>
           /\ FirstOf(turns[i]) = (IF i = 1 THEN 1 ELSE FinalOf(turns[i - 1]) + 1)
           /\ \A k \in 1..Len(turns[i].text) :
                /\ turns[i].text[k] = FirstOf(turns[i]) + k - 1
                /\ turns[i].text[k] \in 1..Len(messages)
                /\ messages[turns[i].text[k]].kind = turns[i].kind
           /\ turns[i].kind = "user" => Len(turns[i].text) = 1
           /\ i > 1 /\ turns[i].kind = "assistant" => turns[i - 1].kind # "assistant"
      /\ Len(messages) = (IF n = 0 THEN 0 ELSE FinalOf(turns[n]))

\* Joining and flushing lose, repeat and reorder nothing: the turns written and
\* pending are the kept messages from the first to the last, cut into runs, each
\* of one speaker, with no two runs of the assistant side by side and no user
\* messages joined (sink.go:124-148 and 224-249).
KeptInOrder == Len(sink.pending) <= 1 /\ InOrder(Turns(sink), kept)

\* No two lines of a session have the same event ID, whatever identifiers the
\* harness repeats: a repeated one would make validation reject the whole
\* archive (validation/jsonl.go).
EventIDsUnique ==
  \A i, j \in 1..Len(sink.spool) :
    sink.spool[i].eventID = sink.spool[j].eventID => i = j

\* The session's time span is that of its lines: both ends are the timestamp of
\* a line and no line is outside (sink.go:387-400).
SpanOfSpool ==
  LET stamps == {sink.spool[i].ts : i \in 1..Len(sink.spool)} \ {NoTime}
  IN  IF stamps = {} THEN sink.startedAt = NoTime /\ sink.updatedAt = NoTime
      ELSE /\ sink.startedAt \in stamps /\ sink.updatedAt \in stamps
           /\ \A t \in stamps : sink.startedAt <= t /\ t <= sink.updatedAt

\* Discovery's bounds decide only for a session none of whose lines has a
\* timestamp; otherwise the session is in exactly if one of its lines is in the
\* range, and that line is then among those shown (finalize.go:46-51).
MatchDecidedByLines ==
  result.phase # "none" /\ HasTimestampedMeaningful(sink.indexes) =>
    /\ result.included <=> \E i \in 1..Len(sink.spool) : InRange(sink.spool[i].ts)
    /\ \A i \in 1..Len(sink.spool) :
         InRange(sink.spool[i].ts) => result.selected[i]

\* A replay that reports success has emitted exactly the lines the session
\* record counts, user and assistant apart, in sequence order.  Archive
\* validation compares the counts with the events (validation/jsonl.go).
ReplayMatchesCounts ==
  LET emitted == replay.emitted
      Spoken(kind) == {i \in 1..Len(emitted) : emitted[i].kind = kind}
  IN  replay.phase = "done" =>
        /\ Len(emitted) = result.events
        /\ Cardinality(Spoken("user")) = result.users
        /\ Cardinality(Spoken("assistant")) = result.assistants
        /\ \A i, j \in 1..Len(emitted) : i < j => emitted[i].seq < emitted[j].seq

\* A whole session that is reported complete was delivered whole: every message
\* the sink kept is in an emitted line, and no emitted line was cut.
CompleteMeansWhole ==
  replay.phase = "done" /\ result.included /\ result.status = "complete" =>
    /\ \A i \in 1..Len(replay.emitted) : ~replay.emitted[i].truncated
    /\ options.scope = "touched" =>
         \A n \in 1..Len(kept) :
           \E i \in 1..Len(replay.emitted) :
             \E k \in 1..Len(replay.emitted[i].text) : replay.emitted[i].text[k] = n

\* An error from Replay invalidates the session for good: nothing is delivered
\* from a removed spool and no later replay succeeds (finalize.go:168-174).
FailedReplayIsFinal ==
  [][/\ replay.phase = "failed" => replay' = replay
     /\ replay'.emitted # replay.emitted /\ replay'.emitted # <<>> => onDisk]_vars

\* Every replay that starts comes to an end, with or without an error.
ReplayTerminates == (replay.phase = "running") ~> (replay.phase \in {"done", "failed"})

\* README.md:62-63 of the default export, which is events-only: it "includes
\* only messages inside that range".  Every message of an emitted line that was
\* known to be outside the range contradicts it.
OnlyMessagesInRange ==
  options.scope = "events-only" =>
    \A i \in 1..Len(replay.emitted) :
      \A k \in 1..Len(replay.emitted[i].text) :
        LET ts == kept[replay.emitted[i].text[k]].ts IN ts # NoTime => Contains(ts)

\* The spool, the index and the pending message together implement Transcript.
Discarded == sink.phase = "aborted" \/ result.phase = "closed"

AbstractTranscript ==
  INSTANCE Transcript WITH
    MaxMessages <- MaxRecords,
    turns <- Turns(sink),
    stage <- IF Discarded THEN "discarded"
             ELSE IF sink.phase = "open" THEN "recording" ELSE "sealed",
    shown <- {i \in 1..Len(result.selected) : result.selected[i]},
    cursor <- replay.index,
    delivered <- [i \in 1..Len(replay.emitted) |-> Turn(replay.emitted[i])]

\* The pipeline as a transcript: recorded turn by turn, sealed once, delivered
\* in order from what was sealed, and lost only as a whole.
ImplementsTranscript == AbstractTranscript!Spec

=============================================================================
