-------------------------- MODULE SessionSink_proofs --------------------------
(***************************************************************************)
(* Proofs about SessionSink, for every value of its constants: what its    *)
(* methods return, the turns it writes, what Finalize decides from the index, *)
(* and what Replay emits.                                                  *)
(***************************************************************************)
EXTENDS SessionSink, FiniteSetTheorems, TLAPS

(***************************************************************************)
(* What the sink's methods return is well typed.                           *)
(***************************************************************************)

\* Replacing the fields that persist assigns by values of their ranges.
LEMMA SinkUpdate ==
  ASSUME NEW s \in Sinks, NEW spool \in Seq(Lines), NEW indexes \in Seq(Indexes),
         NEW ids \in SUBSET NativeIDs, NEW first \in Stamps, NEW last \in Stamps,
         NEW matched \in BOOLEAN
  PROVE  [s EXCEPT !.spool = spool, !.indexes = indexes, !.sequence = @ + 1,
                   !.nativeIDs = ids, !.startedAt = first, !.updatedAt = last,
                   !.matched = matched] \in Sinks
<1> DEFINE lines == Seq(Lines)  entries == Seq(Indexes)  waiting == Seq(Messages)
<1>1. s \in [phase : {"open", "closed", "aborted"}, spool : lines, indexes : entries,
             sequence : Nat, pending : waiting, nativeIDs : SUBSET NativeIDs,
             startedAt : Stamps, updatedAt : Stamps, matched : BOOLEAN]
  BY DEF Sinks
<1>2. s.sequence + 1 \in Nat
  BY <1>1
<1>3. spool \in lines /\ indexes \in entries
  OBVIOUS
<1> HIDE DEF lines, entries, waiting
<1>4. [s EXCEPT !.spool = spool, !.indexes = indexes, !.sequence = @ + 1,
                !.nativeIDs = ids, !.startedAt = first, !.updatedAt = last,
                !.matched = matched] \in
         [phase : {"open", "closed", "aborted"}, spool : lines, indexes : entries,
          sequence : Nat, pending : waiting, nativeIDs : SUBSET NativeIDs,
          startedAt : Stamps, updatedAt : Stamps, matched : BOOLEAN]
  BY <1>1, <1>2, <1>3
<1>5. QED
  BY <1>4 DEF Sinks, lines, entries, waiting

\* And the pending message or the phase.
LEMMA SinkSmallUpdates ==
  ASSUME NEW s \in Sinks
  PROVE  /\ \A p \in Seq(Messages) : [s EXCEPT !.pending = p] \in Sinks
         /\ \A ph \in {"open", "closed", "aborted"} : [s EXCEPT !.phase = ph] \in Sinks
<1> DEFINE lines == Seq(Lines)  entries == Seq(Indexes)  waiting == Seq(Messages)
<1>1. Sinks = [phase : {"open", "closed", "aborted"}, spool : lines, indexes : entries,
               sequence : Nat, pending : waiting, nativeIDs : SUBSET NativeIDs,
               startedAt : Stamps, updatedAt : Stamps, matched : BOOLEAN]
  BY DEF Sinks
<1>2. Seq(Messages) = waiting
  OBVIOUS
<1> HIDE DEF lines, entries, waiting
<1>3. QED
  BY <1>1, <1>2

\* persist keeps every field of the sink in its range.
LEMMA PersistType ==
  ASSUME NEW s \in Sinks, NEW m \in Messages
  PROVE  Persist(s, m) \in Sinks
<1>1. Line(s, m) \in Lines
  BY DEF Line, Lines, EventID, EventIDs, Truncated, Sinks, Messages
<1>2. Index(m) \in Indexes
  BY DEF Index, Indexes, InRange, Contains, Truncated, Messages
<1>3. Earlier(s.startedAt, m.ts) \in Stamps /\ Later(s.updatedAt, m.ts) \in Stamps
  BY DEF Earlier, Later, Sinks, Messages
<1>4. s.nativeIDs \cup ({m.id} \ {NoID}) \in SUBSET NativeIDs
  BY DEF Sinks, Messages
<1>5. (s.matched \/ InRange(m.ts)) \in BOOLEAN
  BY DEF InRange, Contains
<1>6. Append(s.spool, Line(s, m)) \in Seq(Lines) /\ Append(s.indexes, Index(m)) \in Seq(Indexes)
  BY <1>1, <1>2 DEF Sinks
<1>7. QED
  BY <1>3, <1>4, <1>5, <1>6, SinkUpdate DEF Persist

\* Joining two assistant messages gives a message.
LEMMA JoinedType ==
  ASSUME NEW left \in Messages, NEW right \in Messages
  PROVE  Joined(left, right) \in Messages
<1>1. left.text \o right.text \in Seq(Nat)
  BY DEF Messages
<1>2. QED
  BY <1>1 DEF Joined, Messages

\* So do flushAssistant and add.
LEMMA FlushType ==
  ASSUME NEW s \in Sinks
  PROVE  FlushAssistant(s) \in Sinks
<1>1. CASE s.pending = <<>>
  BY <1>1 DEF FlushAssistant
<1>2. CASE s.pending # <<>>
  <2>1. s.pending[1] \in Messages
    BY <1>2 DEF Sinks
  <2>2. [s EXCEPT !.pending = <<>>] \in Sinks
    <3>1. <<>> \in Seq(Messages)
      OBVIOUS
    <3>2. QED
      BY <3>1, SinkSmallUpdates
  <2>3. QED
    BY <1>2, <2>1, <2>2, PersistType DEF FlushAssistant
<1>3. QED
  BY <1>1, <1>2

LEMMA AddMessageType ==
  ASSUME NEW s \in Sinks, NEW m \in Messages
  PROVE  AddMessage(s, m) \in Sinks
<1>1. MergeAssistant(s, m) \in Sinks
  <2> DEFINE p == IF s.pending = <<>> THEN <<m>> ELSE <<Joined(s.pending[1], m)>>
  <2>1. s.pending # <<>> => s.pending[1] \in Messages
    BY DEF Sinks
  <2>2. p \in Seq(Messages)
    BY <2>1, JoinedType
  <2> HIDE DEF p
  <2>3. [s EXCEPT !.pending = p] \in Sinks
    BY <2>2, SinkSmallUpdates
  <2>4. QED
    BY <2>3 DEF MergeAssistant, p
<1>2. Persist(FlushAssistant(s), m) \in Sinks
  BY FlushType, PersistType
<1>3. QED
  BY <1>1, <1>2 DEF AddMessage

\* Finalize's decision: the selection has one entry per line, the counts are
\* natural numbers.
LEMMA FinishedType ==
  ASSUME NEW s \in Sinks, NEW partial \in BOOLEAN
  PROVE  /\ Finished(s, partial) \in Results
         /\ Finished(s, partial).phase = "ready"
         /\ Len(Finished(s, partial).selected) = Len(s.indexes)
<1> DEFINE matched == Matched(s)
           selected == Selection(s, matched)
<1>1. matched \in BOOLEAN
  BY DEF Matched, HasTimestampedMeaningful, CandidateMatch, Sinks
<1>2. Len(s.indexes) \in Nat /\ \A i \in 1..Len(s.indexes) : s.indexes[i] \in Indexes
  BY DEF Sinks
<1>3. selected \in Seq(BOOLEAN) /\ Len(selected) = Len(s.indexes)
  <2>1. \A i \in 1..Len(s.indexes) :
          (matched /\ (options.scope = "touched" \/ s.indexes[i].inRange)) \in BOOLEAN
    BY <1>1, <1>2 DEF Indexes
  <2>2. selected \in [1..Len(s.indexes) -> BOOLEAN]
    BY <2>1 DEF Selection
  <2>3. QED
    BY <1>2, <2>2
<1>4. \A kinds : CountSelected(s.indexes, selected, kinds) \in Nat
  <2> TAKE kinds
  <2> DEFINE chosen == {i \in 1..Len(s.indexes) : selected[i] /\ s.indexes[i].kind \in kinds}
  <2>1. IsFiniteSet(1..Len(s.indexes))
    BY <1>2, FS_Interval
  <2>2. chosen \subseteq 1..Len(s.indexes)
    OBVIOUS
  <2>3. IsFiniteSet(chosen)
    BY <2>1, <2>2, FS_Subset
  <2>4. Cardinality(chosen) \in Nat
    BY <2>3, FS_CardinalityType
  <2>5. QED
    BY <2>4 DEF CountSelected
<1>5. Status(s, selected, partial) \in {"none", "partial", "truncated", "complete"}
  BY DEF Status
<1>6. Finished(s, partial) =
        [phase |-> "ready", included |-> matched, selected |-> selected,
         events |-> CountSelected(s.indexes, selected, Kinds),
         users |-> CountSelected(s.indexes, selected, {"user"}),
         assistants |-> CountSelected(s.indexes, selected, {"assistant"}),
         status |-> Status(s, selected, partial)]
  BY DEF Finished
<1> HIDE DEF matched, selected
<1>7. QED
  BY <1>1, <1>3, <1>4, <1>5, <1>6 DEF Results

\* A new message is a message.
LEMMA MessageType ==
  ASSUME NEW kind \in Kinds, NEW id \in NativeIDs \cup {NoID}, NEW ts \in Stamps,
         NEW pos \in Nat, NEW ordinal \in Nat
  PROVE  Message(kind, id, pos, ts, ordinal) \in Messages
BY DEF Message, Messages

(***************************************************************************)
(* Type correctness.                                                       *)
(***************************************************************************)

LEMMA InitType == Init => TypeOK
<1> SUFFICES ASSUME Init PROVE TypeOK
  OBVIOUS
<1>1. NewSessionSink \in Sinks
  <2> DEFINE lines == Seq(Lines)  entries == Seq(Indexes)  waiting == Seq(Messages)
  <2>1. <<>> \in lines /\ <<>> \in entries /\ <<>> \in waiting
    OBVIOUS
  <2>2. NoTime \in Stamps
    BY SinkAssumption DEF Stamps, NoTime
  <2>3. Sinks = [phase : {"open", "closed", "aborted"}, spool : lines, indexes : entries,
                 sequence : Nat, pending : waiting, nativeIDs : SUBSET NativeIDs,
                 startedAt : Stamps, updatedAt : Stamps, matched : BOOLEAN]
    BY DEF Sinks
  <2> HIDE DEF lines, entries, waiting
  <2>4. QED
    BY <2>1, <2>2, <2>3 DEF NewSessionSink
<1>2. NoResult \in Results /\ NoReplay \in Replays
  BY DEF NoResult, NoReplay, Results, Replays
<1>3. <<>> \in Seq([kind : Kinds, ts : Stamps])
  OBVIOUS
<1>4. QED
  BY <1>1, <1>2, <1>3 DEF Init, TypeOK

\* A call that aborts the sink.
LEMMA AbortType == TypeOK /\ AbortSink => sink' \in Sinks /\ onDisk' \in BOOLEAN
BY SinkSmallUpdates DEF AbortSink, TypeOK

LEMMA CloseType == TypeOK /\ CloseResult => result' \in Results /\ onDisk' \in BOOLEAN
BY DEF CloseResult, TypeOK, Results

LEMMA NextType == TypeOK /\ [Next]_vars => TypeOK'
<1> SUFFICES ASSUME TypeOK, [Next]_vars PROVE TypeOK'
  OBVIOUS
<1> USE DEF TypeOK
<1>1. CASE Add
  <2>1. CASE UNCHANGED <<sink, kept>>
    BY <1>1, <2>1 DEF Add
  <2>2. ASSUME NEW kind \in Kinds, NEW id \in NativeIDs \cup {NoID}, NEW ts \in Stamps,
               sink' = AddMessage(sink, Message(kind, id, read + 1, ts, Len(kept) + 1)),
               kept' = Append(kept, [kind |-> kind, ts |-> ts])
        PROVE  TypeOK'
    <3>1. Message(kind, id, read + 1, ts, Len(kept) + 1) \in Messages
      <4>1. read + 1 \in Nat /\ Len(kept) + 1 \in Nat
        OBVIOUS
      <4>2. QED
        BY <4>1, MessageType
    <3>2. sink' \in Sinks
      BY <2>2, <3>1, AddMessageType
    <3>3. kept' \in Seq([kind : Kinds, ts : Stamps])
      BY <2>2
    <3>4. QED
      BY <1>1, <3>2, <3>3 DEF Add
  <2>3. QED
    BY <1>1, <2>1, <2>2 DEF Add
<1>2. CASE AddFails
  BY <1>2, AbortType DEF AddFails
<1>3. CASE Abort
  BY <1>3, AbortType DEF Abort
<1>4. CASE Finalize
  <2>1. FlushAssistant(sink) \in Sinks
    BY FlushType
  <2>2. sink' \in Sinks
    BY <1>4, <2>1, SinkSmallUpdates DEF Finalize
  <2>3. result' \in Results
    BY <1>4, <2>1, FinishedType DEF Finalize
  <2>4. QED
    BY <1>4, <2>2, <2>3 DEF Finalize
<1>5. CASE FinalizeFails
  BY <1>5, AbortType DEF FinalizeFails
<1>6. CASE BeginReplay
  BY <1>6 DEF BeginReplay, Replays
<1>7. CASE ReplayNext
  <2>1. result.selected[replay.index + 1] => sink.spool[replay.index + 1] \in Lines
    BY <1>7 DEF ReplayNext, Sinks, Replays
  <2>2. replay.emitted \in Seq(Lines) /\ replay.index + 1 \in Nat
    BY DEF Replays
  <2> DEFINE emitted == IF result.included /\ result.selected[replay.index + 1]
                        THEN Append(replay.emitted, sink.spool[replay.index + 1])
                        ELSE replay.emitted
             lines == Seq(Lines)
  <2>3. emitted \in lines
    BY <2>1, <2>2
  <2>4. replay' = [replay EXCEPT !.index = replay.index + 1, !.emitted = emitted]
    BY <1>7 DEF ReplayNext
  <2>5. Replays = [phase : {"idle", "running", "done", "failed"}, index : Nat,
                   emitted : lines, count : Nat]
    BY DEF Replays
  <2> HIDE DEF emitted, lines
  <2>6. replay' \in Replays
    BY <2>2, <2>3, <2>4, <2>5
  <2>7. QED
    BY <1>7, <2>6 DEF ReplayNext
<1>8. CASE ReplayDone
  BY <1>8 DEF ReplayDone, Replays
<1>9. CASE ReplayFails
  BY <1>9, CloseType DEF ReplayFails, Replays
<1>10. CASE Close
  BY <1>10, CloseType DEF Close
<1>11. CASE Cancel
  BY <1>11 DEF Cancel
<1>12. CASE UNCHANGED vars
  BY <1>12 DEF vars
<1>13. QED
  BY <1>1, <1>2, <1>3, <1>4, <1>5, <1>6, <1>7, <1>8, <1>9, <1>10, <1>11, <1>12 DEF Next

\* Every field of the sink, the finalized session and the replay stays in its
\* range, for any identifiers, times, range, limits and number of records.
THEOREM TypeCorrect == Spec => []TypeOK
<1>1. Init /\ [][Next]_vars => []TypeOK
  BY InitType, NextType, PTL
<1>2. QED
  BY <1>1, PTL DEF Spec

(***************************************************************************)
(* The spool and the index stay aligned.                                   *)
(***************************************************************************)

LEMMA PersistAligned ==
  ASSUME NEW s \in Sinks, NEW m \in Messages, Aligned(s)
  PROVE  Aligned(Persist(s, m))
<1> DEFINE t == Persist(s, m)
<1>1. /\ t.spool = Append(s.spool, Line(s, m))
      /\ t.indexes = Append(s.indexes, Index(m))
      /\ t.sequence = s.sequence + 1
  BY DEF Persist, Sinks
<1>2. s.spool \in Seq(Lines) /\ s.indexes \in Seq(Indexes) /\ s.sequence \in Nat
  BY DEF Sinks
<1>3. /\ Line(s, m).seq = s.sequence /\ Line(s, m).kind = m.kind
      /\ Line(s, m).ts = m.ts /\ (Line(s, m).truncated <=> Truncated(m))
  BY DEF Line, Truncated
<1>3a. /\ Index(m).kind = m.kind
       /\ Index(m).inRange <=> InRange(m.ts)
       /\ Index(m).timestamped <=> m.ts # NoTime
       /\ Index(m).truncated <=> Truncated(m)
  BY DEF Index, InRange, Contains, Truncated
<1> HIDE DEF t
<1>4. Len(t.spool) = Len(t.indexes) /\ t.sequence = Len(t.indexes)
  BY <1>1, <1>2 DEF Aligned
<1>5. ASSUME NEW i \in 1..Len(t.spool)
      PROVE  /\ t.spool[i].seq = i - 1
             /\ t.indexes[i].kind = t.spool[i].kind
             /\ t.indexes[i].inRange <=> InRange(t.spool[i].ts)
             /\ t.indexes[i].timestamped <=> t.spool[i].ts # NoTime
             /\ t.indexes[i].truncated <=> t.spool[i].truncated
  <2>1. CASE i \in 1..Len(s.spool)
    <3>1. t.spool[i] = s.spool[i] /\ t.indexes[i] = s.indexes[i]
      BY <1>1, <1>2, <2>1 DEF Aligned
    <3>2. QED
      BY <2>1, <3>1 DEF Aligned
  <2>2. CASE i = Len(s.spool) + 1
    <3>1. t.spool[i] = Line(s, m) /\ t.indexes[i] = Index(m)
      BY <1>1, <1>2, <2>2 DEF Aligned
    <3>2. t.spool[i].seq = i - 1
      BY <1>2, <1>3, <2>2, <3>1 DEF Aligned
    <3>3. /\ t.spool[i].kind = m.kind /\ t.spool[i].ts = m.ts
          /\ t.spool[i].truncated <=> Truncated(m)
      BY <1>3, <3>1
    <3>4. InRange(m.ts) <=> InRange(t.spool[i].ts)
      BY <3>3 DEF InRange, Contains
    <3>5. t.indexes[i].kind = t.spool[i].kind
      BY <1>3a, <3>1, <3>3
    <3>6. t.indexes[i].inRange <=> InRange(t.spool[i].ts)
      BY <1>3a, <3>1, <3>4
    <3>7. t.indexes[i].timestamped <=> t.spool[i].ts # NoTime
      BY <1>3a, <3>1, <3>3
    <3>8. t.indexes[i].truncated <=> t.spool[i].truncated
      BY <1>3a, <3>1, <3>3
    <3>9. QED
      BY <3>2, <3>5, <3>6, <3>7, <3>8
  <2>3. i \in 1..Len(s.spool) \/ i = Len(s.spool) + 1
    BY <1>1, <1>2
  <2>4. QED
    BY <2>1, <2>2, <2>3
<1>6. Aligned(t)
  BY <1>4, <1>5 DEF Aligned
<1>7. QED
  BY <1>6 DEF t

\* Setting the pending message or the phase does not touch the spool.
LEMMA AlignedFrame ==
  ASSUME NEW s \in Sinks, Aligned(s)
  PROVE  /\ \A p \in Seq(Messages) : Aligned([s EXCEPT !.pending = p])
         /\ \A ph : Aligned([s EXCEPT !.phase = ph])
BY DEF Aligned, Sinks

LEMMA FlushAligned ==
  ASSUME NEW s \in Sinks, Aligned(s)
  PROVE  Aligned(FlushAssistant(s)) /\ FlushAssistant(s).pending = <<>>
<1>1. CASE s.pending = <<>>
  BY <1>1 DEF FlushAssistant
<1>2. CASE s.pending # <<>>
  <2> DEFINE u == [s EXCEPT !.pending = <<>>]
  <2>1. s.pending[1] \in Messages
    BY <1>2 DEF Sinks
  <2>2. <<>> \in Seq(Messages)
    OBVIOUS
  <2>3. u \in Sinks /\ Aligned(u)
    BY <2>2, SinkSmallUpdates, AlignedFrame
  <2>4. u.pending = <<>>
    BY DEF Sinks
  <2> HIDE DEF u
  <2>5. Aligned(Persist(u, s.pending[1]))
    BY <2>1, <2>3, PersistAligned
  <2>6. Persist(u, s.pending[1]).pending = <<>>
    BY <2>3, <2>4 DEF Persist, Sinks
  <2>7. FlushAssistant(s) = Persist(u, s.pending[1])
    BY <1>2 DEF FlushAssistant, u
  <2>8. QED
    BY <2>5, <2>6, <2>7
<1>3. QED
  BY <1>1, <1>2

LEMMA AddMessageAligned ==
  ASSUME NEW s \in Sinks, NEW m \in Messages, Aligned(s)
  PROVE  Aligned(AddMessage(s, m))
<1>1. MergeAssistant(s, m).spool = s.spool /\ MergeAssistant(s, m).indexes = s.indexes
        /\ MergeAssistant(s, m).sequence = s.sequence
  BY DEF MergeAssistant, Sinks
<1>2. Aligned(MergeAssistant(s, m))
  BY <1>1 DEF Aligned
<1>3. Aligned(Persist(FlushAssistant(s), m))
  BY FlushType, FlushAligned, PersistAligned
<1>4. QED
  BY <1>2, <1>3 DEF AddMessage

\* Only a finalized session is replayed.
ReplayAfterFinalize == replay.phase # "idle" => result.phase # "none"

LEMMA NextReplayAfterFinalize ==
  TypeOK /\ ReplayAfterFinalize /\ [Next]_vars => ReplayAfterFinalize'
BY DEF ReplayAfterFinalize, TypeOK, Results, Replays, Next, vars, Add, AddFails, Abort,
       Finalize, FinalizeFails, BeginReplay, ReplayNext, ReplayDone, ReplayFails, Close,
       Cancel, CloseResult, Finished

LEMMA NextAligned ==
  TypeOK /\ ReplayAfterFinalize /\ SpoolAligned /\ [Next]_vars => SpoolAligned'
<1> SUFFICES ASSUME TypeOK, ReplayAfterFinalize, SpoolAligned, [Next]_vars
             PROVE  SpoolAligned'
  OBVIOUS
<1>0. sink \in Sinks /\ Aligned(sink)
  BY DEF TypeOK, SpoolAligned
<1>1. CASE Add
  <2>1. Aligned(sink')
    <3>1. CASE UNCHANGED <<sink, kept>>
      BY <1>0, <3>1 DEF Aligned
    <3>2. ASSUME NEW kind \in Kinds, NEW id \in NativeIDs \cup {NoID}, NEW ts \in Stamps,
                 sink' = AddMessage(sink, Message(kind, id, read + 1, ts, Len(kept) + 1))
          PROVE  Aligned(sink')
      <4>1. read + 1 \in Nat /\ Len(kept) + 1 \in Nat
        BY DEF TypeOK
      <4>2. QED
        BY <1>0, <3>2, <4>1, MessageType, AddMessageAligned
    <3>3. QED
      BY <1>1, <3>1, <3>2 DEF Add
  <2>2. result' = result /\ result.phase = "none"
    BY <1>1 DEF Add, SpoolAligned
  <2>3. QED
    BY <2>1, <2>2 DEF SpoolAligned
<1>2. ASSUME sink.phase = "open", AbortSink, result' = result
      PROVE  SpoolAligned'
  BY <1>0, <1>2, AlignedFrame DEF SpoolAligned, AbortSink
<1>3. CASE Finalize
  <2> DEFINE s == FlushAssistant(sink)
  <2>1. s \in Sinks /\ Aligned(s) /\ s.pending = <<>>
    BY <1>0, FlushType, FlushAligned
  <2>2. PICK partial \in BOOLEAN : result' = Finished(s, partial)
    BY <1>3 DEF Finalize
  <2>3. sink' = [s EXCEPT !.phase = "closed"]
    BY <1>3 DEF Finalize
  <2> HIDE DEF s
  <2>4. Aligned(sink')
    BY <2>1, <2>3, AlignedFrame
  <2>5. sink'.phase = "closed" /\ sink'.pending = <<>> /\ sink'.spool = s.spool
    BY <2>1, <2>3 DEF Sinks
  <2>6. Len(result'.selected) = Len(s.indexes) /\ Len(s.indexes) = Len(s.spool)
    BY <2>1, <2>2, FinishedType DEF Aligned
  <2>7. QED
    BY <2>4, <2>5, <2>6 DEF SpoolAligned
<1>4. ASSUME UNCHANGED <<sink, result>>
      PROVE  SpoolAligned'
  BY <1>4 DEF SpoolAligned, Aligned
<1>5. ASSUME sink' = sink, CloseResult, result.phase # "none"
      PROVE  SpoolAligned'
  BY <1>5 DEF SpoolAligned, Aligned, CloseResult, TypeOK, Results
<1>6. CASE ReplayFails
  BY <1>5, <1>6 DEF ReplayFails, ReplayAfterFinalize
<1>7. CASE Close
  BY <1>5, <1>7 DEF Close
<1>8. QED
  BY <1>1, <1>2, <1>3, <1>4, <1>6, <1>7
  DEF Next, vars, AddFails, Abort, FinalizeFails, BeginReplay, ReplayNext, ReplayDone, Cancel

LEMMA InitAligned == Init => SpoolAligned /\ ReplayAfterFinalize
BY DEF Init, SpoolAligned, ReplayAfterFinalize, Aligned, NewSessionSink, NoResult, NoReplay

\* The spool on disk and the index in memory describe the same lines as long as
\* the session lives, so a finalized session can be replayed to its end.
THEOREM SpoolStaysAligned == Spec => []SpoolAligned
<1>1. Init /\ [][Next]_vars => [](TypeOK /\ ReplayAfterFinalize /\ SpoolAligned)
  BY InitType, NextType, InitAligned, NextReplayAfterFinalize, NextAligned, PTL
<1>2. QED
  BY <1>1, PTL DEF Spec

(***************************************************************************)
(* No two lines have the same event ID.  Uniqueness alone is not           *)
(* inductive: a new line's identity contains its source position only when *)
(* its native ID is missing or was seen, so an invariant has to say that   *)
(* the IDs seen are those of the lines, and that the positions that take   *)
(* part in identities lie before that of the next message to be written.   *)
(* The pending message is that next one, and it is older than the record   *)
(* that made it flush.                                                     *)
(***************************************************************************)

Distinct(s) ==
  \A i, j \in 1..Len(s.spool) : s.spool[i].eventID = s.spool[j].eventID => i = j

\* The identities written lie before source position pos.
IDsBefore(s, pos) ==
  \A i \in 1..Len(s.spool) :
    /\ s.spool[i].eventID.at < pos
    /\ s.spool[i].eventID.id # NoID => s.spool[i].eventID.id \in s.nativeIDs

\* After r records: the pending message is one of them and is still to be given
\* an identity.
IDsOf(s, r) ==
  /\ Distinct(s)
  /\ IDsBefore(s, r + 1)
  /\ s.pending # <<>> => s.pending[1].pos \in 1..r /\ IDsBefore(s, s.pending[1].pos)

LEMMA PositionsAreNumbers ==
  ASSUME NEW s \in Sinks
  PROVE  \A i \in 1..Len(s.spool) : s.spool[i].eventID.at \in Nat
<1>1. s.spool \in Seq(Lines)
  BY DEF Sinks
<1>2. \A i \in 1..Len(s.spool) : s.spool[i] \in Lines
  BY <1>1
<1>3. \A l \in Lines : l.eventID.at \in Nat
  BY DEF Lines, EventIDs
<1>4. QED
  BY <1>2, <1>3

\* persist gives the new line an identity that no earlier line has.
LEMMA PersistIDs ==
  ASSUME NEW s \in Sinks, NEW m \in Messages, m.pos > 0, Distinct(s), IDsBefore(s, m.pos)
  PROVE  Distinct(Persist(s, m)) /\ IDsBefore(Persist(s, m), m.pos + 1)
<1> DEFINE t == Persist(s, m)  n == Len(s.spool)
<1>1. /\ t.spool = Append(s.spool, Line(s, m))
      /\ t.nativeIDs = s.nativeIDs \cup ({m.id} \ {NoID})
  BY DEF Persist, Sinks
<1>2. s.spool \in Seq(Lines) /\ n \in Nat
  BY DEF Sinks
<1>3. m.pos \in Nat /\ m.id \in NativeIDs \cup {NoID}
  BY DEF Messages
<1>4. /\ Line(s, m).eventID.id = m.id
      /\ m.id = NoID \/ m.id \in s.nativeIDs => Line(s, m).eventID.at = m.pos
      /\ m.id # NoID /\ m.id \notin s.nativeIDs => Line(s, m).eventID.at = 0
  BY DEF Line, EventID
<1>5. /\ Len(t.spool) = n + 1
      /\ t.spool[n + 1] = Line(s, m)
      /\ \A i \in 1..n : t.spool[i] = s.spool[i]
  BY <1>1, <1>2
<1>6. \A i \in 1..n : s.spool[i].eventID.at \in Nat
  BY PositionsAreNumbers
<1> HIDE DEF t
<1>7. \A i \in 1..n : s.spool[i].eventID # Line(s, m).eventID
  <2> SUFFICES ASSUME NEW i \in 1..n, s.spool[i].eventID = Line(s, m).eventID
               PROVE  FALSE
    OBVIOUS
  <2>1. CASE m.id = NoID \/ m.id \in s.nativeIDs
    BY <1>3, <1>4, <1>6, <2>1 DEF IDsBefore
  <2>2. CASE m.id # NoID /\ m.id \notin s.nativeIDs
    BY <1>4, <2>2 DEF IDsBefore
  <2>3. QED
    BY <2>1, <2>2
<1>8. Distinct(t)
  <2> SUFFICES ASSUME NEW i \in 1..(n + 1), NEW j \in 1..(n + 1),
                      t.spool[i].eventID = t.spool[j].eventID
               PROVE  i = j
    BY <1>5 DEF Distinct
  <2>1. (i \in 1..n \/ i = n + 1) /\ (j \in 1..n \/ j = n + 1)
    BY <1>2
  <2>2. CASE i \in 1..n /\ j \in 1..n
    BY <1>5, <2>2 DEF Distinct
  <2>3. CASE i \in 1..n /\ j = n + 1
    BY <1>5, <1>7, <2>3
  <2>4. CASE i = n + 1 /\ j \in 1..n
    BY <1>5, <1>7, <2>4
  <2>5. QED
    BY <2>1, <2>2, <2>3, <2>4
<1>9. IDsBefore(t, m.pos + 1)
  <2> SUFFICES ASSUME NEW i \in 1..(n + 1)
               PROVE  /\ t.spool[i].eventID.at < m.pos + 1
                      /\ t.spool[i].eventID.id # NoID => t.spool[i].eventID.id \in t.nativeIDs
    BY <1>5 DEF IDsBefore
  <2>1. i \in 1..n \/ i = n + 1
    BY <1>2
  <2>2. CASE i \in 1..n
    <3>1. t.spool[i] = s.spool[i]
      BY <1>5, <2>2
    <3>2. t.spool[i].eventID.at < m.pos + 1
      BY <1>3, <1>6, <2>2, <3>1 DEF IDsBefore
    <3>3. QED
      BY <1>1, <2>2, <3>1, <3>2 DEF IDsBefore
  <2>3. CASE i = n + 1
    BY <1>1, <1>3, <1>4, <1>5, <2>3
  <2>4. QED
    BY <2>1, <2>2, <2>3
<1>10. QED
  BY <1>8, <1>9 DEF t

\* A bound on the positions may be raised.
LEMMA IDsBeforeLater ==
  ASSUME NEW s \in Sinks, NEW p \in Nat, NEW q \in Nat, p <= q, IDsBefore(s, p)
  PROVE  IDsBefore(s, q)
<1>1. \A i \in 1..Len(s.spool) : s.spool[i].eventID.at \in Nat
  BY PositionsAreNumbers
<1>2. QED
  BY <1>1 DEF IDsBefore

LEMMA FlushIDs ==
  ASSUME NEW s \in Sinks, NEW r \in Nat, IDsOf(s, r)
  PROVE  IDsOf(FlushAssistant(s), r) /\ FlushAssistant(s).pending = <<>>
<1>1. CASE s.pending = <<>>
  BY <1>1 DEF FlushAssistant
<1>2. CASE s.pending # <<>>
  <2> DEFINE u == [s EXCEPT !.pending = <<>>]  m == s.pending[1]
  <2>1. m \in Messages /\ m.pos \in 1..r
    BY <1>2 DEF Sinks, IDsOf
  <2>2. u \in Sinks
    <3>1. <<>> \in Seq(Messages)
      OBVIOUS
    <3>2. QED
      BY <3>1, SinkSmallUpdates
  <2>3. u.pending = <<>> /\ u.spool = s.spool /\ u.nativeIDs = s.nativeIDs
    BY DEF Sinks
  <2>4. FlushAssistant(s) = Persist(u, m)
    BY <1>2 DEF FlushAssistant
  <2>5. Distinct(s) /\ IDsBefore(s, m.pos)
    BY <1>2 DEF IDsOf
  <2> HIDE DEF u, m
  <2>6. Distinct(u) /\ IDsBefore(u, m.pos)
    BY <2>3, <2>5 DEF Distinct, IDsBefore
  <2>7. Distinct(Persist(u, m)) /\ IDsBefore(Persist(u, m), m.pos + 1)
    BY <2>1, <2>2, <2>6, PersistIDs
  <2>8. Persist(u, m) \in Sinks /\ Persist(u, m).pending = <<>>
    BY <2>1, <2>2, <2>3, PersistType DEF Persist, Sinks
  <2>9. m.pos + 1 \in Nat /\ r + 1 \in Nat /\ m.pos + 1 <= r + 1
    BY <2>1
  <2>10. IDsBefore(Persist(u, m), r + 1)
    BY <2>7, <2>8, <2>9, IDsBeforeLater
  <2>11. QED
    BY <2>4, <2>7, <2>8, <2>10 DEF IDsOf
<1>3. QED
  BY <1>1, <1>2

\* A message read from record r + 1.
LEMMA AddMessageIDs ==
  ASSUME NEW s \in Sinks, NEW r \in Nat, NEW m \in Messages, m.pos = r + 1, IDsOf(s, r)
  PROVE  IDsOf(AddMessage(s, m), r + 1)
<1>1. r + 1 \in Nat /\ (r + 1) + 1 \in Nat
  OBVIOUS
<1>2. IDsBefore(s, (r + 1) + 1)
  BY <1>1, IDsBeforeLater DEF IDsOf
<1>3. CASE m.kind = "assistant"
  <2> DEFINE t == MergeAssistant(s, m)
  <2>1. t.spool = s.spool /\ t.nativeIDs = s.nativeIDs
    BY DEF MergeAssistant, Sinks
  <2>2. t.pending = IF s.pending = <<>> THEN <<m>> ELSE <<Joined(s.pending[1], m)>>
    BY DEF MergeAssistant, Sinks
  <2> HIDE DEF t
  <2>3. ASSUME s.pending = <<>> PROVE IDsOf(t, r + 1)
    <3>1. t.pending[1].pos = r + 1
      BY <2>2, <2>3
    <3>2. QED
      BY <1>1, <1>2, <2>1, <3>1 DEF IDsOf, Distinct, IDsBefore
  <2>4. ASSUME s.pending # <<>> PROVE IDsOf(t, r + 1)
    <3>1. s.pending[1] \in Messages
      BY <2>4 DEF Sinks
    <3>1a. t.pending[1] = Joined(s.pending[1], m)
      BY <2>2, <2>4
    <3>1b. \A left, right \in Messages : Joined(left, right).pos = left.pos
      BY DEF Joined, Messages
    <3>2. t.pending[1].pos = s.pending[1].pos
      BY <3>1, <3>1a, <3>1b
    <3>3. s.pending[1].pos \in 1..(r + 1)
      BY <2>4 DEF IDsOf
    <3>4. QED
      BY <1>2, <2>1, <2>4, <3>2, <3>3 DEF IDsOf, Distinct, IDsBefore
  <2>5. IDsOf(t, r + 1)
    BY <2>3, <2>4
  <2>6. QED
    BY <1>3, <2>5 DEF AddMessage, t
<1>4. CASE m.kind # "assistant"
  <2> DEFINE u == FlushAssistant(s)  t == Persist(u, m)
  <2>1. u \in Sinks /\ IDsOf(u, r) /\ u.pending = <<>>
    BY FlushType, FlushIDs
  <2> HIDE DEF u
  <2>2. Distinct(t) /\ IDsBefore(t, m.pos + 1)
    BY <2>1, PersistIDs DEF IDsOf
  <2>3. t.pending = <<>>
    BY <2>1 DEF Persist, Sinks
  <2> HIDE DEF t
  <2>4. IDsOf(t, r + 1)
    BY <2>2, <2>3 DEF IDsOf
  <2>5. QED
    BY <1>4, <2>4 DEF AddMessage, t, u
<1>5. QED
  BY <1>3, <1>4

LEMMA NextIDs ==
  TypeOK /\ IDsOf(sink, read) /\ [Next]_vars => IDsOf(sink, read)'
<1> SUFFICES ASSUME TypeOK, IDsOf(sink, read), [Next]_vars
             PROVE  IDsOf(sink', read')
  BY DEF IDsOf, Distinct, IDsBefore
<1>0. sink \in Sinks /\ read \in Nat /\ read + 1 \in Nat /\ (read + 1) + 1 \in Nat
  BY DEF TypeOK
<1>1. IDsOf(sink, read + 1)
  <2>1. IDsBefore(sink, (read + 1) + 1)
    BY <1>0, IDsBeforeLater DEF IDsOf
  <2>2. QED
    BY <1>0, <2>1 DEF IDsOf
<1>2. ASSUME NEW ph \in {"open", "closed", "aborted"}, NEW s \in Sinks, NEW r \in Nat, IDsOf(s, r)
      PROVE  IDsOf([s EXCEPT !.phase = ph], r)
  <2> DEFINE t == [s EXCEPT !.phase = ph]
  <2>1. t.spool = s.spool /\ t.nativeIDs = s.nativeIDs /\ t.pending = s.pending
    BY DEF Sinks
  <2> HIDE DEF t
  <2>2. IDsOf(t, r)
    BY <1>2, <2>1 DEF IDsOf, Distinct, IDsBefore
  <2>3. QED
    BY <2>2 DEF t
<1>3. CASE Add
  <2>1. CASE UNCHANGED <<sink, kept>>
    BY <1>1, <1>3, <2>1 DEF Add
  <2>2. ASSUME NEW kind \in Kinds, NEW id \in NativeIDs \cup {NoID}, NEW ts \in Stamps,
               sink' = AddMessage(sink, Message(kind, id, read + 1, ts, Len(kept) + 1))
        PROVE  IDsOf(sink', read')
    <3> DEFINE m == Message(kind, id, read + 1, ts, Len(kept) + 1)
    <3>1. Len(kept) + 1 \in Nat
      BY DEF TypeOK
    <3>2. m \in Messages /\ m.pos = read + 1
      BY <1>0, <3>1, MessageType DEF Message
    <3> HIDE DEF m
    <3>3. IDsOf(AddMessage(sink, m), read + 1)
      BY <1>0, <3>2, AddMessageIDs
    <3>4. QED
      BY <1>3, <2>2, <3>3 DEF Add, m
  <2>3. QED
    BY <1>3, <2>1, <2>2 DEF Add
<1>4. CASE AddFails
  BY <1>0, <1>1, <1>2, <1>4 DEF AddFails, AbortSink
<1>5. CASE Abort \/ FinalizeFails
  BY <1>0, <1>2, <1>5 DEF Abort, FinalizeFails, AbortSink
<1>6. CASE Finalize
  <2>1. FlushAssistant(sink) \in Sinks /\ IDsOf(FlushAssistant(sink), read)
    BY <1>0, FlushType, FlushIDs
  <2>2. QED
    BY <1>0, <1>2, <1>6, <2>1 DEF Finalize
<1>7. CASE UNCHANGED <<sink, read>>
  BY <1>7
<1>8. QED
  BY <1>3, <1>4, <1>5, <1>6, <1>7
  DEF Next, vars, BeginReplay, ReplayNext, ReplayDone, ReplayFails, Close, Cancel

LEMMA InitIDs == Init => IDsOf(sink, read)
BY DEF Init, IDsOf, Distinct, IDsBefore, NewSessionSink

\* No two lines of a session share an event ID, however often the harness
\* repeats its own, omits it, or interleaves the two with joined turns.
THEOREM EventIDsStayUnique == Spec => []EventIDsUnique
<1>1. IDsOf(sink, read) => EventIDsUnique
  BY DEF IDsOf, Distinct, EventIDsUnique
<1>2. Init /\ [][Next]_vars => [](TypeOK /\ IDsOf(sink, read))
  BY InitType, NextType, InitIDs, NextIDs, PTL
<1>3. QED
  BY <1>1, <1>2, PTL DEF Spec

(***************************************************************************)
(* Turns.  A message joins the turn of the assistant that is speaking or   *)
(* opens a turn; this one operation on sequences of turns is what the      *)
(* pending message, its flush and persist come to.                         *)
(***************************************************************************)

TurnSet == [kind : Kinds, text : Seq(Nat)]

Recorded(turns, kind, n) ==
  IF kind = "assistant" /\ turns # <<>> /\ turns[Len(turns)].kind = "assistant"
  THEN [turns EXCEPT ![Len(turns)].text = Append(@, n)]
  ELSE Append(turns, [kind |-> kind, text |-> <<n>>])

\* Every message is in a turn.
AllTold(turns, messages) ==
  \A n \in 1..Len(messages) :
    \E i \in 1..Len(turns) : \E k \in 1..Len(turns[i].text) : turns[i].text[k] = n

\* A new turn at the end.
LEMMA OpenedInOrder ==
  ASSUME NEW turns \in Seq(TurnSet), NEW messages \in Seq([kind : Kinds, ts : Stamps]),
         InOrder(turns, messages), AllTold(turns, messages),
         NEW kind \in Kinds, NEW ts \in Stamps,
         kind = "assistant" /\ turns # <<>> => turns[Len(turns)].kind # "assistant"
  PROVE  LET t == Append(turns, [kind |-> kind, text |-> <<Len(messages) + 1>>])
             m == Append(messages, [kind |-> kind, ts |-> ts])
         IN  t \in Seq(TurnSet) /\ InOrder(t, m) /\ AllTold(t, m)
<1> DEFINE N == Len(messages)  n == Len(turns)
           new == [kind |-> kind, text |-> <<N + 1>>]
           t == Append(turns, new)
           m == Append(messages, [kind |-> kind, ts |-> ts])
<1>1. N \in Nat /\ n \in Nat /\ N + 1 \in Nat
  OBVIOUS
<1>2. new \in TurnSet /\ new.kind = kind /\ new.text = <<N + 1>>
  BY <1>1 DEF TurnSet
<1>3. Len(new.text) = 1 /\ new.text[1] = N + 1 /\ new.text # <<>>
  BY <1>2
<1> HIDE DEF new
<1>4. /\ t \in Seq(TurnSet) /\ Len(t) = n + 1 /\ t[n + 1] = new
      /\ \A i \in 1..n : t[i] = turns[i]
  BY <1>2
<1>5. /\ Len(m) = N + 1 /\ m[N + 1].kind = kind
      /\ \A i \in 1..N : m[i] = messages[i]
  BY <1>1
<1>6. N = IF n = 0 THEN 0 ELSE FinalOf(turns[n])
  BY DEF InOrder
<1> HIDE DEF t, m
<1>7. ASSUME NEW i \in 1..(n + 1)
      PROVE  /\ t[i].text # <<>>
             /\ FirstOf(t[i]) = (IF i = 1 THEN 1 ELSE FinalOf(t[i - 1]) + 1)
             /\ \A k \in 1..Len(t[i].text) :
                  /\ t[i].text[k] = FirstOf(t[i]) + k - 1
                  /\ t[i].text[k] \in 1..Len(m)
                  /\ m[t[i].text[k]].kind = t[i].kind
             /\ t[i].kind = "user" => Len(t[i].text) = 1
             /\ i > 1 /\ t[i].kind = "assistant" => t[i - 1].kind # "assistant"
  <2>1. CASE i \in 1..n
    <3>1. t[i] = turns[i] /\ (i > 1 => t[i - 1] = turns[i - 1])
      BY <1>1, <1>4, <2>1
    <3>2. /\ turns[i].text # <<>>
          /\ FirstOf(turns[i]) = (IF i = 1 THEN 1 ELSE FinalOf(turns[i - 1]) + 1)
          /\ \A k \in 1..Len(turns[i].text) :
               /\ turns[i].text[k] = FirstOf(turns[i]) + k - 1
               /\ turns[i].text[k] \in 1..N
               /\ messages[turns[i].text[k]].kind = turns[i].kind
          /\ turns[i].kind = "user" => Len(turns[i].text) = 1
          /\ i > 1 /\ turns[i].kind = "assistant" => turns[i - 1].kind # "assistant"
      BY <2>1 DEF InOrder
    <3>3. \A k \in 1..N : k \in 1..Len(m) /\ m[k] = messages[k]
      BY <1>1, <1>5
    <3>4. \A k \in 1..Len(turns[i].text) :
            /\ turns[i].text[k] \in 1..Len(m)
            /\ m[turns[i].text[k]].kind = turns[i].kind
      BY <3>2, <3>3
    <3>5. FirstOf(turns[i]) = (IF i = 1 THEN 1 ELSE FinalOf(t[i - 1]) + 1)
      BY <1>1, <2>1, <3>1, <3>2
    <3>6. i > 1 /\ turns[i].kind = "assistant" => t[i - 1].kind # "assistant"
      BY <1>1, <2>1, <3>1, <3>2
    <3>7. QED
      BY <3>1, <3>2, <3>4, <3>5, <3>6
  <2>2. CASE i = n + 1
    <3>1. t[i] = new /\ (i > 1 => t[i - 1] = turns[n])
      BY <1>1, <1>4, <2>2
    <3>2. FirstOf(new) = N + 1
      BY <1>3 DEF FirstOf
    <3>3. N + 1 = (IF i = 1 THEN 1 ELSE FinalOf(t[i - 1]) + 1)
      BY <1>1, <1>6, <2>2, <3>1
    <3>4. \A k \in 1..Len(new.text) :
            /\ new.text[k] = FirstOf(new) + k - 1
            /\ new.text[k] \in 1..Len(m)
            /\ m[new.text[k]].kind = new.kind
      BY <1>1, <1>2, <1>3, <1>5, <3>2
    <3>5. i > 1 /\ new.kind = "assistant" => t[i - 1].kind # "assistant"
      BY <1>1, <1>2, <2>2, <3>1
    <3>6. QED
      BY <1>3, <3>1, <3>2, <3>3, <3>4, <3>5
  <2>3. QED
    BY <1>1, <2>1, <2>2
<1>8. InOrder(t, m)
  <2>1. Len(m) = IF Len(t) = 0 THEN 0 ELSE FinalOf(t[Len(t)])
    BY <1>1, <1>3, <1>4, <1>5 DEF FinalOf
  <2>2. QED
    BY <1>4, <1>7, <2>1 DEF InOrder
<1>9. AllTold(t, m)
  <2> SUFFICES ASSUME NEW k \in 1..(N + 1)
               PROVE  \E i \in 1..(n + 1) : \E j \in 1..Len(t[i].text) : t[i].text[j] = k
    BY <1>4, <1>5 DEF AllTold
  <2>1. CASE k = N + 1
    <3>1. n + 1 \in 1..(n + 1) /\ 1 \in 1..Len(t[n + 1].text) /\ t[n + 1].text[1] = k
      BY <1>1, <1>3, <1>4, <2>1
    <3>2. QED
      BY <3>1
  <2>2. CASE k \in 1..N
    <3>1. PICK i \in 1..n : \E j \in 1..Len(turns[i].text) : turns[i].text[j] = k
      BY <2>2 DEF AllTold
    <3>2. i \in 1..(n + 1) /\ t[i] = turns[i]
      BY <1>1, <1>4
    <3>3. QED
      BY <3>1, <3>2
  <2>3. QED
    BY <1>1, <2>1, <2>2
<1>10. QED
  BY <1>4, <1>8, <1>9 DEF t, m, new

LEMMA TurnType ==
  ASSUME NEW turn \in TurnSet
  PROVE  turn.text \in Seq(Nat) /\ turn.kind \in Kinds
BY DEF TurnSet

LEMMA TurnUpdate ==
  ASSUME NEW turn \in TurnSet, NEW text \in Seq(Nat)
  PROVE  /\ [turn EXCEPT !.text = text] \in TurnSet
         /\ [turn EXCEPT !.text = text].kind = turn.kind
         /\ [turn EXCEPT !.text = text].text = text
<1> DEFINE texts == Seq(Nat)
<1>1. text \in texts /\ TurnSet = [kind : Kinds, text : texts]
  BY DEF TurnSet
<1> HIDE DEF texts
<1>2. /\ [turn EXCEPT !.text = text] \in TurnSet
      /\ [turn EXCEPT !.text = text].kind = turn.kind
      /\ [turn EXCEPT !.text = text].text = text
  BY <1>1
<1>3. QED
  BY <1>2 DEF texts

\* Another message in the last turn.
LEMMA JoinedInOrder ==
  ASSUME NEW turns \in Seq(TurnSet), NEW messages \in Seq([kind : Kinds, ts : Stamps]),
         InOrder(turns, messages), AllTold(turns, messages), NEW ts \in Stamps,
         turns # <<>>, turns[Len(turns)].kind = "assistant"
  PROVE  LET t == [turns EXCEPT ![Len(turns)].text = Append(@, Len(messages) + 1)]
             m == Append(messages, [kind |-> "assistant", ts |-> ts])
         IN  t \in Seq(TurnSet) /\ InOrder(t, m) /\ AllTold(t, m)
<1> DEFINE N == Len(messages)  n == Len(turns)
           text == turns[n].text
           new == [turns[n] EXCEPT !.text = Append(text, N + 1)]
           t == [turns EXCEPT ![n] = new]
           m == Append(messages, [kind |-> "assistant", ts |-> ts])
<1>1. N \in Nat /\ n \in Nat /\ N + 1 \in Nat /\ n > 0
  OBVIOUS
<1>2. turns[n] \in TurnSet /\ text \in Seq(Nat)
  <2>1. turns[n] \in TurnSet
    BY <1>1
  <2>2. QED
    BY <2>1, TurnType
<1>3. /\ new \in TurnSet /\ new.kind = "assistant" /\ new.text = Append(text, N + 1)
  <2>1. Append(text, N + 1) \in Seq(Nat)
    BY <1>1, <1>2
  <2>2. QED
    BY <1>2, <2>1, TurnUpdate
<1>4. t = [turns EXCEPT ![n].text = Append(@, N + 1)]
  OBVIOUS
<1>5. text # <<>> /\ FirstOf(turns[n]) = text[1] /\ text[Len(text)] = N
  BY <1>1 DEF InOrder, FirstOf, FinalOf
<1> DEFINE l == Len(text)
<1>6. l \in Nat /\ l > 0
  BY <1>2, <1>5
<1>7. /\ Len(new.text) = l + 1 /\ new.text[l + 1] = N + 1
      /\ \A k \in 1..l : new.text[k] = text[k]
      /\ new.text # <<>>
  BY <1>1, <1>2, <1>3
<1> HIDE DEF text, new, l
<1>8. /\ t \in Seq(TurnSet) /\ Len(t) = n /\ t[n] = new
      /\ \A i \in 1..(n - 1) : t[i] = turns[i]
  BY <1>1, <1>3
<1>9. /\ Len(m) = N + 1 /\ m[N + 1].kind = "assistant"
      /\ \A i \in 1..N : m[i] = messages[i]
  BY <1>1
<1> HIDE DEF t, m
<1>10. \A i \in 1..n :
         /\ turns[i].text # <<>>
         /\ FirstOf(turns[i]) = (IF i = 1 THEN 1 ELSE FinalOf(turns[i - 1]) + 1)
         /\ \A k \in 1..Len(turns[i].text) :
              /\ turns[i].text[k] = FirstOf(turns[i]) + k - 1
              /\ turns[i].text[k] \in 1..N
              /\ messages[turns[i].text[k]].kind = turns[i].kind
         /\ turns[i].kind = "user" => Len(turns[i].text) = 1
         /\ i > 1 /\ turns[i].kind = "assistant" => turns[i - 1].kind # "assistant"
  BY DEF InOrder
<1>11. \A k \in 1..N : k \in 1..Len(m) /\ m[k] = messages[k]
  BY <1>1, <1>9
<1>12. ASSUME NEW i \in 1..n
       PROVE  /\ t[i].text # <<>>
              /\ FirstOf(t[i]) = (IF i = 1 THEN 1 ELSE FinalOf(t[i - 1]) + 1)
              /\ \A k \in 1..Len(t[i].text) :
                   /\ t[i].text[k] = FirstOf(t[i]) + k - 1
                   /\ t[i].text[k] \in 1..Len(m)
                   /\ m[t[i].text[k]].kind = t[i].kind
              /\ t[i].kind = "user" => Len(t[i].text) = 1
              /\ i > 1 /\ t[i].kind = "assistant" => t[i - 1].kind # "assistant"
  <2>0. i > 1 => t[i - 1] = turns[i - 1]
    BY <1>1, <1>8
  <2>1. CASE i \in 1..(n - 1)
    <3>1. t[i] = turns[i]
      BY <1>8, <2>1
    <3>2. \A k \in 1..Len(turns[i].text) :
            /\ turns[i].text[k] \in 1..Len(m)
            /\ m[turns[i].text[k]].kind = turns[i].kind
      BY <1>10, <1>11
    <3>3. /\ turns[i].text # <<>>
          /\ FirstOf(turns[i]) = (IF i = 1 THEN 1 ELSE FinalOf(t[i - 1]) + 1)
          /\ \A k \in 1..Len(turns[i].text) : turns[i].text[k] = FirstOf(turns[i]) + k - 1
          /\ turns[i].kind = "user" => Len(turns[i].text) = 1
          /\ i > 1 /\ turns[i].kind = "assistant" => t[i - 1].kind # "assistant"
      BY <1>10, <2>0
    <3>4. QED
      BY <3>1, <3>2, <3>3
  <2>2. CASE i = n
    <3>1. t[i] = new
      BY <1>8, <2>2
    <3>2. FirstOf(new) = FirstOf(turns[n])
      BY <1>5, <1>6, <1>7 DEF FirstOf
    <3>3. FirstOf(new) = (IF i = 1 THEN 1 ELSE FinalOf(t[i - 1]) + 1)
      BY <1>1, <1>10, <2>0, <2>2, <3>2, SMTT(30)
    <3>9. \A k \in 1..l :
            /\ text[k] = FirstOf(turns[n]) + k - 1
            /\ text[k] \in 1..N
            /\ messages[text[k]].kind = turns[n].kind
      <4>1. \A k \in 1..Len(turns[n].text) :
              /\ turns[n].text[k] = FirstOf(turns[n]) + k - 1
              /\ turns[n].text[k] \in 1..N
              /\ messages[turns[n].text[k]].kind = turns[n].kind
        BY <1>10, <2>2
      <4>2. QED
        BY ONLY <4>1 DEF text, l
    <3>4. text[l] = FirstOf(turns[n]) + l - 1
      BY <1>6, <3>9, SMTT(30)
    <3>4a. FirstOf(turns[n]) \in Nat
      BY <1>2, <1>5, <1>6 DEF l
    <3>5. FirstOf(turns[n]) + (l + 1) - 1 = N + 1
      BY <1>1, <1>5, <1>6, <3>4, <3>4a DEF l
    <3>6. ASSUME NEW k \in 1..(l + 1)
          PROVE  /\ new.text[k] = FirstOf(new) + k - 1
                 /\ new.text[k] \in 1..Len(m)
                 /\ m[new.text[k]].kind = new.kind
      <4>1. CASE k = l + 1
        BY <1>1, <1>3, <1>7, <1>9, <3>2, <3>5, <4>1
      <4>2. CASE k \in 1..l
        <5>1. new.text[k] = text[k]
          BY <1>7, <4>2
        <5>2. /\ text[k] = FirstOf(turns[n]) + k - 1
              /\ text[k] \in 1..N
              /\ messages[text[k]].kind = turns[n].kind
          BY <3>9, <4>2
        <5>3. QED
          BY <1>3, <1>11, <3>2, <5>1, <5>2
      <4>3. QED
        BY <1>6, <4>1, <4>2
    <3>7. i > 1 => t[i - 1].kind # "assistant"
      BY <1>10, <2>0, <2>2
    <3>8. QED
      BY <1>3, <1>7, <3>1, <3>3, <3>6, <3>7
  <2>3. QED
    BY <1>1, <2>1, <2>2, SMTT(30)
<1>13. InOrder(t, m)
  <2>1. Len(m) = IF Len(t) = 0 THEN 0 ELSE FinalOf(t[Len(t)])
    BY <1>1, <1>7, <1>8, <1>9 DEF FinalOf
  <2>2. QED
    BY <1>8, <1>12, <2>1 DEF InOrder
<1>14. AllTold(t, m)
  <2> SUFFICES ASSUME NEW k \in 1..(N + 1)
               PROVE  \E i \in 1..n : \E j \in 1..Len(t[i].text) : t[i].text[j] = k
    BY <1>8, <1>9 DEF AllTold
  <2>1. CASE k = N + 1
    <3>1. n \in 1..n /\ l + 1 \in 1..Len(t[n].text) /\ t[n].text[l + 1] = k
      BY <1>1, <1>6, <1>7, <1>8, <2>1
    <3>2. QED
      BY <3>1
  <2>2. CASE k \in 1..N
    <3>0. PICK i \in 1..n : \E j \in 1..Len(turns[i].text) : turns[i].text[j] = k
      BY <2>2 DEF AllTold
    <3>1. PICK j \in 1..Len(turns[i].text) : turns[i].text[j] = k
      BY <3>0
    <3>2. CASE i = n
      <4>1. j \in 1..l /\ text[j] = k
        BY <3>1, <3>2 DEF text, l
      <4>2. j \in 1..(l + 1) /\ new.text[j] = k
        BY <1>6, <1>7, <4>1
      <4>3. QED
        BY <1>7, <1>8, <3>2, <4>2
    <3>3. CASE i # n
      <4>1. t[i] = turns[i]
        BY <1>1, <1>8, <3>3
      <4>2. QED
        BY <3>1, <4>1
    <3>4. QED
      BY <3>2, <3>3
  <2>3. QED
    BY <1>1, <2>1, <2>2
<1>15. QED
  BY <1>4, <1>8, <1>13, <1>14 DEF m

\* Either way the turns go on being all of the messages, in order.
LEMMA RecordedInOrder ==
  ASSUME NEW turns \in Seq(TurnSet), NEW messages \in Seq([kind : Kinds, ts : Stamps]),
         InOrder(turns, messages), AllTold(turns, messages),
         NEW kind \in Kinds, NEW ts \in Stamps
  PROVE  LET t == Recorded(turns, kind, Len(messages) + 1)
             m == Append(messages, [kind |-> kind, ts |-> ts])
         IN  t \in Seq(TurnSet) /\ InOrder(t, m) /\ AllTold(t, m)
BY OpenedInOrder, JoinedInOrder DEF Recorded

(***************************************************************************)
(* Between the calls at most one message is pending, of the assistant, and *)
(* the last line written before it is not the assistant's.                 *)
(***************************************************************************)

Speaking(s) ==
  /\ Len(s.pending) <= 1
  /\ s.pending # <<>> => s.pending[1].kind = "assistant"
  /\ s.spool # <<>> /\ (s.pending # <<>> \/ s.phase = "open") =>
       s.spool[Len(s.spool)].kind = "user"

LEMMA TurnsType ==
  ASSUME NEW s \in Sinks
  PROVE  /\ Turns(s) \in Seq(TurnSet)
         /\ Len(Turns(s)) = Len(s.spool) + Len(s.pending)
         /\ \A i \in 1..Len(s.spool) : Turns(s)[i] = Turn(s.spool[i])
         /\ \A i \in 1..Len(s.pending) : Turns(s)[Len(s.spool) + i] = Turn(s.pending[i])
<1> DEFINE a == Len(s.spool)  b == Len(s.pending)
<1>1. s.spool \in Seq(Lines) /\ s.pending \in Seq(Messages)
  BY DEF Sinks
<1>2. a \in Nat /\ b \in Nat
  BY <1>1
<1>3. \A l \in Lines : Turn(l) \in TurnSet
  BY DEF Lines, Turn, TurnSet
<1>4. \A m \in Messages : Turn(m) \in TurnSet
  BY DEF Messages, Turn, TurnSet
<1>5. /\ \A i \in 1..a : Turn(s.spool[i]) \in TurnSet
      /\ \A i \in 1..b : Turn(s.pending[i]) \in TurnSet
  BY <1>1, <1>3, <1>4
<1>6. Turns(s) = [i \in 1..(a + b) |-> IF i <= a THEN Turn(s.spool[i]) ELSE Turn(s.pending[i - a])]
  BY DEF Turns
<1> HIDE DEF a, b
<1>7. \A i \in 1..(a + b) : i <= a => i \in 1..a
  BY <1>2
<1>8. \A i \in 1..(a + b) : ~(i <= a) => i - a \in 1..b
  BY <1>2
<1>9. Turns(s) \in [1..(a + b) -> TurnSet] /\ a + b \in Nat
  BY <1>2, <1>5, <1>6, <1>7, <1>8
<1>10. Turns(s) \in Seq(TurnSet) /\ Len(Turns(s)) = a + b
  BY <1>9
<1>11. \A i \in 1..a : Turns(s)[i] = Turn(s.spool[i])
  BY <1>2, <1>6
<1>12. \A i \in 1..b : Turns(s)[a + i] = Turn(s.pending[i])
  <2> TAKE i \in 1..b
  <2>1. a + i \in 1..(a + b) /\ ~(a + i <= a) /\ (a + i) - a = i
    BY <1>2
  <2>2. QED
    BY <1>6, <2>1
<1>13. QED
  BY <1>10, <1>11, <1>12 DEF a, b

LEMMA OnlyPending ==
  ASSUME NEW q \in Seq(Messages), q # <<>>, Len(q) <= 1
  PROVE  Len(q) = 1 /\ q[1] \in Messages
<1>1. Len(q) \in Nat /\ Len(q) # 0
  OBVIOUS
<1>2. Len(q) = 1
  BY <1>1
<1>3. QED
  BY <1>2

\* A sequence of turns that is another with one turn more.
LEMMA OneTurnMore ==
  ASSUME NEW t \in Seq(TurnSet), NEW u \in Seq(TurnSet), Len(u) = Len(t) + 1,
         \A i \in 1..Len(t) : u[i] = t[i]
  PROVE  u = Append(t, u[Len(u)])
<1> DEFINE n == Len(t)  a == Append(t, u[Len(u)])
<1>1. n \in Nat /\ Len(u) = n + 1 /\ n + 1 \in 1..Len(u)
  OBVIOUS
<1>2. u[n + 1] \in TurnSet
  BY <1>1
<1>3. /\ a \in Seq(TurnSet) /\ Len(a) = n + 1 /\ a[n + 1] = u[n + 1]
      /\ \A i \in 1..n : a[i] = t[i]
  BY <1>1, <1>2
<1> HIDE DEF a
<1>4. \A i \in 1..(n + 1) : u[i] = a[i]
  <2> TAKE i \in 1..(n + 1)
  <2>1. i \in 1..n \/ i = n + 1
    BY <1>1
  <2>2. QED
    BY <1>3, <2>1
<1>5. u = a
  BY <1>1, <1>3, <1>4
<1>6. QED
  BY <1>5 DEF a

\* Two sequences of turns with the same entries are the same.
LEMMA SameTurns ==
  ASSUME NEW t \in Seq(TurnSet), NEW u \in Seq(TurnSet), Len(t) = Len(u),
         \A i \in 1..Len(t) : t[i] = u[i]
  PROVE  t = u
OBVIOUS

\* persist opens a turn when nothing is pending.
LEMMA PersistTurns ==
  ASSUME NEW s \in Sinks, NEW m \in Messages, s.pending = <<>>
  PROVE  Turns(Persist(s, m)) = Append(Turns(s), Turn(m))
<1> DEFINE p == Persist(s, m)  n == Len(s.spool)
<1>1. p \in Sinks
  BY PersistType
<1>2. p.spool = Append(s.spool, Line(s, m)) /\ p.pending = <<>>
  BY DEF Persist, Sinks
<1>3. Turn(Line(s, m)) = Turn(m) /\ Line(s, m) \in Lines /\ Turn(m) \in TurnSet
  <2>1. Line(s, m) \in Lines
    BY DEF Line, Lines, EventID, EventIDs, Truncated, Sinks, Messages
  <2>2. Turn(Line(s, m)) = Turn(m)
    BY DEF Turn, Line
  <2>3. Turn(m) \in TurnSet
    BY DEF Turn, TurnSet, Messages
  <2>4. QED
    BY <2>1, <2>2, <2>3
<1>4. s.spool \in Seq(Lines) /\ n \in Nat /\ Len(s.pending) = 0
  BY DEF Sinks
<1> HIDE DEF p
<1>5. /\ Len(p.spool) = n + 1 /\ p.spool[n + 1] = Line(s, m)
      /\ \A i \in 1..n : p.spool[i] = s.spool[i]
  BY <1>2, <1>3, <1>4
<1>6. /\ Turns(p) \in Seq(TurnSet) /\ Len(Turns(p)) = n + 1
      /\ \A i \in 1..(n + 1) : Turns(p)[i] = Turn(p.spool[i])
  <2>1. Len(p.pending) = 0
    BY <1>2
  <2>2. /\ Turns(p) \in Seq(TurnSet)
        /\ Len(Turns(p)) = Len(p.spool) + Len(p.pending)
        /\ \A i \in 1..Len(p.spool) : Turns(p)[i] = Turn(p.spool[i])
    BY <1>1, TurnsType
  <2>3. QED
    BY <1>4, <1>5, <2>1, <2>2
<1>7. /\ Turns(s) \in Seq(TurnSet) /\ Len(Turns(s)) = n
      /\ \A i \in 1..n : Turns(s)[i] = Turn(s.spool[i])
  <2>1. /\ Turns(s) \in Seq(TurnSet)
        /\ Len(Turns(s)) = n + Len(s.pending)
        /\ \A i \in 1..n : Turns(s)[i] = Turn(s.spool[i])
    BY TurnsType
  <2>2. QED
    BY <1>4, <2>1
<1>8. \A i \in 1..n : Turns(p)[i] = Turns(s)[i]
  BY <1>4, <1>5, <1>6, <1>7
<1>9. Turns(p)[n + 1] = Turn(m)
  BY <1>3, <1>4, <1>5, <1>6
<1>10. Turns(p) = Append(Turns(s), Turn(m))
  BY <1>6, <1>7, <1>8, <1>9, OneTurnMore
<1>11. QED
  BY <1>10 DEF p

\* flushAssistant moves the pending turn to the spool.
LEMMA FlushTurns ==
  ASSUME NEW s \in Sinks, Speaking(s)
  PROVE  Turns(FlushAssistant(s)) = Turns(s) /\ FlushAssistant(s).pending = <<>>
<1>1. CASE s.pending = <<>>
  BY <1>1 DEF FlushAssistant
<1>2. CASE s.pending # <<>>
  <2> DEFINE u == [s EXCEPT !.pending = <<>>]  m == s.pending[1]  n == Len(s.spool)
  <2>1. Len(s.pending) = 1 /\ m \in Messages /\ n \in Nat
    <3>1. s.pending \in Seq(Messages) /\ s.spool \in Seq(Lines)
      BY DEF Sinks
    <3>2. Len(s.pending) <= 1
      BY DEF Speaking
    <3>3. QED
      BY <1>2, <3>1, <3>2, OnlyPending
  <2>2. u \in Sinks
    <3>1. <<>> \in Seq(Messages)
      OBVIOUS
    <3>2. QED
      BY <3>1, SinkSmallUpdates
  <2>3. u.pending = <<>> /\ u.spool = s.spool
    BY DEF Sinks
  <2>4. FlushAssistant(s) = Persist(u, m)
    BY <1>2 DEF FlushAssistant
  <2>5. Persist(u, m).pending = <<>>
    BY <2>3 DEF Persist, Sinks
  <2> HIDE DEF u, m
  <2>6. Turns(Persist(u, m)) = Append(Turns(u), Turn(m))
    BY <2>1, <2>2, <2>3, PersistTurns
  <2>7. /\ Turns(u) \in Seq(TurnSet) /\ Len(Turns(u)) = n
        /\ \A i \in 1..n : Turns(u)[i] = Turn(s.spool[i])
    <3>1. /\ Turns(u) \in Seq(TurnSet) /\ Len(Turns(u)) = Len(u.spool) + Len(u.pending)
          /\ \A i \in 1..Len(u.spool) : Turns(u)[i] = Turn(u.spool[i])
      BY <2>2, TurnsType
    <3>2. Len(u.pending) = 0
      BY <2>3
    <3>3. QED
      BY <2>1, <2>3, <3>1, <3>2
  <2>8. /\ Turns(s) \in Seq(TurnSet) /\ Len(Turns(s)) = n + 1
        /\ \A i \in 1..n : Turns(s)[i] = Turn(s.spool[i])
        /\ Turns(s)[n + 1] = Turn(m)
    <3>1. /\ Turns(s) \in Seq(TurnSet) /\ Len(Turns(s)) = n + Len(s.pending)
          /\ \A i \in 1..n : Turns(s)[i] = Turn(s.spool[i])
          /\ \A i \in 1..Len(s.pending) : Turns(s)[n + i] = Turn(s.pending[i])
      BY TurnsType
    <3>2. QED
      BY <2>1, <3>1 DEF m
  <2>9. Turn(m) \in TurnSet
    BY <2>1 DEF Turn, TurnSet, Messages
  <2> HIDE DEF n
  <2>10. \A i \in 1..n : Turns(s)[i] = Turns(u)[i]
    BY <2>7, <2>8
  <2>11. Append(Turns(u), Turn(m)) = Turns(s)
    BY <2>7, <2>8, <2>10, OneTurnMore
  <2>12. QED
    BY <2>4, <2>5, <2>6, <2>11
<1>3. QED
  BY <1>1, <1>2

\* add is the one operation on turns, whatever is pending.
LEMMA AddMessageTurns ==
  ASSUME NEW s \in Sinks, Speaking(s), s.phase = "open",
         NEW m \in Messages, NEW o \in Nat, m.text = <<o>>
  PROVE  /\ Turns(AddMessage(s, m)) = Recorded(Turns(s), m.kind, o)
         /\ Speaking(AddMessage(s, m))
<1> DEFINE n == Len(s.spool)
<1>1. s.spool \in Seq(Lines) /\ s.pending \in Seq(Messages) /\ n \in Nat
  BY DEF Sinks
<1>2. /\ Turns(s) \in Seq(TurnSet) /\ Len(Turns(s)) = n + Len(s.pending)
      /\ \A i \in 1..n : Turns(s)[i] = Turn(s.spool[i])
      /\ \A i \in 1..Len(s.pending) : Turns(s)[n + i] = Turn(s.pending[i])
  BY TurnsType
<1>3. Turn(m) = [kind |-> m.kind, text |-> <<o>>]
  BY DEF Turn
<1>4. m.kind \in Kinds
  BY DEF Messages
<1>5. CASE m.kind # "assistant"
  <2> DEFINE u == FlushAssistant(s)
  <2>1. u \in Sinks /\ u.pending = <<>> /\ Turns(u) = Turns(s)
    BY FlushType, FlushTurns
  <2>2. AddMessage(s, m) = Persist(u, m)
    BY <1>5 DEF AddMessage
  <2> HIDE DEF u
  <2>3. Turns(Persist(u, m)) = Append(Turns(s), Turn(m))
    BY <2>1, PersistTurns
  <2>4. Recorded(Turns(s), m.kind, o) = Append(Turns(s), Turn(m))
    BY <1>3, <1>5 DEF Recorded
  <2>5. /\ Persist(u, m).pending = <<>>
        /\ Persist(u, m).spool = Append(u.spool, Line(u, m))
    BY <2>1 DEF Persist, Sinks
  <2>6. Persist(u, m).spool[Len(Persist(u, m).spool)] = Line(u, m)
    <3>1. u.spool \in Seq(Lines)
      BY <2>1 DEF Sinks
    <3>2. QED
      BY <2>5, <3>1
  <2>7. Line(u, m).kind = "user"
    BY <1>4, <1>5 DEF Line, Kinds
  <2>8. Speaking(Persist(u, m))
    BY <2>5, <2>6, <2>7 DEF Speaking
  <2>9. QED
    BY <2>2, <2>3, <2>4, <2>8
<1>6. CASE m.kind = "assistant" /\ s.pending = <<>>
  <2> DEFINE u == MergeAssistant(s, m)
  <2>1. AddMessage(s, m) = u
    BY <1>6 DEF AddMessage
  <2>2. u.pending = <<m>> /\ u.spool = s.spool
    BY <1>6 DEF MergeAssistant, Sinks
  <2>3. u \in Sinks
    BY <2>1, AddMessageType
  <2> HIDE DEF u
  <2>4. /\ Turns(u) \in Seq(TurnSet) /\ Len(Turns(u)) = n + 1
        /\ \A i \in 1..n : Turns(u)[i] = Turn(s.spool[i])
        /\ Turns(u)[n + 1] = Turn(m)
    <3>1. /\ Turns(u) \in Seq(TurnSet) /\ Len(Turns(u)) = n + Len(u.pending)
          /\ \A i \in 1..n : Turns(u)[i] = Turn(s.spool[i])
          /\ \A i \in 1..Len(u.pending) : Turns(u)[n + i] = Turn(u.pending[i])
      BY <2>2, <2>3, TurnsType
    <3>2. Len(u.pending) = 1 /\ u.pending[1] = m
      BY <2>2
    <3>3. QED
      BY <3>1, <3>2
  <2>5. Len(Turns(s)) = n /\ Turn(m) \in TurnSet
    <3>1. Len(s.pending) = 0
      BY <1>6
    <3>2. Turn(m) \in TurnSet
      BY DEF Turn, TurnSet, Messages
    <3>3. QED
      BY <1>1, <1>2, <3>1, <3>2
  <2>6. Turns(u) = Append(Turns(s), Turn(m))
    <3>1. \A i \in 1..n : Turns(u)[i] = Turns(s)[i]
      BY <1>2, <2>4
    <3>2. Turns(s) \in Seq(TurnSet)
      BY <1>2
    <3>3. QED
      BY <2>4, <2>5, <3>1, <3>2, OneTurnMore
  <2>7. Turns(s) # <<>> => Turns(s)[Len(Turns(s))].kind = "user"
    <3>1. SUFFICES ASSUME Turns(s) # <<>> PROVE Turns(s)[n].kind = "user"
      BY <2>5
    <3>2. n > 0 /\ s.spool # <<>> /\ n \in 1..n
      <4>1. n # 0
        BY <1>2, <2>5, <3>1
      <4>2. QED
        BY <1>1, <4>1
    <3>3. s.spool[n].kind = "user"
      BY <3>2 DEF Speaking
    <3>4. Turns(s)[n] = Turn(s.spool[n])
      BY <1>2, <3>2
    <3>5. QED
      BY <3>3, <3>4 DEF Turn
  <2>8. Recorded(Turns(s), m.kind, o) = Append(Turns(s), Turn(m))
    BY <1>3, <2>7 DEF Recorded
  <2>9. Speaking(u)
    BY <1>6, <2>2 DEF Speaking
  <2>10. QED
    BY <2>1, <2>6, <2>8, <2>9
<1>7. CASE m.kind = "assistant" /\ s.pending # <<>>
  <2> DEFINE u == MergeAssistant(s, m)  p == s.pending[1]
  <2>1. AddMessage(s, m) = u
    BY <1>7 DEF AddMessage
  <2>2. u.pending = <<Joined(p, m)>> /\ u.spool = s.spool
    BY <1>7 DEF MergeAssistant, Sinks
  <2>3. u \in Sinks
    BY <2>1, AddMessageType
  <2>4. Len(s.pending) = 1 /\ p \in Messages /\ p.kind = "assistant"
    <3>1. Len(s.pending) <= 1 /\ p.kind = "assistant"
      BY <1>7 DEF Speaking
    <3>2. QED
      BY <1>1, <1>7, <3>1, OnlyPending
  <2> HIDE DEF u, p
  <2>5. Joined(p, m).kind = "assistant" /\ Joined(p, m).text = Append(p.text, o)
    <3>1. p.text \in Seq(Nat)
      BY <2>4 DEF Messages
    <3>2. p.text \o <<o>> = Append(p.text, o)
      BY <3>1
    <3>3. QED
      BY <2>4, <3>2 DEF Joined, Messages
  <2>6. /\ Turns(u) \in Seq(TurnSet) /\ Len(Turns(u)) = n + 1
        /\ \A i \in 1..n : Turns(u)[i] = Turn(s.spool[i])
        /\ Turns(u)[n + 1] = Turn(Joined(p, m))
    <3>1. /\ Turns(u) \in Seq(TurnSet) /\ Len(Turns(u)) = n + Len(u.pending)
          /\ \A i \in 1..n : Turns(u)[i] = Turn(s.spool[i])
          /\ \A i \in 1..Len(u.pending) : Turns(u)[n + i] = Turn(u.pending[i])
      BY <2>2, <2>3, TurnsType
    <3>2. Len(u.pending) = 1 /\ u.pending[1] = Joined(p, m)
      BY <2>2
    <3>3. QED
      BY <3>1, <3>2
  <2>7. /\ Len(Turns(s)) = n + 1 /\ Turns(s)[n + 1] = Turn(p)
        /\ Turns(s)[n + 1].kind = "assistant" /\ Turns(s) # <<>>
    BY <1>1, <1>2, <2>4 DEF Turn, p
  <2>8. Turn(Joined(p, m)) = [Turn(p) EXCEPT !.text = Append(@, o)]
    <3>1. \A k, a, b : [[kind |-> k, text |-> a] EXCEPT !.text = Append(@, b)]
                       = [kind |-> k, text |-> Append(a, b)]
      OBVIOUS
    <3>2. Turn(p) = [kind |-> p.kind, text |-> p.text]
      BY DEF Turn
    <3>3. [Turn(p) EXCEPT !.text = Append(@, o)] = [kind |-> p.kind, text |-> Append(p.text, o)]
      BY <3>1, <3>2, SMTT(30)
    <3>4. QED
      BY <2>4, <2>5, <3>3 DEF Turn
  <2>9. Recorded(Turns(s), m.kind, o) = [Turns(s) EXCEPT ![n + 1].text = Append(@, o)]
    BY <1>7, <2>7 DEF Recorded
  <2> DEFINE r == [Turns(s) EXCEPT ![n + 1] = Turn(Joined(p, m))]
  <2>10. [Turns(s) EXCEPT ![n + 1].text = Append(@, o)] = r
    BY <2>7, <2>8
  <2>11. Turn(Joined(p, m)) \in TurnSet
    <3>1. Joined(p, m) \in Messages
      BY <2>4, JoinedType
    <3>2. QED
      BY <3>1 DEF Turn, TurnSet, Messages
  <2>12. r \in Seq(TurnSet) /\ Len(r) = n + 1 /\ \A i \in 1..(n + 1) : Turns(u)[i] = r[i]
    <3>1. n + 1 \in 1..(n + 1) /\ n \in Nat /\ Turns(s) \in Seq(TurnSet)
      BY <1>1, <1>2
    <3>2. r \in Seq(TurnSet) /\ Len(r) = n + 1
      BY <2>7, <2>11, <3>1
    <3>3. r[n + 1] = Turn(Joined(p, m)) /\ \A i \in 1..n : r[i] = Turns(s)[i]
      BY <2>7, <3>1
    <3>4. \A i \in 1..n : Turns(u)[i] = r[i]
      BY <1>2, <2>6, <3>3
    <3>5. \A i \in 1..(n + 1) : i \in 1..n \/ i = n + 1
      BY <3>1
    <3>6. QED
      BY <2>6, <3>2, <3>3, <3>4, <3>5
  <2>13. Turns(u) = r
    BY <2>6, <2>12, SameTurns
  <2>14. Speaking(u)
    BY <1>7, <2>2, <2>5 DEF Speaking
  <2>15. QED
    BY <2>1, <2>9, <2>10, <2>13, <2>14
<1>8. QED
  BY <1>5, <1>6, <1>7

LEMMA PhaseFrame ==
  ASSUME NEW s \in Sinks, NEW ph
  PROVE  LET t == [s EXCEPT !.phase = ph]
         IN  /\ t.phase = ph /\ t.spool = s.spool /\ t.pending = s.pending
             /\ t.indexes = s.indexes /\ t.matched = s.matched
             /\ t.startedAt = s.startedAt /\ t.updatedAt = s.updatedAt
             /\ Turns(t) = Turns(s)
             /\ Speaking(s) /\ ph # "open" => Speaking(t)
<1> DEFINE t == [s EXCEPT !.phase = ph]
<1>1. /\ t.phase = ph /\ t.spool = s.spool /\ t.pending = s.pending
      /\ t.indexes = s.indexes /\ t.matched = s.matched
      /\ t.startedAt = s.startedAt /\ t.updatedAt = s.updatedAt
  BY DEF Sinks
<1> HIDE DEF t
<1>2. Turns(t) = Turns(s)
  BY <1>1 DEF Turns
<1>3. Speaking(s) /\ ph # "open" => Speaking(t)
  BY <1>1 DEF Speaking
<1>4. QED
  BY <1>1, <1>2, <1>3 DEF t

(***************************************************************************)
(* The turns written and pending are the messages kept.  That no two turns *)
(* of the assistant meet is inductive only with Speaking: what the next    *)
(* message joins depends on the last line written as much as on what is    *)
(* pending.                                                                *)
(***************************************************************************)

Recording ==
  /\ Speaking(sink)
  /\ InOrder(Turns(sink), kept) /\ AllTold(Turns(sink), kept)
  /\ Len(kept) <= read

LEMMA InitRecording == Init => Recording
<1> SUFFICES ASSUME Init PROVE Recording
  OBVIOUS
<1>1. sink.pending = <<>> /\ sink.spool = <<>> /\ kept = <<>> /\ read = 0
  BY DEF Init, NewSessionSink
<1>2. sink \in Sinks
  BY InitType DEF TypeOK
<1>3. Turns(sink) \in Seq(TurnSet) /\ Len(Turns(sink)) = 0
  <2>1. Turns(sink) \in Seq(TurnSet) /\ Len(Turns(sink)) = Len(sink.spool) + Len(sink.pending)
    BY <1>2, TurnsType
  <2>2. Len(sink.spool) = 0 /\ Len(sink.pending) = 0
    BY <1>1
  <2>3. QED
    BY <2>1, <2>2
<1>4. Speaking(sink)
  BY <1>1 DEF Speaking
<1>5. InOrder(Turns(sink), kept)
  BY <1>1, <1>3 DEF InOrder
<1>6. AllTold(Turns(sink), kept)
  BY <1>1 DEF AllTold
<1>7. QED
  BY <1>1, <1>4, <1>5, <1>6 DEF Recording

\* One kept message is one message recorded.
LEMMA AddRecords ==
  ASSUME TypeOK, Recording, sink.phase = "open",
         NEW kind \in Kinds, NEW id \in NativeIDs \cup {NoID}, NEW ts \in Stamps,
         sink' = AddMessage(sink, Message(kind, id, read + 1, ts, Len(kept) + 1)),
         kept' = Append(kept, [kind |-> kind, ts |-> ts])
  PROVE  /\ Turns(sink') = Recorded(Turns(sink), kind, Len(kept) + 1)
         /\ Speaking(sink')
         /\ InOrder(Turns(sink'), kept') /\ AllTold(Turns(sink'), kept')
         /\ Len(kept') = Len(kept) + 1
<1> DEFINE m == Message(kind, id, read + 1, ts, Len(kept) + 1)
<1>1. sink \in Sinks /\ kept \in Seq([kind : Kinds, ts : Stamps]) /\ read \in Nat
  BY DEF TypeOK
<1>2. read + 1 \in Nat /\ Len(kept) + 1 \in Nat
  BY <1>1
<1>3. m \in Messages
  BY <1>2, MessageType
<1>4. m.kind = kind /\ m.text = <<Len(kept) + 1>>
  BY DEF Message
<1> HIDE DEF m
<1>5. sink' = AddMessage(sink, m)
  BY DEF m
<1>6. /\ Turns(sink') = Recorded(Turns(sink), kind, Len(kept) + 1)
      /\ Speaking(sink')
  BY <1>1, <1>2, <1>3, <1>4, <1>5, AddMessageTurns DEF Recording
<1>7. Turns(sink) \in Seq(TurnSet)
  BY <1>1, TurnsType
<1>8. InOrder(Turns(sink'), kept') /\ AllTold(Turns(sink'), kept')
  BY <1>1, <1>6, <1>7, RecordedInOrder DEF Recording
<1>9. Len(kept') = Len(kept) + 1
  BY <1>1
<1>10. QED
  BY <1>6, <1>8, <1>9

LEMMA AbortTurns ==
  ASSUME TypeOK, AbortSink
  PROVE  Turns(sink') = Turns(sink) /\ (Speaking(sink) => Speaking(sink'))
BY PhaseFrame DEF AbortSink, TypeOK

\* What is pending at the end is written like any other turn.
LEMMA FinalizeTurns ==
  ASSUME TypeOK, Recording, Finalize
  PROVE  Turns(sink') = Turns(sink) /\ Speaking(sink') /\ sink'.pending = <<>>
<1> DEFINE u == FlushAssistant(sink)
<1>1. sink \in Sinks /\ Speaking(sink)
  BY DEF TypeOK, Recording
<1>2. u \in Sinks /\ u.pending = <<>> /\ Turns(u) = Turns(sink)
  BY <1>1, FlushType, FlushTurns
<1>3. sink' = [u EXCEPT !.phase = "closed"]
  BY DEF Finalize
<1> HIDE DEF u
<1>4. Turns(sink') = Turns(u) /\ sink'.pending = <<>> /\ sink'.phase = "closed"
  BY <1>2, <1>3, PhaseFrame
<1>5. Speaking(sink')
  BY <1>4 DEF Speaking
<1>6. QED
  BY <1>2, <1>4, <1>5

LEMMA NextRecording == TypeOK /\ Recording /\ [Next]_vars => Recording'
<1> SUFFICES ASSUME TypeOK, Recording, [Next]_vars PROVE Recording'
  OBVIOUS
<1>0. kept \in Seq([kind : Kinds, ts : Stamps]) /\ read \in Nat /\ Len(kept) \in Nat
  BY DEF TypeOK
<1>1. CASE Add
  <2>1. CASE UNCHANGED <<sink, kept>>
    <3>1. read' = read + 1
      BY <1>1 DEF Add
    <3>2. QED
      BY <1>0, <2>1, <3>1 DEF Recording
  <2>2. ASSUME NEW kind \in Kinds, NEW id \in NativeIDs \cup {NoID}, NEW ts \in Stamps,
               sink' = AddMessage(sink, Message(kind, id, read + 1, ts, Len(kept) + 1)),
               kept' = Append(kept, [kind |-> kind, ts |-> ts])
        PROVE  Recording'
    <3>1. sink.phase = "open" /\ read' = read + 1
      BY <1>1 DEF Add
    <3>2. /\ Speaking(sink')
          /\ InOrder(Turns(sink'), kept') /\ AllTold(Turns(sink'), kept')
          /\ Len(kept') = Len(kept) + 1
      BY <2>2, <3>1, AddRecords
    <3>3. Len(kept') <= read'
      BY <1>0, <3>1, <3>2 DEF Recording
    <3>4. QED
      BY <3>2, <3>3 DEF Recording
  <2>3. QED
    BY <1>1, <2>1, <2>2 DEF Add
<1>2. CASE AddFails \/ Abort \/ FinalizeFails
  <2>1. Turns(sink') = Turns(sink) /\ Speaking(sink')
    BY <1>2, AbortTurns DEF AddFails, Abort, FinalizeFails, Recording
  <2>2. kept' = kept /\ read' \in {read, read + 1}
    BY <1>2 DEF AddFails, Abort, FinalizeFails
  <2>3. QED
    BY <1>0, <2>1, <2>2 DEF Recording
<1>3. CASE Finalize
  <2>1. Turns(sink') = Turns(sink) /\ Speaking(sink')
    BY <1>3, FinalizeTurns
  <2>2. kept' = kept /\ read' = read
    BY <1>3 DEF Finalize
  <2>3. QED
    BY <2>1, <2>2 DEF Recording
<1>4. CASE UNCHANGED <<sink, kept, read>>
  BY <1>4 DEF Recording
<1>5. QED
  BY <1>1, <1>2, <1>3, <1>4
  DEF Next, vars, BeginReplay, ReplayNext, ReplayDone, ReplayFails, Close, Cancel

\* However the messages of user and assistant alternate, and whenever the sink
\* is flushed, finalized or aborted, the turns are the messages kept, in order
\* and without loss.
THEOREM MessagesStayInOrder == Spec => []KeptInOrder
<1>1. Init /\ [][Next]_vars => [](TypeOK /\ Recording)
  BY InitType, NextType, InitRecording, NextRecording, PTL
<1>2. Recording => KeptInOrder
  BY DEF Recording, KeptInOrder, Speaking
<1>3. QED
  BY <1>1, <1>2, PTL DEF Spec

(***************************************************************************)
(* The span of the session and its match, kept from line to line, are what *)
(* a look at all lines would give.                                         *)
(***************************************************************************)

Stamped(s) == {s.spool[i].ts : i \in 1..Len(s.spool)} \ {NoTime}

Summed(s) ==
  /\ IF Stamped(s) = {} THEN s.startedAt = NoTime /\ s.updatedAt = NoTime
     ELSE /\ s.startedAt \in Stamped(s) /\ s.updatedAt \in Stamped(s)
          /\ \A t \in Stamped(s) : s.startedAt <= t /\ t <= s.updatedAt
  /\ s.matched <=> \E i \in 1..Len(s.spool) : InRange(s.spool[i].ts)

LEMMA PersistSummed ==
  ASSUME NEW s \in Sinks, NEW m \in Messages, Summed(s)
  PROVE  Summed(Persist(s, m))
<1> DEFINE p == Persist(s, m)  n == Len(s.spool)
<1>1. /\ p.spool = Append(s.spool, Line(s, m))
      /\ p.startedAt = Earlier(s.startedAt, m.ts)
      /\ p.updatedAt = Later(s.updatedAt, m.ts)
      /\ p.matched = (s.matched \/ InRange(m.ts))
  BY DEF Persist, Sinks
<1>2. s.spool \in Seq(Lines) /\ n \in Nat /\ Line(s, m).ts = m.ts
  BY DEF Sinks, Line
<1> HIDE DEF p
<1>3. /\ Len(p.spool) = n + 1 /\ p.spool[n + 1].ts = m.ts
      /\ \A i \in 1..n : p.spool[i] = s.spool[i]
  BY <1>1, <1>2
<1>4. \A i \in 1..(n + 1) : i \in 1..n \/ i = n + 1
  BY <1>2
<1>5. \A i \in 1..n : i \in 1..(n + 1)
  BY <1>2
<1>6. n + 1 \in 1..(n + 1)
  BY <1>2
<1>7. Stamped(p) = Stamped(s) \cup ({m.ts} \ {NoTime})
  BY <1>3, <1>4, <1>5, <1>6 DEF Stamped
<1>8. (\E i \in 1..Len(p.spool) : InRange(p.spool[i].ts)) <=>
        (\E i \in 1..n : InRange(s.spool[i].ts)) \/ InRange(m.ts)
  BY <1>3, <1>4, <1>5, <1>6
<1>9. m.ts \in Nat /\ Stamped(s) \subseteq Nat
  <2>1. Stamps \subseteq Nat /\ m.ts \in Stamps
    BY SinkAssumption DEF Stamps, NoTime, Messages
  <2>2. \A l \in Lines : l.ts \in Stamps
    BY DEF Lines
  <2>3. \A i \in 1..n : s.spool[i].ts \in Stamps
    BY <1>2, <2>2
  <2>4. QED
    BY <2>1, <2>3 DEF Stamped
<1>10. NoTime \notin Stamped(s)
  BY DEF Stamped
<1>11. IF Stamped(p) = {} THEN p.startedAt = NoTime /\ p.updatedAt = NoTime
       ELSE /\ p.startedAt \in Stamped(p) /\ p.updatedAt \in Stamped(p)
            /\ \A t \in Stamped(p) : p.startedAt <= t /\ t <= p.updatedAt
  <2>1. CASE m.ts = NoTime
    BY <1>1, <1>7, <2>1 DEF Summed, Earlier, Later
  <2>2. CASE m.ts # NoTime /\ Stamped(s) = {}
    <3>1. p.startedAt = m.ts /\ p.updatedAt = m.ts
      BY <1>1, <2>2 DEF Summed, Earlier, Later
    <3>2. Stamped(p) = {m.ts}
      BY <1>7, <2>2
    <3>3. QED
      BY <1>9, <3>1, <3>2
  <2>3. CASE m.ts # NoTime /\ Stamped(s) # {}
    <3>1. /\ s.startedAt \in Stamped(s) /\ s.updatedAt \in Stamped(s)
          /\ \A t \in Stamped(s) : s.startedAt <= t /\ t <= s.updatedAt
      BY <2>3 DEF Summed
    <3>2. Stamped(p) = Stamped(s) \cup {m.ts}
      BY <1>7, <2>3
    <3>3. p.startedAt = (IF m.ts < s.startedAt THEN m.ts ELSE s.startedAt)
      BY <1>1, <1>10, <2>3, <3>1 DEF Earlier
    <3>4. p.updatedAt = (IF m.ts > s.updatedAt THEN m.ts ELSE s.updatedAt)
      BY <1>1, <1>10, <2>3, <3>1 DEF Later
    <3>5. p.startedAt \in Stamped(p) /\ p.updatedAt \in Stamped(p)
      BY <3>1, <3>2, <3>3, <3>4
    <3>6. p.startedAt <= m.ts /\ m.ts <= p.updatedAt
      BY <1>9, <3>1, <3>3, <3>4
    <3>7. \A t \in Stamped(s) : p.startedAt <= t /\ t <= p.updatedAt
      <4> TAKE t \in Stamped(s)
      <4>1. s.startedAt <= t /\ t <= s.updatedAt
        BY <3>1
      <4>2. t \in Nat /\ s.startedAt \in Nat /\ s.updatedAt \in Nat
        BY <1>9, <3>1
      <4>3. QED
        BY <1>9, <3>3, <3>4, <4>1, <4>2
    <3>8. QED
      BY <3>2, <3>5, <3>6, <3>7
  <2>4. QED
    BY <2>1, <2>2, <2>3
<1>12. Summed(p)
  BY <1>1, <1>8, <1>11 DEF Summed
<1>13. QED
  BY <1>12 DEF p

\* It depends on what is written alone.
LEMMA SummedFrame ==
  ASSUME NEW s, NEW t, Summed(s), t.spool = s.spool, t.matched = s.matched,
         t.startedAt = s.startedAt, t.updatedAt = s.updatedAt
  PROVE  Summed(t)
BY DEF Summed, Stamped

LEMMA FlushSummed ==
  ASSUME NEW s \in Sinks, Summed(s)
  PROVE  Summed(FlushAssistant(s))
<1>1. CASE s.pending = <<>>
  BY <1>1 DEF FlushAssistant
<1>2. CASE s.pending # <<>>
  <2> DEFINE u == [s EXCEPT !.pending = <<>>]
  <2>1. s.pending[1] \in Messages
    BY <1>2 DEF Sinks
  <2>2. u \in Sinks
    <3>1. <<>> \in Seq(Messages)
      OBVIOUS
    <3>2. QED
      BY <3>1, SinkSmallUpdates
  <2>3. /\ u.spool = s.spool /\ u.matched = s.matched
        /\ u.startedAt = s.startedAt /\ u.updatedAt = s.updatedAt
    BY DEF Sinks
  <2>4. FlushAssistant(s) = Persist(u, s.pending[1])
    BY <1>2 DEF FlushAssistant
  <2> HIDE DEF u
  <2>5. Summed(u)
    BY <2>3, SummedFrame
  <2>6. QED
    BY <2>1, <2>2, <2>4, <2>5, PersistSummed
<1>3. QED
  BY <1>1, <1>2

LEMMA AddMessageSummed ==
  ASSUME NEW s \in Sinks, NEW m \in Messages, Summed(s)
  PROVE  Summed(AddMessage(s, m))
<1> DEFINE u == MergeAssistant(s, m)
<1>1. /\ u.spool = s.spool /\ u.matched = s.matched
      /\ u.startedAt = s.startedAt /\ u.updatedAt = s.updatedAt
  BY DEF MergeAssistant, Sinks
<1> HIDE DEF u
<1>2. Summed(u)
  BY <1>1, SummedFrame
<1>3. Summed(Persist(FlushAssistant(s), m))
  BY FlushType, FlushSummed, PersistSummed
<1>4. QED
  BY <1>2, <1>3 DEF AddMessage, u

LEMMA InitSummed == Init => Summed(sink)
<1> SUFFICES ASSUME Init PROVE Summed(sink)
  OBVIOUS
<1>1. /\ sink.spool = <<>> /\ sink.startedAt = NoTime /\ sink.updatedAt = NoTime
      /\ sink.matched = FALSE
  BY DEF Init, NewSessionSink
<1>2. Stamped(sink) = {} /\ ~\E i \in 1..Len(sink.spool) : InRange(sink.spool[i].ts)
  BY <1>1 DEF Stamped
<1>3. QED
  BY <1>1, <1>2 DEF Summed

LEMMA NextSummed == TypeOK /\ Summed(sink) /\ [Next]_vars => Summed(sink)'
<1> SUFFICES ASSUME TypeOK, Summed(sink), [Next]_vars PROVE Summed(sink')
  BY DEF Summed, Stamped
<1>0. sink \in Sinks
  BY DEF TypeOK
<1>1. ASSUME NEW s \in Sinks, NEW ph, Summed(s), sink' = [s EXCEPT !.phase = ph]
      PROVE  Summed(sink')
  <2>1. /\ sink'.spool = s.spool /\ sink'.matched = s.matched
        /\ sink'.startedAt = s.startedAt /\ sink'.updatedAt = s.updatedAt
    BY <1>1, PhaseFrame
  <2>2. QED
    BY <1>1, <2>1, SummedFrame
<1>2. CASE Add
  <2>1. CASE UNCHANGED <<sink, kept>>
    BY <2>1
  <2>2. ASSUME NEW kind \in Kinds, NEW id \in NativeIDs \cup {NoID}, NEW ts \in Stamps,
               sink' = AddMessage(sink, Message(kind, id, read + 1, ts, Len(kept) + 1))
        PROVE  Summed(sink')
    <3>1. read + 1 \in Nat /\ Len(kept) + 1 \in Nat
      BY DEF TypeOK
    <3>2. Message(kind, id, read + 1, ts, Len(kept) + 1) \in Messages
      BY <3>1, MessageType
    <3>3. QED
      BY <1>0, <2>2, <3>2, AddMessageSummed
  <2>3. QED
    BY <1>2, <2>1, <2>2 DEF Add
<1>3. CASE AddFails \/ Abort \/ FinalizeFails
  BY <1>0, <1>1, <1>3 DEF AddFails, Abort, FinalizeFails, AbortSink
<1>4. CASE Finalize
  BY <1>0, <1>1, <1>4, FlushType, FlushSummed DEF Finalize
<1>5. CASE UNCHANGED sink
  BY <1>5
<1>6. QED
  BY <1>2, <1>3, <1>4, <1>5
  DEF Next, vars, BeginReplay, ReplayNext, ReplayDone, ReplayFails, Close, Cancel

\* The span of a session is that of its lines, in whatever order the harness
\* stamped them and whichever have no timestamp.
THEOREM SpanIsOfSpool == Spec => []SpanOfSpool
<1>1. Init /\ [][Next]_vars => [](TypeOK /\ Summed(sink))
  BY InitType, NextType, InitSummed, NextSummed, PTL
<1>2. Summed(sink) => SpanOfSpool
  BY DEF Summed, Stamped, SpanOfSpool
<1>3. QED
  BY <1>1, <1>2, PTL DEF Spec

(***************************************************************************)
(* Finalize's decision stands: the finalized session goes on to say what   *)
(* the index says.                                                         *)
(***************************************************************************)

Decided ==
  result.phase # "none" =>
    /\ result.included = Matched(sink)
    /\ result.selected = Selection(sink, result.included)
    /\ result.events = CountSelected(sink.indexes, result.selected, Kinds)
    /\ result.users = CountSelected(sink.indexes, result.selected, {"user"})
    /\ result.assistants = CountSelected(sink.indexes, result.selected, {"assistant"})
    /\ result.status = "complete" => ~SelectedTruncations(sink.indexes, result.selected)

\* Where the session is in its life: the spool exists until the sink aborts or
\* the finalized session closes, and a replay runs only in between.
Lifetimes ==
  /\ sink.phase = "open" => onDisk /\ result.phase = "none"
  /\ result.phase = "ready" => onDisk
  /\ replay.phase = "running" => result.phase = "ready"
  /\ replay.phase = "failed" => result.phase = "closed"

LEMMA AddMessagePhase ==
  ASSUME NEW s \in Sinks, NEW m \in Messages
  PROVE  AddMessage(s, m).phase = s.phase
<1>1. FlushAssistant(s).phase = s.phase
  BY DEF FlushAssistant, Persist, Sinks
<1>2. Persist(FlushAssistant(s), m).phase = FlushAssistant(s).phase
  BY FlushType DEF Persist, Sinks
<1>3. MergeAssistant(s, m).phase = s.phase
  BY DEF MergeAssistant, Sinks
<1>4. QED
  BY <1>1, <1>2, <1>3 DEF AddMessage

LEMMA NextLifetimes == TypeOK /\ SpoolAligned /\ Lifetimes /\ [Next]_vars => Lifetimes'
<1> SUFFICES ASSUME TypeOK, SpoolAligned, Lifetimes, [Next]_vars PROVE Lifetimes'
  OBVIOUS
<1>0. sink \in Sinks /\ result \in Results /\ replay \in Replays
  BY DEF TypeOK
<1>1. CASE Add
  BY <1>1 DEF Add, Lifetimes
<1>2. CASE AddFails \/ Abort \/ FinalizeFails
  <2>1. sink'.phase = "aborted"
    <3>1. AbortSink
      BY <1>2 DEF AddFails, Abort, FinalizeFails
    <3>2. QED
      BY <1>0, <3>1 DEF AbortSink, Sinks
  <2>2. UNCHANGED <<result, replay>> /\ sink.phase = "open"
    BY <1>2 DEF AddFails, Abort, FinalizeFails
  <2>3. QED
    BY <2>1, <2>2 DEF Lifetimes
<1>3. CASE Finalize
  <2>1. sink'.phase = "closed"
    BY <1>0, <1>3, FlushType, PhaseFrame DEF Finalize
  <2>2. result'.phase = "ready"
    BY <1>3 DEF Finalize, Finished
  <2>3. UNCHANGED <<onDisk, replay>> /\ sink.phase = "open"
    BY <1>3 DEF Finalize
  <2>4. QED
    BY <2>1, <2>2, <2>3 DEF Lifetimes
<1>4. CASE BeginReplay
  BY <1>4 DEF BeginReplay, Lifetimes
<1>5. CASE ReplayNext
  BY <1>0, <1>5 DEF ReplayNext, Lifetimes, Replays
<1>6. CASE ReplayDone
  BY <1>0, <1>6 DEF ReplayDone, Lifetimes, Replays
<1>7. CASE ReplayFails
  <2>1. result'.phase = "closed" /\ replay'.phase = "failed" /\ sink' = sink
    BY <1>0, <1>7 DEF ReplayFails, CloseResult, Results, Replays
  <2>2. sink.phase = "closed"
    BY <1>7 DEF ReplayFails, SpoolAligned, Lifetimes
  <2>3. QED
    BY <2>1, <2>2 DEF Lifetimes
<1>8. CASE Close
  <2>1. result'.phase = "closed" /\ UNCHANGED <<sink, replay>> /\ replay.phase # "running"
    BY <1>0, <1>8 DEF Close, CloseResult, Results
  <2>2. sink.phase = "closed"
    BY <1>8 DEF Close, SpoolAligned
  <2>3. QED
    BY <2>1, <2>2 DEF Lifetimes
<1>9. CASE UNCHANGED <<sink, onDisk, result, replay>>
  BY <1>9 DEF Lifetimes
<1>10. QED
  BY <1>1, <1>2, <1>3, <1>4, <1>5, <1>6, <1>7, <1>8, <1>9 DEF Next, vars, Cancel

LEMMA InitLifetimes == Init => Lifetimes
BY DEF Init, Lifetimes, NewSessionSink, NoResult, NoReplay

\* Finalize decides by the index and the match alone.
LEMMA FinalizeDecides ==
  ASSUME TypeOK, Finalize
  PROVE  Decided'
<1> DEFINE u == FlushAssistant(sink)
<1>1. u \in Sinks
  BY FlushType DEF TypeOK
<1>2. sink' = [u EXCEPT !.phase = "closed"] /\ options' = options
  BY DEF Finalize
<1>3. PICK partial \in BOOLEAN : result' = Finished(u, partial)
  BY DEF Finalize
<1> HIDE DEF u
<1>4. sink'.indexes = u.indexes /\ sink'.matched = u.matched
  BY <1>1, <1>2, PhaseFrame
<1>5. Matched(sink)' = Matched(u)
  BY <1>2, <1>4 DEF Matched
<1>6. \A matched : Selection(sink, matched)' = Selection(u, matched)
  BY <1>2, <1>4 DEF Selection
<1> DEFINE selected == Selection(u, Matched(u))
<1>7. /\ result'.included = Matched(u) /\ result'.selected = selected
      /\ result'.events = CountSelected(u.indexes, selected, Kinds)
      /\ result'.users = CountSelected(u.indexes, selected, {"user"})
      /\ result'.assistants = CountSelected(u.indexes, selected, {"assistant"})
      /\ result'.status = Status(u, selected, partial)
  BY <1>3 DEF Finished
<1>8. Status(u, selected, partial) = "complete" => ~SelectedTruncations(u.indexes, selected)
  BY DEF Status
<1> HIDE DEF selected
<1>9. Selection(sink, result.included)' = selected
  BY <1>2, <1>4, <1>7 DEF Selection, selected
<1>10. QED
  BY <1>4, <1>5, <1>7, <1>8, <1>9 DEF Decided

\* Later calls leave what it was decided from, and change the phase alone.
LEMMA DecisionStands ==
  ASSUME Decided, UNCHANGED <<options, sink>>,
         \/ result' = result
         \/ result \in Results /\ result.phase # "none" /\ CloseResult
  PROVE  Decided'
<1>1. /\ result'.phase # "none" => result.phase # "none"
      /\ result'.included = result.included /\ result'.selected = result.selected
      /\ result'.events = result.events /\ result'.users = result.users
      /\ result'.assistants = result.assistants /\ result'.status = result.status
  BY DEF CloseResult, Results
<1>2. Matched(sink)' = Matched(sink)
  BY DEF Matched
<1>3. Selection(sink, result.included)' = Selection(sink, result.included)
  BY <1>1 DEF Selection
<1>4. QED
  BY <1>1, <1>2, <1>3 DEF Decided

LEMMA NextDecided == TypeOK /\ SpoolAligned /\ Lifetimes /\ Decided /\ [Next]_vars => Decided'
<1> SUFFICES ASSUME TypeOK, SpoolAligned, Lifetimes, Decided, [Next]_vars PROVE Decided'
  OBVIOUS
<1>0. result \in Results
  BY DEF TypeOK
<1>1. CASE Add \/ AddFails \/ Abort \/ FinalizeFails
  <2>1. result'.phase = "none"
    BY <1>1 DEF Add, AddFails, Abort, FinalizeFails, Lifetimes
  <2>2. QED
    BY <2>1 DEF Decided
<1>2. CASE Finalize
  BY <1>2, FinalizeDecides
<1>3. CASE ReplayFails \/ Close
  <2>1. result.phase # "none" /\ CloseResult /\ UNCHANGED <<options, sink>>
    BY <1>3 DEF ReplayFails, Close, Lifetimes
  <2>2. QED
    BY <1>0, <2>1, DecisionStands
<1>4. CASE UNCHANGED <<options, sink, result>>
  BY <1>4, DecisionStands
<1>5. QED
  BY <1>1, <1>2, <1>3, <1>4 DEF Next, vars, BeginReplay, ReplayNext, ReplayDone, Cancel

LEMMA InitDecided == Init => Decided
BY DEF Init, Decided, NoResult

\* All that holds of the sink and the finalized session together.
SessionInv ==
  /\ TypeOK /\ ReplayAfterFinalize /\ SpoolAligned
  /\ Summed(sink) /\ Lifetimes /\ Decided

LEMMA SessionInvariant == Init /\ [][Next]_vars => []SessionInv
<1>1. Init => SessionInv
  BY InitType, InitAligned, InitSummed, InitLifetimes, InitDecided DEF SessionInv
<1>2. SessionInv /\ [Next]_vars => SessionInv'
  BY NextType, NextReplayAfterFinalize, NextAligned, NextSummed, NextLifetimes, NextDecided
  DEF SessionInv
<1>3. QED
  BY <1>1, <1>2, PTL

\* Discovery's bounds decide for a session without timestamps alone; any other
\* is in the export exactly if one of its lines is in the range, and is then
\* shown with that line.
THEOREM MatchIsDecidedByLines == Spec => []MatchDecidedByLines
<1>1. SessionInv => MatchDecidedByLines
  <2> SUFFICES ASSUME SessionInv, result.phase # "none", HasTimestampedMeaningful(sink.indexes)
               PROVE  /\ result.included <=> \E i \in 1..Len(sink.spool) : InRange(sink.spool[i].ts)
                      /\ \A i \in 1..Len(sink.spool) :
                           InRange(sink.spool[i].ts) => result.selected[i]
    BY DEF MatchDecidedByLines
  <2>1. result.included = sink.matched
    BY DEF SessionInv, Decided, Matched, TypeOK, Sinks
  <2>2. result.included <=> \E i \in 1..Len(sink.spool) : InRange(sink.spool[i].ts)
    BY <2>1 DEF SessionInv, Summed
  <2>3. ASSUME NEW i \in 1..Len(sink.spool), InRange(sink.spool[i].ts)
        PROVE  result.selected[i]
    <3>1. i \in 1..Len(sink.indexes) /\ sink.indexes[i].inRange
      BY <2>3 DEF SessionInv, SpoolAligned, Aligned
    <3>2. result.included
      BY <2>2, <2>3
    <3>3. result.selected = Selection(sink, result.included)
      BY DEF SessionInv, Decided
    <3>4. QED
      BY <3>1, <3>2, <3>3 DEF Selection
  <2>4. QED
    BY <2>2, <2>3
<1>2. QED
  BY <1>1, SessionInvariant, PTL DEF Spec

\* A replay that failed is the last: its session is closed and its spool gone.
\* Lifetimes is what the guards of Replay and Close come to together.
THEOREM FailedReplayStaysFinal == Spec => FailedReplayIsFinal
<1>1. SessionInv /\ [Next]_vars =>
        [/\ replay.phase = "failed" => replay' = replay
         /\ replay'.emitted # replay.emitted /\ replay'.emitted # <<>> => onDisk]_vars
  <2> SUFFICES ASSUME SessionInv, Next
               PROVE  /\ replay.phase = "failed" => replay' = replay
                      /\ replay'.emitted # replay.emitted /\ replay'.emitted # <<>> => onDisk
    OBVIOUS
  <2>1. CASE BeginReplay
    BY <2>1 DEF BeginReplay, SessionInv, Lifetimes
  <2>2. CASE ReplayNext
    BY <2>2 DEF ReplayNext, SessionInv, Lifetimes
  <2>3. CASE ReplayDone \/ ReplayFails
    BY <2>3 DEF ReplayDone, ReplayFails, SessionInv, TypeOK, Replays
  <2>4. CASE UNCHANGED replay
    BY <2>4
  <2>5. QED
    BY <2>1, <2>2, <2>3, <2>4
    DEF Next, Add, AddFails, Abort, Finalize, FinalizeFails, Close, Cancel
<1>2. QED
  BY <1>1, SessionInvariant, PTL DEF Spec, FailedReplayIsFinal

(***************************************************************************)
(* A replay that has passed n lines has emitted the selected ones among    *)
(* them, each once, in their order.                                        *)
(***************************************************************************)

Spoken(emitted, kinds) == {i \in 1..Len(emitted) : emitted[i].kind \in kinds}
Passed(spool, selected, n, kinds) == {j \in 1..n : selected[j] /\ spool[j].kind \in kinds}

Emits(spool, selected, n, emitted) ==
  /\ \A i \in 1..Len(emitted) : \E j \in 1..n : selected[j] /\ emitted[i] = spool[j]
  /\ \A j \in 1..n : selected[j] => \E i \in 1..Len(emitted) : emitted[i] = spool[j]
  /\ \A i, j \in 1..Len(emitted) : i < j => emitted[i].seq < emitted[j].seq
  /\ \A kinds \in SUBSET Kinds :
       Cardinality(Spoken(emitted, kinds)) = Cardinality(Passed(spool, selected, n, kinds))

\* A selected line raises both counts of its kind, or neither.
LEMMA CountedNext ==
  ASSUME NEW emitted \in Seq(Lines), NEW line \in Lines,
         NEW spool \in Seq(Lines), NEW selected, NEW n \in Nat,
         n + 1 \in 1..Len(spool), spool[n + 1] = line, selected[n + 1], NEW kinds,
         Cardinality(Spoken(emitted, kinds)) = Cardinality(Passed(spool, selected, n, kinds))
  PROVE  Cardinality(Spoken(Append(emitted, line), kinds))
           = Cardinality(Passed(spool, selected, n + 1, kinds))
<1> DEFINE l == Len(emitted)  more == Append(emitted, line)
           A == Spoken(emitted, kinds)  B == Passed(spool, selected, n, kinds)
<1>1. l \in Nat /\ Len(more) = l + 1 /\ more[l + 1] = line /\ \A i \in 1..l : more[i] = emitted[i]
  OBVIOUS
<1> HIDE DEF l, more
<1>2. /\ \A i \in 1..(l + 1) : i \in 1..l \/ i = l + 1
      /\ \A i \in 1..l : i \in 1..(l + 1) /\ i # l + 1
      /\ l + 1 \in 1..(l + 1) /\ l + 1 \notin 1..l
  BY <1>1
<1>3. /\ \A i \in 1..(n + 1) : i \in 1..n \/ i = n + 1
      /\ \A i \in 1..n : i \in 1..(n + 1) /\ i # n + 1
      /\ n + 1 \in 1..(n + 1) /\ n + 1 \notin 1..n
  OBVIOUS
<1>4. IsFiniteSet(A) /\ IsFiniteSet(B)
  <2>0. \A k \in Nat : IsFiniteSet(1..k)
    BY FS_Interval
  <2>1. IsFiniteSet(1..l) /\ IsFiniteSet(1..n)
    BY <1>1, <2>0
  <2>2. A \subseteq 1..l /\ B \subseteq 1..n
    BY DEF Spoken, Passed, l
  <2>3. QED
    BY <2>1, <2>2, FS_Subset
<1>5. l + 1 \notin A /\ n + 1 \notin B
  BY <1>2, <1>3 DEF Spoken, Passed, l
<1>6. A = {i \in 1..l : emitted[i].kind \in kinds}
  BY DEF Spoken, l
<1>7. Spoken(more, kinds) = {i \in 1..(l + 1) : more[i].kind \in kinds}
  BY <1>1 DEF Spoken
<1> HIDE DEF A, B
<1>8. CASE line.kind \in kinds
  <2>1. Spoken(more, kinds) = A \cup {l + 1}
    BY <1>1, <1>2, <1>6, <1>7, <1>8
  <2>2. Passed(spool, selected, n + 1, kinds) = B \cup {n + 1}
    BY <1>3, <1>8 DEF Passed, B
  <2>3. Cardinality(A \cup {l + 1}) = Cardinality(A) + 1 /\ Cardinality(B \cup {n + 1}) = Cardinality(B) + 1
    BY <1>4, <1>5, FS_AddElement
  <2>4. QED
    BY <2>1, <2>2, <2>3 DEF A, B, more
<1>9. CASE line.kind \notin kinds
  <2>1. Spoken(more, kinds) = A
    BY <1>1, <1>2, <1>6, <1>7, <1>9
  <2>2. Passed(spool, selected, n + 1, kinds) = B
    BY <1>3, <1>9 DEF Passed, B
  <2>3. QED
    BY <2>1, <2>2 DEF A, B, more
<1>10. QED
  BY <1>8, <1>9

LEMMA EmitsNext ==
  ASSUME NEW spool \in Seq(Lines), \A i \in 1..Len(spool) : spool[i].seq = i - 1,
         NEW selected \in Seq(BOOLEAN), NEW n \in Nat, n + 1 \in 1..Len(spool),
         NEW emitted \in Seq(Lines), Emits(spool, selected, n, emitted)
  PROVE  Emits(spool, selected, n + 1,
               IF selected[n + 1] THEN Append(emitted, spool[n + 1]) ELSE emitted)
<1> DEFINE line == spool[n + 1]  l == Len(emitted)  more == Append(emitted, line)
<1>1. /\ \A i \in 1..(n + 1) : i \in 1..n \/ i = n + 1
      /\ \A i \in 1..n : i \in 1..(n + 1) /\ i \in 1..Len(spool) /\ i - 1 < n
      /\ n + 1 \in 1..(n + 1)
  OBVIOUS
<1>2. line \in Lines /\ line.seq = n
  OBVIOUS
<1>3. CASE selected[n + 1]
  <2>1. l \in Nat /\ Len(more) = l + 1 /\ more[l + 1] = line /\ \A i \in 1..l : more[i] = emitted[i]
    BY <1>2
  <2> HIDE DEF line, l, more
  <2>2. \A i \in 1..(l + 1) : i \in 1..l \/ i = l + 1
    BY <2>1
  <2>2a. \A i \in 1..l : i \in 1..(l + 1)
    BY <2>1
  <2>2b. l + 1 \in 1..(l + 1)
    BY <2>1
  <2>3. ASSUME NEW i \in 1..(l + 1)
        PROVE  \E j \in 1..(n + 1) : selected[j] /\ more[i] = spool[j]
    <3>1. CASE i \in 1..l
      <4>1. PICK j \in 1..n : selected[j] /\ emitted[i] = spool[j]
        BY <3>1 DEF Emits, l
      <4>2. QED
        BY <1>1, <2>1, <3>1, <4>1
    <3>2. CASE i = l + 1
      BY <1>1, <1>3, <2>1, <3>2 DEF line
    <3>3. QED
      BY <2>2, <3>1, <3>2
  <2>4. ASSUME NEW j \in 1..(n + 1), selected[j]
        PROVE  \E i \in 1..(l + 1) : more[i] = spool[j]
    <3>1. CASE j \in 1..n
      <4>1. PICK i \in 1..l : emitted[i] = spool[j]
        BY <2>4, <3>1 DEF Emits, l
      <4>2. QED
        BY <2>1, <2>2a, <4>1
    <3>2. CASE j = n + 1
      BY <2>1, <2>2b, <3>2 DEF line
    <3>3. QED
      BY <1>1, <3>1, <3>2
  <2>5. ASSUME NEW i \in 1..l PROVE emitted[i].seq < n
    <3>1. PICK j \in 1..n : emitted[i] = spool[j]
      BY DEF Emits, l
    <3>2. spool[j].seq = j - 1 /\ j - 1 < n
      BY <1>1
    <3>3. QED
      BY <3>1, <3>2
  <2>6. ASSUME NEW i \in 1..(l + 1), NEW j \in 1..(l + 1), i < j
        PROVE  more[i].seq < more[j].seq
    <3>0. i \in 1..l
      BY <2>1, <2>6
    <3>1. CASE j \in 1..l
      <4>1. emitted[i].seq < emitted[j].seq
        BY <2>6, <3>0, <3>1 DEF Emits, l
      <4>2. QED
        BY <2>1, <3>0, <3>1, <4>1
    <3>2. CASE j = l + 1
      BY <1>2, <2>1, <2>5, <3>0, <3>2
    <3>3. QED
      BY <2>2, <3>1, <3>2
  <2>7. ASSUME NEW kinds \in SUBSET Kinds
        PROVE  Cardinality(Spoken(more, kinds)) = Cardinality(Passed(spool, selected, n + 1, kinds))
    <3>1. Cardinality(Spoken(emitted, kinds)) = Cardinality(Passed(spool, selected, n, kinds))
      BY DEF Emits
    <3>2. QED
      BY <1>2, <1>3, <3>1, CountedNext DEF more, line
  <2>8. Emits(spool, selected, n + 1, more)
    BY <2>1, <2>3, <2>4, <2>6, <2>7 DEF Emits
  <2>9. QED
    BY <1>3, <2>8 DEF more, line
<1>4. CASE ~selected[n + 1]
  <2>1. \A kinds : Passed(spool, selected, n + 1, kinds) = Passed(spool, selected, n, kinds)
    BY <1>1, <1>4 DEF Passed
  <2>2. \A j \in 1..(n + 1) : selected[j] => j \in 1..n
    BY <1>1, <1>4
  <2>3. Emits(spool, selected, n + 1, emitted)
    BY <1>1, <2>1, <2>2 DEF Emits
  <2>4. QED
    BY <1>4, <2>3
<1>5. QED
  BY <1>3, <1>4

LEMMA EmitsNothing ==
  ASSUME NEW spool, NEW selected
  PROVE  Emits(spool, selected, 0, <<>>)
<1>1. 1..0 = {} /\ Len(<<>>) = 0
  OBVIOUS
<1>2. \A kinds : Spoken(<<>>, kinds) = {} /\ Passed(spool, selected, 0, kinds) = {}
  BY <1>1 DEF Spoken, Passed
<1>3. QED
  BY <1>1, <1>2 DEF Emits

Progress ==
  replay.phase \in {"running", "done"} =>
    /\ replay.index \in 0..Len(sink.spool)
    /\ replay.phase = "done" => replay.index = Len(sink.spool)
    /\ Emits(sink.spool, result.selected, replay.index, replay.emitted)

LEMMA Selected ==
  ASSUME SessionInv, result.phase # "none"
  PROVE  /\ result.selected \in Seq(BOOLEAN) /\ Len(result.selected) = Len(sink.spool)
         /\ \A i \in 1..Len(sink.spool) : result.selected[i] => result.included
         /\ Len(sink.spool) = Len(sink.indexes)
         /\ sink.spool \in Seq(Lines)
<1>1. Len(sink.spool) = Len(sink.indexes) /\ Len(result.selected) = Len(sink.spool)
  BY DEF SessionInv, SpoolAligned, Aligned
<1>2. result.selected \in Seq(BOOLEAN) /\ sink.spool \in Seq(Lines)
  BY DEF SessionInv, TypeOK, Results, Sinks
<1>3. result.selected = Selection(sink, result.included)
  BY DEF SessionInv, Decided
<1>4. \A i \in 1..Len(sink.spool) : result.selected[i] => result.included
  BY <1>1, <1>3 DEF Selection
<1>5. QED
  BY <1>1, <1>2, <1>4

\* A line passed is emitted if it was selected.
LEMMA ReplayNextEmits ==
  ASSUME SessionInv, Progress, ReplayNext
  PROVE  /\ replay.phase = "running" /\ replay'.phase = "running"
         /\ replay.index \in Nat /\ replay'.index = replay.index + 1
         /\ replay'.index \in 1..Len(sink.spool)
         /\ replay'.emitted = IF result.selected[replay.index + 1]
                              THEN Append(replay.emitted, sink.spool[replay.index + 1])
                              ELSE replay.emitted
         /\ UNCHANGED <<sink, result>>
<1>1. replay \in Replays /\ replay.index \in Nat
  BY DEF SessionInv, TypeOK, Replays
<1>2. /\ replay.phase = "running" /\ replay.index + 1 <= Len(sink.spool)
      /\ UNCHANGED <<sink, result>>
      /\ replay' = [replay EXCEPT
           !.index = replay.index + 1,
           !.emitted = IF result.included /\ result.selected[replay.index + 1]
                       THEN Append(@, sink.spool[replay.index + 1]) ELSE @]
  BY DEF ReplayNext
<1>3. result.phase # "none"
  BY <1>2 DEF SessionInv, Lifetimes
<1>4. sink.spool \in Seq(Lines)
  BY <1>3, Selected
<1>5. replay.index + 1 \in 1..Len(sink.spool)
  BY <1>1, <1>2, <1>4
<1>6. result.selected[replay.index + 1] => result.included
  BY <1>3, <1>5, Selected
<1>7. /\ replay'.phase = "running" /\ replay'.index = replay.index + 1
      /\ replay'.emitted = IF result.included /\ result.selected[replay.index + 1]
                           THEN Append(replay.emitted, sink.spool[replay.index + 1])
                           ELSE replay.emitted
  BY <1>1, <1>2 DEF Replays
<1>8. QED
  BY <1>1, <1>2, <1>5, <1>6, <1>7

LEMMA NextProgress == SessionInv /\ Progress /\ [Next]_vars => Progress'
<1> SUFFICES ASSUME SessionInv, Progress, [Next]_vars PROVE Progress'
  OBVIOUS
<1>0. replay \in Replays /\ result \in Results
  BY DEF SessionInv, TypeOK
<1>1. CASE Add \/ AddFails \/ Abort \/ Finalize \/ FinalizeFails
  <2>1. sink.phase = "open" /\ replay' = replay
    BY <1>1 DEF Add, AddFails, Abort, Finalize, FinalizeFails
  <2>2. replay.phase = "idle"
    BY <2>1 DEF SessionInv, Lifetimes, ReplayAfterFinalize
  <2>3. QED
    BY <2>1, <2>2 DEF Progress
<1>2. CASE BeginReplay
  <2>1. replay'.index = 0 /\ replay'.emitted = <<>> /\ replay'.phase = "running" /\ UNCHANGED <<sink, result>>
    BY <1>2 DEF BeginReplay
  <2>2. Len(sink.spool) \in Nat
    BY DEF SessionInv, TypeOK, Sinks
  <2>3. 0 \in 0..Len(sink.spool)
    BY <2>2
  <2>4. Emits(sink.spool, result.selected, 0, <<>>)
    BY EmitsNothing
  <2>5. QED
    BY <2>1, <2>3, <2>4 DEF Progress
<1>3. CASE ReplayNext
  <2>1. /\ replay.phase = "running" /\ replay'.phase = "running"
        /\ replay.index \in Nat /\ replay'.index = replay.index + 1
        /\ replay'.index \in 1..Len(sink.spool)
        /\ replay'.emitted = IF result.selected[replay.index + 1]
                             THEN Append(replay.emitted, sink.spool[replay.index + 1])
                             ELSE replay.emitted
        /\ UNCHANGED <<sink, result>>
    BY <1>3, ReplayNextEmits
  <2>2. result.selected \in Seq(BOOLEAN) /\ sink.spool \in Seq(Lines)
    BY <2>1, Selected DEF SessionInv, Lifetimes
  <2>3. \A i \in 1..Len(sink.spool) : sink.spool[i].seq = i - 1
    BY DEF SessionInv, SpoolAligned, Aligned
  <2>4. replay.emitted \in Seq(Lines)
    BY <1>0 DEF Replays
  <2>5. Emits(sink.spool, result.selected, replay.index, replay.emitted)
    BY <2>1 DEF Progress
  <2>6. Emits(sink.spool, result.selected, replay.index + 1, replay'.emitted)
    BY <2>1, <2>2, <2>3, <2>4, <2>5, EmitsNext
  <2>7. replay'.index \in 0..Len(sink.spool)
    BY <2>1, <2>2
  <2>8. QED
    BY <2>1, <2>6, <2>7 DEF Progress
<1>4. CASE ReplayDone
  <2>1. /\ replay.phase = "running" /\ replay.index = Len(sink.spool)
        /\ replay'.index = replay.index /\ replay'.emitted = replay.emitted
        /\ UNCHANGED <<sink, result>>
    BY <1>0, <1>4 DEF ReplayDone, Replays
  <2>2. QED
    BY <2>1 DEF Progress
<1>5. CASE ReplayFails
  <2>1. replay'.phase = "failed"
    BY <1>0, <1>5 DEF ReplayFails, Replays
  <2>2. QED
    BY <2>1 DEF Progress
<1>6. CASE Close
  <2>1. result'.selected = result.selected /\ UNCHANGED <<sink, replay>>
    BY <1>0, <1>6 DEF Close, CloseResult, Results
  <2>2. QED
    BY <2>1 DEF Progress
<1>7. CASE UNCHANGED <<sink, result, replay>>
  BY <1>7 DEF Progress
<1>8. QED
  BY <1>1, <1>2, <1>3, <1>4, <1>5, <1>6, <1>7 DEF Next, vars, Cancel

LEMMA ReplayInvariant == Init /\ [][Next]_vars => [](SessionInv /\ Progress)
<1>1. Init => Progress
  BY DEF Init, Progress, NoReplay
<1>2. QED
  BY <1>1, SessionInvariant, NextProgress, PTL

\* A replay that reports success has emitted the lines that the session record
\* counts, by speaker and in sequence order, however many replays went before.
THEOREM ReplayKeepsCounts == Spec => []ReplayMatchesCounts
<1>1. SessionInv /\ Progress => ReplayMatchesCounts
  <2> SUFFICES ASSUME SessionInv, Progress, replay.phase = "done"
               PROVE  /\ Len(replay.emitted) = result.events
                      /\ Cardinality(Spoken(replay.emitted, {"user"})) = result.users
                      /\ Cardinality(Spoken(replay.emitted, {"assistant"})) = result.assistants
                      /\ \A i, j \in 1..Len(replay.emitted) :
                           i < j => replay.emitted[i].seq < replay.emitted[j].seq
    BY DEF ReplayMatchesCounts, Spoken
  <2> DEFINE n == Len(sink.spool)
  <2>1. Emits(sink.spool, result.selected, n, replay.emitted)
    BY DEF Progress
  <2>2. result.phase # "none"
    BY DEF SessionInv, ReplayAfterFinalize
  <2>3. n = Len(sink.indexes) /\ \A i \in 1..n : sink.indexes[i].kind = sink.spool[i].kind
    BY DEF SessionInv, SpoolAligned, Aligned
  <2>4. \A kinds : CountSelected(sink.indexes, result.selected, kinds)
                     = Cardinality(Passed(sink.spool, result.selected, n, kinds))
    <3> TAKE kinds
    <3>1. {i \in 1..Len(sink.indexes) : result.selected[i] /\ sink.indexes[i].kind \in kinds}
            = Passed(sink.spool, result.selected, n, kinds)
      BY <2>3 DEF Passed
    <3>2. QED
      BY <3>1 DEF CountSelected
  <2>5. \A kinds \in SUBSET Kinds :
          Cardinality(Spoken(replay.emitted, kinds)) = CountSelected(sink.indexes, result.selected, kinds)
    BY <2>1, <2>4 DEF Emits
  <2>6. Kinds \in SUBSET Kinds /\ {"user"} \in SUBSET Kinds /\ {"assistant"} \in SUBSET Kinds
    BY DEF Kinds
  <2>7. /\ Cardinality(Spoken(replay.emitted, Kinds)) = result.events
        /\ Cardinality(Spoken(replay.emitted, {"user"})) = result.users
        /\ Cardinality(Spoken(replay.emitted, {"assistant"})) = result.assistants
    BY <2>2, <2>5, <2>6 DEF SessionInv, Decided
  <2>8. Cardinality(Spoken(replay.emitted, Kinds)) = Len(replay.emitted)
    <3>1. replay.emitted \in Seq(Lines)
      BY DEF SessionInv, TypeOK, Replays
    <3>2. \A line \in Lines : line.kind \in Kinds
      BY DEF Lines
    <3>3. \A i \in 1..Len(replay.emitted) : replay.emitted[i].kind \in Kinds
      BY <3>1, <3>2
    <3>4. Spoken(replay.emitted, Kinds) = 1..Len(replay.emitted)
      BY <3>3 DEF Spoken
    <3>5. \A k \in Nat : Cardinality(1..k) = k
      BY FS_Interval
    <3>6. QED
      BY <3>1, <3>4, <3>5
  <2>9. QED
    BY <2>1, <2>7, <2>8 DEF Emits
<1>2. QED
  BY <1>1, ReplayInvariant, PTL DEF Spec

\* A session reported complete is delivered whole: the replay emits what was
\* selected, of a whole session that is every line, and the lines hold every
\* message kept.
THEOREM CompleteSessionsAreWhole == Spec => []CompleteMeansWhole
<1>1. SessionInv /\ Progress /\ Recording => CompleteMeansWhole
  <2> SUFFICES ASSUME SessionInv, Progress, Recording,
                      replay.phase = "done", result.included, result.status = "complete"
               PROVE  /\ \A i \in 1..Len(replay.emitted) : ~replay.emitted[i].truncated
                      /\ options.scope = "touched" =>
                           \A n \in 1..Len(kept) :
                             \E i \in 1..Len(replay.emitted) :
                               \E k \in 1..Len(replay.emitted[i].text) : replay.emitted[i].text[k] = n
    BY DEF CompleteMeansWhole
  <2> DEFINE n == Len(sink.spool)
  <2>1. Emits(sink.spool, result.selected, n, replay.emitted)
    BY DEF Progress
  <2>2. result.phase # "none" /\ sink.pending = <<>>
    BY DEF SessionInv, ReplayAfterFinalize, SpoolAligned
  <2>3. /\ n = Len(sink.indexes)
        /\ \A i \in 1..n : sink.indexes[i].truncated <=> sink.spool[i].truncated
    BY DEF SessionInv, SpoolAligned, Aligned
  <2>4. ASSUME NEW i \in 1..Len(replay.emitted) PROVE ~replay.emitted[i].truncated
    <3>1. PICK j \in 1..n : result.selected[j] /\ replay.emitted[i] = sink.spool[j]
      BY <2>1 DEF Emits
    <3>2. ~SelectedTruncations(sink.indexes, result.selected)
      BY <2>2 DEF SessionInv, Decided
    <3>3. ~sink.indexes[j].truncated
      BY <2>3, <3>1, <3>2 DEF SelectedTruncations
    <3>4. QED
      BY <2>3, <3>1, <3>3
  <2>5. ASSUME options.scope = "touched", NEW m \in 1..Len(kept)
        PROVE  \E i \in 1..Len(replay.emitted) :
                 \E k \in 1..Len(replay.emitted[i].text) : replay.emitted[i].text[k] = m
    <3>1. /\ Len(Turns(sink)) = n
          /\ \A i \in 1..n : Turns(sink)[i] = Turn(sink.spool[i])
      <4>1. sink \in Sinks /\ n \in Nat
        BY DEF SessionInv, TypeOK, Sinks
      <4>2. /\ Len(Turns(sink)) = n + Len(sink.pending)
            /\ \A i \in 1..n : Turns(sink)[i] = Turn(sink.spool[i])
        BY <4>1, TurnsType
      <4>3. Len(sink.pending) = 0
        BY <2>2
      <4>4. QED
        BY <4>1, <4>2, <4>3
    <3>2. PICK j \in 1..n : \E k \in 1..Len(Turns(sink)[j].text) : Turns(sink)[j].text[k] = m
      BY <3>1 DEF Recording, AllTold
    <3>3. Turns(sink)[j].text = sink.spool[j].text
      <4>1. \A x : Turn(x).text = x.text
        BY DEF Turn
      <4>2. QED
        BY <3>1, <4>1
    <3>4. result.selected[j]
      <4>1. result.selected = Selection(sink, result.included)
        BY <2>2 DEF SessionInv, Decided
      <4>2. QED
        BY <2>3, <2>5, <4>1 DEF Selection
    <3>5. PICK i \in 1..Len(replay.emitted) : replay.emitted[i] = sink.spool[j]
      BY <2>1, <3>4 DEF Emits
    <3>6. QED
      BY <3>2, <3>3, <3>5
  <2>6. QED
    BY <2>4, <2>5
<1>2. Init /\ [][Next]_vars => []Recording
  BY InitType, NextType, InitRecording, NextRecording, PTL
<1>3. QED
  BY <1>1, <1>2, ReplayInvariant, PTL DEF Spec

(***************************************************************************)
(* The sink and the finalized session implement Transcript.                *)
(***************************************************************************)

Stage ==
  IF Discarded THEN "discarded"
  ELSE IF sink.phase = "open" THEN "recording" ELSE "sealed"

Shown == {i \in 1..Len(result.selected) : result.selected[i]}

Delivered == [i \in 1..Len(replay.emitted) |-> Turn(replay.emitted[i])]

TranscriptInv == SessionInv /\ Progress /\ Recording /\ read \in Nat

LEMMA InitTranscript == Init => AbstractTranscript!Init
<1> SUFFICES ASSUME Init PROVE AbstractTranscript!Init
  OBVIOUS
<1>1. Turns(sink) = <<>>
  <2>1. sink.spool = <<>> /\ sink.pending = <<>> /\ sink \in Sinks
    BY InitType DEF Init, NewSessionSink, TypeOK
  <2>2. Turns(sink) \in Seq(TurnSet) /\ Len(Turns(sink)) = Len(sink.spool) + Len(sink.pending)
    BY <2>1, TurnsType
  <2>3. Len(sink.spool) = 0 /\ Len(sink.pending) = 0
    BY <2>1
  <2>4. QED
    BY <2>2, <2>3
<1>2. Stage = "recording"
  BY DEF Init, NewSessionSink, NoResult, Stage, Discarded
<1>3. Shown = {} /\ replay.index = 0
  BY DEF Init, NoResult, NoReplay, Shown
<1>4. Delivered = <<>>
  BY DEF Init, NoReplay, Delivered
<1>5. QED
  BY <1>1, <1>2, <1>3, <1>4 DEF AbstractTranscript!Init, Stage, Shown, Delivered

\* The messages of the transcript are those kept.
LEMMA TranscriptMessages ==
  ASSUME TranscriptInv
  PROVE  AbstractTranscript!Messages = Len(kept)
<1>1. Turns(sink) \in Seq(TurnSet)
  BY TurnsType DEF TranscriptInv, SessionInv, TypeOK
<1>2. Len(kept) = IF Len(Turns(sink)) = 0 THEN 0 ELSE FinalOf(Turns(sink)[Len(Turns(sink))])
  BY DEF TranscriptInv, Recording, InOrder
<1>3. Turns(sink) = <<>> <=> Len(Turns(sink)) = 0
  BY <1>1
<1>4. QED
  BY <1>2, <1>3 DEF AbstractTranscript!Messages, AbstractTranscript!LastOf, FinalOf

LEMMA AddRefines ==
  ASSUME TranscriptInv, Add
  PROVE  [AbstractTranscript!Next]_(AbstractTranscript!vars)
<1>0. /\ sink.phase = "open" /\ UNCHANGED <<result, replay>> /\ read < MaxRecords
      /\ read' = read + 1
  BY DEF Add
<1>1. CASE UNCHANGED <<sink, kept>>
  BY <1>0, <1>1 DEF AbstractTranscript!vars, Discarded, Turns
<1>2. ASSUME NEW kind \in Kinds, NEW id \in NativeIDs \cup {NoID}, NEW ts \in Stamps,
             sink' = AddMessage(sink, Message(kind, id, read + 1, ts, Len(kept) + 1)),
             kept' = Append(kept, [kind |-> kind, ts |-> ts])
      PROVE  AbstractTranscript!Record(kind)
  <2>1. Turns(sink') = Recorded(Turns(sink), kind, Len(kept) + 1)
    BY <1>0, <1>2, AddRecords DEF TranscriptInv, SessionInv
  <2>2. sink'.phase = "open"
    <3>1. read + 1 \in Nat /\ Len(kept) + 1 \in Nat /\ sink \in Sinks
      BY DEF TranscriptInv, SessionInv, TypeOK
    <3>2. Message(kind, id, read + 1, ts, Len(kept) + 1) \in Messages
      BY <3>1, MessageType
    <3>3. QED
      BY <1>0, <1>2, <3>1, <3>2, AddMessagePhase
  <2>3. Stage = "recording" /\ Stage' = "recording"
    BY <1>0, <2>2 DEF Stage, Discarded, TranscriptInv, SessionInv, Lifetimes
  <2>4. AbstractTranscript!Messages = Len(kept)
    BY TranscriptMessages
  <2>5. Len(kept) < MaxRecords
    <3>1. Len(kept) \in Nat /\ Len(kept) <= read
      BY DEF TranscriptInv, SessionInv, TypeOK, Recording
    <3>2. QED
      BY <1>0, <3>1, SinkAssumption DEF TranscriptInv
  <2>6. Shown' = Shown /\ Delivered' = Delivered /\ replay'.index = replay.index
    BY <1>0 DEF Shown, Delivered
  <2>7. QED
    BY <2>1, <2>3, <2>4, <2>5, <2>6
    DEF AbstractTranscript!Record, AbstractTranscript!LastOf, Recorded, Stage, Shown, Delivered
<1>3. Kinds = {"user", "assistant"}
  BY DEF Kinds
<1>4. QED
  BY <1>0, <1>1, <1>2, <1>3 DEF Add, AbstractTranscript!Next

\* Any end of the session on the way is the one Discard.
LEMMA AbortRefines ==
  ASSUME TranscriptInv, AddFails \/ Abort \/ FinalizeFails
  PROVE  AbstractTranscript!Discard
<1>1. sink.phase = "open" /\ AbortSink /\ UNCHANGED <<result, replay>>
  BY DEF AddFails, Abort, FinalizeFails
<1>2. Turns(sink') = Turns(sink)
  BY <1>1, AbortTurns DEF TranscriptInv, SessionInv
<1>3. sink'.phase = "aborted"
  BY <1>1 DEF AbortSink, TranscriptInv, SessionInv, TypeOK, Sinks
<1>4. Stage = "recording" /\ Stage' = "discarded"
  BY <1>1, <1>3 DEF Stage, Discarded, TranscriptInv, SessionInv, Lifetimes
<1>5. Shown' = Shown /\ Delivered' = Delivered /\ replay'.index = replay.index
  BY <1>1 DEF Shown, Delivered
<1>6. QED
  BY <1>2, <1>4, <1>5 DEF AbstractTranscript!Discard, Stage, Shown, Delivered

LEMMA FinalizeRefines ==
  ASSUME TranscriptInv, Finalize, SpoolAligned', TypeOK'
  PROVE  AbstractTranscript!Seal
<1>1. sink.phase = "open" /\ UNCHANGED replay
  BY DEF Finalize
<1>2. Turns(sink') = Turns(sink) /\ sink'.pending = <<>>
  BY FinalizeTurns DEF TranscriptInv, SessionInv
<1>3. sink'.phase = "closed" /\ result'.phase = "ready"
  <2>1. FlushAssistant(sink) \in Sinks
    BY FlushType DEF TranscriptInv, SessionInv, TypeOK
  <2>2. QED
    BY <2>1, PhaseFrame DEF Finalize, Finished
<1>4. Stage = "recording" /\ Stage' = "sealed"
  BY <1>1, <1>3 DEF Stage, Discarded, TranscriptInv, SessionInv, Lifetimes
<1>5. Len(result'.selected) = Len(Turns(sink))
  <2>1. Len(result'.selected) = Len(sink'.spool) /\ sink' \in Sinks
    BY <1>3 DEF SpoolAligned, TypeOK
  <2>2. Len(Turns(sink')) = Len(sink'.spool) + Len(sink'.pending)
    BY <2>1, TurnsType
  <2>3. Len(sink'.pending) = 0
    BY <1>2
  <2>4. Len(sink'.spool) \in Nat
    BY <2>1 DEF Sinks
  <2>5. QED
    BY <1>2, <2>1, <2>2, <2>3, <2>4
<1>6. Shown' \in SUBSET (1..Len(Turns(sink)))
  BY <1>5 DEF Shown
<1>7. Delivered' = Delivered /\ replay'.index = replay.index
  BY <1>1 DEF Delivered
<1>8. QED
  BY <1>2, <1>4, <1>6, <1>7 DEF AbstractTranscript!Seal, Stage, Shown, Delivered

\* A line passed is a turn passed.
LEMMA ReplayNextRefines ==
  ASSUME TranscriptInv, ReplayNext
  PROVE  AbstractTranscript!Deliver
<1> DEFINE next == replay.index + 1
<1>1. /\ replay.phase = "running" /\ replay.index \in Nat /\ replay'.index = next
      /\ next \in 1..Len(sink.spool)
      /\ replay'.emitted = IF result.selected[next]
                           THEN Append(replay.emitted, sink.spool[next])
                           ELSE replay.emitted
      /\ UNCHANGED <<sink, result>>
  BY ReplayNextEmits DEF TranscriptInv
<1>2. result.phase = "ready"
  BY <1>1 DEF TranscriptInv, SessionInv, Lifetimes
<1>3. sink.phase = "closed" /\ sink.pending = <<>> /\ Len(result.selected) = Len(sink.spool)
  BY <1>2 DEF TranscriptInv, SessionInv, SpoolAligned
<1>4. Stage = "sealed" /\ Stage' = "sealed"
  BY <1>1, <1>2, <1>3 DEF Stage, Discarded
<1>5. /\ Len(Turns(sink)) = Len(sink.spool) /\ Turns(sink)[next] = Turn(sink.spool[next])
      /\ sink.spool[next] \in Lines
  <2>1. sink \in Sinks /\ sink.spool \in Seq(Lines) /\ Len(sink.pending) = 0
    BY <1>3 DEF TranscriptInv, SessionInv, TypeOK, Sinks
  <2>2. /\ Len(Turns(sink)) = Len(sink.spool) + Len(sink.pending)
        /\ \A i \in 1..Len(sink.spool) : Turns(sink)[i] = Turn(sink.spool[i])
    BY <2>1, TurnsType
  <2>3. QED
    BY <1>1, <2>1, <2>2
<1>6. next \in Shown <=> result.selected[next]
  BY <1>1, <1>3 DEF Shown
<1>7. Delivered' = IF next \in Shown THEN Append(Delivered, Turns(sink)[next]) ELSE Delivered
  <2>1. CASE ~result.selected[next]
    BY <1>1, <1>6, <2>1 DEF Delivered
  <2>2. CASE result.selected[next]
    <3> DEFINE n == Len(replay.emitted)
    <3>1. replay.emitted \in Seq(Lines) /\ replay'.emitted = Append(replay.emitted, sink.spool[next])
      BY <1>1, <2>2 DEF TranscriptInv, SessionInv, TypeOK, Replays
    <3>2. /\ n \in Nat /\ Len(replay'.emitted) = n + 1
          /\ replay'.emitted[n + 1] = sink.spool[next]
          /\ \A i \in 1..n : replay'.emitted[i] = replay.emitted[i]
      BY <1>5, <3>1
    <3>3. replay'.emitted \in Seq(Lines)
      BY <1>5, <3>1
    <3>4. \A e \in Seq(Lines) :
            /\ [i \in 1..Len(e) |-> Turn(e[i])] \in Seq(TurnSet)
            /\ Len([i \in 1..Len(e) |-> Turn(e[i])]) = Len(e)
      <4>1. \A line \in Lines : Turn(line) \in TurnSet
        BY DEF Lines, Turn, TurnSet
      <4>2. QED
        BY <4>1
    <3>5. /\ Delivered \in Seq(TurnSet) /\ Delivered' \in Seq(TurnSet)
          /\ Len(Delivered) = n /\ Len(Delivered') = n + 1
      BY <3>1, <3>2, <3>3, <3>4 DEF Delivered
    <3>6. Delivered'[n + 1] = Turns(sink)[next]
      BY <1>5, <3>2 DEF Delivered
    <3>7. \A i \in 1..n : Delivered'[i] = Delivered[i]
      BY <3>2 DEF Delivered
    <3> HIDE DEF n
    <3>8. Delivered' = Append(Delivered, Turns(sink)[next])
      BY <3>5, <3>6, <3>7, OneTurnMore
    <3>9. QED
      BY <1>6, <2>2, <3>8
  <2>3. QED
    BY <2>1, <2>2
<1>8. replay.index < Len(Turns(sink))
  BY <1>1, <1>5
<1>9. Turns(sink)' = Turns(sink) /\ Shown' = Shown
  BY <1>1 DEF Turns, Shown
<1>10. QED
  BY <1>1, <1>4, <1>7, <1>8, <1>9 DEF AbstractTranscript!Deliver, Stage, Shown, Delivered

LEMMA BeginReplayRefines ==
  ASSUME TranscriptInv, BeginReplay
  PROVE  AbstractTranscript!Rewind
<1>1. /\ result.phase = "ready" /\ UNCHANGED <<sink, result>>
      /\ replay'.index = 0 /\ replay'.emitted = <<>>
  BY DEF BeginReplay
<1>2. sink.phase = "closed"
  BY <1>1 DEF TranscriptInv, SessionInv, SpoolAligned
<1>3. Stage = "sealed" /\ Stage' = "sealed"
  BY <1>1, <1>2 DEF Stage, Discarded
<1>4. Delivered' = <<>>
  BY <1>1 DEF Delivered
<1>5. Turns(sink)' = Turns(sink) /\ Shown' = Shown
  BY <1>1 DEF Turns, Shown
<1>6. QED
  BY <1>1, <1>3, <1>4, <1>5 DEF AbstractTranscript!Rewind, Stage, Shown, Delivered

LEMMA CloseRefines ==
  ASSUME TranscriptInv, ReplayFails \/ Close
  PROVE  AbstractTranscript!Discard
<1>1. /\ result.phase = "ready" /\ CloseResult /\ UNCHANGED sink
      /\ replay'.index = replay.index /\ replay'.emitted = replay.emitted
  BY DEF ReplayFails, Close, TranscriptInv, SessionInv, Lifetimes, TypeOK, Replays
<1>2. result'.phase = "closed" /\ result'.selected = result.selected
  BY <1>1 DEF CloseResult, TranscriptInv, SessionInv, TypeOK, Results
<1>3. sink.phase = "closed"
  BY <1>1 DEF TranscriptInv, SessionInv, SpoolAligned
<1>4. Stage = "sealed" /\ Stage' = "discarded"
  BY <1>1, <1>2, <1>3 DEF Stage, Discarded
<1>5. Turns(sink)' = Turns(sink) /\ Shown' = Shown /\ Delivered' = Delivered
  BY <1>1, <1>2 DEF Turns, Shown, Delivered
<1>6. QED
  BY <1>1, <1>4, <1>5 DEF AbstractTranscript!Discard, Stage, Shown, Delivered

LEMMA NextTranscript ==
  TranscriptInv /\ TypeOK' /\ SpoolAligned' /\ [Next]_vars
    => [AbstractTranscript!Next]_(AbstractTranscript!vars)
<1> SUFFICES ASSUME TranscriptInv, TypeOK', SpoolAligned', [Next]_vars
             PROVE  [AbstractTranscript!Next]_(AbstractTranscript!vars)
  OBVIOUS
<1>1. CASE Add
  BY <1>1, AddRefines
<1>2. CASE AddFails \/ Abort \/ FinalizeFails
  BY <1>2, AbortRefines DEF AbstractTranscript!Next
<1>3. CASE Finalize
  BY <1>3, FinalizeRefines DEF AbstractTranscript!Next
<1>4. CASE BeginReplay
  BY <1>4, BeginReplayRefines DEF AbstractTranscript!Next
<1>5. CASE ReplayNext
  BY <1>5, ReplayNextRefines DEF AbstractTranscript!Next
<1>6. CASE ReplayFails \/ Close
  BY <1>6, CloseRefines DEF AbstractTranscript!Next
<1>7. CASE ReplayDone
  <2>1. /\ UNCHANGED <<sink, result>>
        /\ replay'.index = replay.index /\ replay'.emitted = replay.emitted
    BY <1>7 DEF ReplayDone, TranscriptInv, SessionInv, TypeOK, Replays
  <2>2. QED
    BY <2>1 DEF AbstractTranscript!vars, Discarded, Turns
<1>8. CASE UNCHANGED <<sink, result, replay>>
  BY <1>8 DEF AbstractTranscript!vars, Discarded, Turns
<1>9. QED
  BY <1>1, <1>2, <1>3, <1>4, <1>5, <1>6, <1>7, <1>8 DEF Next, vars, Cancel

\* The spool, the index and the pending message implement the transcript: it is
\* recorded turn by turn, sealed once, delivered in order, and lost only whole.
THEOREM SinkImplementsTranscript == Spec => ImplementsTranscript
<1>1. Init /\ [][Next]_vars => []TranscriptInv
  <2>1. TypeOK => read \in Nat
    BY DEF TypeOK
  <2>2. QED
    BY <2>1, InitType, NextType, InitRecording, NextRecording, ReplayInvariant, PTL
    DEF TranscriptInv
<1>2. TranscriptInv => TypeOK /\ SpoolAligned
  BY DEF TranscriptInv, SessionInv
<1>3. QED
  BY <1>1, <1>2, InitTranscript, NextTranscript, PTL
  DEF Spec, ImplementsTranscript, AbstractTranscript!Spec

===============================================================================
