------------------------- MODULE AdapterStores_proofs -------------------------
(***************************************************************************)
(* Proofs about Adapters, continued: OpenCode's two layouts, and what all  *)
(* six readers return.                                                     *)
(***************************************************************************)
EXTENDS AdapterLines_proofs

(***************************************************************************)
(* OpenCode's legacy layout: types, and what a step does to the result.    *)
(***************************************************************************)

LegacyFields ==
  {"partial", "malformed", "changed", "error", "pc", "before", "messages", "body", "parts", "index"}
IsLegacyReader(r) == r = [field \in LegacyFields |-> r[field]]
\* Names in their order.
Sorts(names) == names = Ascending(ToSet(names)) /\ ToSet(names) \in SUBSET Names

LEMMA SortsAscending ==
  ASSUME NEW X \in SUBSET Names
  PROVE  Sorts(Ascending(X)) /\ ToSet(Ascending(X)) = X /\ (Ascending(X) = <<>> <=> X = {})
<1>1. X \in SUBSET Nat /\ IsFiniteSet(X)
  <2>1. IsFiniteSet(Names) /\ Names \subseteq Nat
    BY StoresAssumption
  <2>2. QED
    BY <2>1, FS_Subset
<1> DEFINE A == Ascending(X)
           n == Cardinality(X)
<1>2. /\ n \in Nat /\ DOMAIN A = 1..n /\ A \in Seq(X)
      /\ \A s \in X : \E i \in 1..n : A[i] = s
  BY <1>1, AscendingIs
<1> HIDE DEF A, n
<1>3. \A i \in 1..n : A[i] \in X
  BY <1>2
<1>4. ToSet(A) = X
  BY <1>2, <1>3 DEF ToSet
<1>5. A = <<>> <=> X = {}
  <2>1. X = {} => A = <<>>
    BY AscendingNone DEF A
  <2>2. X # {} => A # <<>>
    BY <1>1, AscendingTail DEF A
  <2>3. QED
    BY <2>1, <2>2
<1>6. QED
  BY <1>4, <1>5 DEF A, Sorts

LEMMA SortsTail ==
  ASSUME NEW names, Sorts(names), names # <<>>
  PROVE  /\ Head(names) \in ToSet(names) /\ Head(names) \in Names
         /\ \A x \in ToSet(names) : x # Head(names) => Head(names) < x
         /\ ToSet(Tail(names)) = ToSet(names) \ {Head(names)} /\ Sorts(Tail(names))
         /\ Len(names) = 1 <=> ToSet(Tail(names)) = {}
<1> DEFINE X == ToSet(names)
           m == Head(names)
<1>1. X \in SUBSET Names /\ names = Ascending(X)
  BY DEF Sorts
<1>2. X \in SUBSET Nat /\ IsFiniteSet(X)
  <2>1. IsFiniteSet(Names) /\ Names \subseteq Nat
    BY StoresAssumption
  <2>2. QED
    BY <1>1, <2>1, FS_Subset
<1> HIDE DEF X
<1>3. X # {}
  BY <1>1, SortsAscending
<1>4. /\ m \in X /\ (\A x \in X : x # m => m < x) /\ Tail(names) = Ascending(X \ {m})
      /\ Len(Tail(names)) = Len(names) - 1
  BY <1>1, <1>2, <1>3, AscendingTail
<1> HIDE DEF m
<1> DEFINE Y == X \ {m}
<1>5. Sorts(Ascending(Y)) /\ ToSet(Ascending(Y)) = Y /\ (Ascending(Y) = <<>> <=> Y = {})
  <2>1. Y \in SUBSET Names
    BY <1>1
  <2> HIDE DEF Y
  <2>2. QED
    BY <2>1, SortsAscending
<1>6. Len(names) = 1 <=> Y = {}
  <2>1. names \in Seq(X) /\ Ascending(Y) \in Seq(Y)
    <3>1. Y \in SUBSET Nat /\ IsFiniteSet(Y)
      BY <1>2, FS_Subset
    <3>2. QED
      BY <1>1, <1>2, <3>1, AscendingIs
  <2> HIDE DEF Y
  <2> DEFINE B == Ascending(Y)
  <2>2. Len(B) = Len(names) - 1 /\ Len(B) \in Nat /\ Len(names) \in Nat /\ (Len(B) = 0 <=> B = <<>>)
    <3>1. B \in Seq(Y) /\ Len(B) = Len(names) - 1 /\ names \in Seq(X)
      BY <1>4, <2>1 DEF Y
    <3> HIDE DEF B
    <3>2. QED
      BY <3>1
  <2>3. QED
    BY <1>5, <2>2
<1>7. QED
  BY <1>1, <1>4, <1>5, <1>6 DEF X, m

Early == {"stat", "session", "list"}

LegacyType ==
  /\ store \in LegacyStores
  /\ IsLegacyReader(reader) /\ IsSeen(seen) /\ Result
  /\ reader.pc \in Early \cup {"message", "parts", "part", "done"}
  /\ Sorts(reader.messages) /\ Sorts(reader.parts)
  /\ reader.pc \in {"parts", "part"} => reader.messages # <<>>
  /\ reader.pc = "part" => reader.parts # <<>>
  /\ reader.index \in Nat
  /\ reader.pc # "done" => reader.error = "none" /\ ~reader.changed
  /\ reader.pc \in Early => emitted = <<>> /\ seen.lines = <<>> /\ ~reader.partial
  /\ seen.lines \in Seq(Seq(Names))
  /\ emitted \in Seq(Messages) /\ Distinct(emitted)
  /\ \A p \in Positions(emitted) : p < reader.index

LegacyRests == UNCHANGED <<reader.partial, reader.malformed, reader.changed, reader.error, reader.index,
                           reader.messages, reader.parts, emitted, seen, store>>

LegacyQuits ==
  /\ UNCHANGED <<reader.index, reader.messages, reader.parts, emitted, seen, store>>
  /\ reader.pc # "done" /\ reader'.pc = "done" /\ reader'.partial = TRUE /\ reader'.malformed \in Nat
  /\ reader'.changed = FALSE
  /\ \/ reader'.error \in Errors \ {"none"}
     \/ /\ reader'.error = reader.error /\ reader.pc \in Early
        /\ store.session.form # "record" \/ (reader.pc = "list" /\ ~store.there)

LegacyStarts ==
  /\ LegacyRests
  /\ \/ reader.pc = "stat" /\ reader'.pc = "session"
     \/ reader.pc = "session" /\ reader'.pc = "list" /\ store.session.form = "record"

LegacyLists ==
  /\ UNCHANGED <<reader.partial, reader.malformed, reader.changed, reader.error, reader.index,
                 reader.parts, emitted, seen, store>>
  /\ reader.pc = "list" /\ reader'.pc = "message" /\ store.there
  /\ reader'.messages = Ascending(Listed(store.messages))

LegacySkips ==
  /\ UNCHANGED <<reader.changed, reader.error, reader.parts, emitted, seen, store>>
  /\ reader.messages # <<>> /\ reader'.messages = Tail(reader.messages)
  /\ reader'.partial = TRUE /\ reader'.malformed \in Nat /\ reader'.index \in Nat /\ reader'.index >= reader.index
  /\ reader'.pc = "message"
  /\ \/ reader.pc = "message" /\ store.messages[Head(reader.messages)].form # "record"
     \/ /\ reader.pc = "parts"
        /\ Head(reader.messages) \notin store.dirs \/ Listed(store.parts[Head(reader.messages)]) = {}

LegacyOpens ==
  /\ UNCHANGED <<reader.partial, reader.malformed, reader.changed, reader.error,
                 reader.messages, reader.parts, emitted, store, seen.touched>>
  /\ reader.messages # <<>> /\ reader.pc = "message" /\ reader'.pc = "parts"
  /\ reader'.index \in Nat /\ reader'.index >= reader.index
  /\ store.messages[Head(reader.messages)].form = "record"
  /\ reader'.body = store.messages[Head(reader.messages)].rec
  /\ seen'.lines = Append(seen.lines, <<Head(reader.messages)>>)

LegacyEnters ==
  /\ UNCHANGED <<reader.partial, reader.malformed, reader.changed, reader.error, reader.index, reader.body,
                 reader.messages, emitted, seen, store>>
  /\ reader.pc = "parts" /\ reader'.pc = "part"
  /\ Head(reader.messages) \in store.dirs /\ Listed(store.parts[Head(reader.messages)]) # {}
  /\ reader'.parts = Ascending(Listed(store.parts[Head(reader.messages)]))

\* What reading a part leaves.
PartFile == store.parts[Head(reader.messages)][Head(reader.parts)]
PartLost(file) == file.form # "record" \/ OpenCode!PartWarned(file.rec)

LegacyTakes ==
  /\ UNCHANGED <<reader.changed, reader.error, reader.body, store, seen.touched>>
  /\ reader.pc = "part" /\ reader'.pc = IF Len(reader.parts) = 1 THEN "message" ELSE "part"
  /\ reader'.parts = Tail(reader.parts)
  /\ reader'.messages = IF Len(reader.parts) = 1 THEN Tail(reader.messages) ELSE reader.messages
  /\ reader'.malformed \in Nat
  /\ reader'.partial \in BOOLEAN /\ (reader'.partial <=> reader.partial \/ PartLost(PartFile))
  /\ \/ /\ PartFile.form # "record"
        /\ UNCHANGED <<emitted, seen>> /\ reader'.index \in Nat /\ reader'.index >= reader.index
     \/ /\ PartFile.form = "record"
        /\ emitted' = emitted \o PartSays(reader.body, PartFile.rec, reader.index)
        /\ seen'.lines = Append(seen.lines, <<Head(reader.messages), Head(reader.parts)>>)
        /\ reader'.index \in Nat /\ reader'.index > reader.index

LegacyEnds ==
  /\ UNCHANGED <<reader.malformed, reader.error, reader.index, reader.messages, reader.parts, emitted, seen, store>>
  /\ reader.pc = "message" /\ reader.messages = <<>> /\ reader'.pc = "done"
  /\ \/ reader'.changed = TRUE /\ reader'.partial = TRUE
     \/ UNCHANGED <<reader.changed, reader.partial>>

LegacyMove ==
  \/ UNCHANGED <<reader, emitted, seen, store>>
  \/ LegacyQuits \/ LegacyStarts \/ LegacyLists \/ LegacySkips \/ LegacyOpens
  \/ LegacyEnters \/ LegacyTakes \/ LegacyEnds
  \/ LegacyHarnessWrites

LEMMA LegacyMarked ==
  ASSUME LegacyType, NEW lost \in BOOLEAN, NEW bad \in Nat
  PROVE  LET marked == Marked(lost, bad)
         IN  /\ IsLegacyReader(marked) /\ marked.partial = (reader.partial \/ lost)
             /\ marked.malformed = reader.malformed + bad
             /\ marked.changed = reader.changed /\ marked.error = reader.error /\ marked.body = reader.body
             /\ marked.parts = reader.parts /\ marked.messages = reader.messages /\ marked.index = reader.index
             /\ marked.pc = reader.pc
<1>1. IsLegacyReader(reader)
  BY DEF LegacyType
<1>2. QED
  BY <1>1 DEF Marked, IsLegacyReader, LegacyFields

LEMMA LegacyMoves ==
  ASSUME LegacyType, harness = "legacy", [Next]_vars
  PROVE  LegacyMove /\ IsLegacyReader(reader)' /\ IsSeen(seen)'
<1>1. /\ IsLegacyReader(reader) /\ IsSeen(seen) /\ reader.partial \in BOOLEAN /\ reader.changed \in BOOLEAN
      /\ reader.malformed \in Nat /\ reader.index \in Nat
      /\ reader.pc = "part" => reader.parts # <<>>
      /\ reader.pc \in {"parts", "part"} => reader.messages # <<>>
  BY DEF LegacyType, Result
<1>0. reader.malformed \in Nat /\ reader.index \in Nat
  BY <1>1
<1>2. CASE LegacyStats \/ LegacyReadsSession
  <2>1. CASE \E code \in Errors \ {"none"} : Fail(code) /\ reader.pc # "done" /\ UNCHANGED <<emitted, seen, store>>
    <3>1. PICK code \in Errors \ {"none"} : Fail(code) /\ reader.pc # "done" /\ UNCHANGED <<emitted, seen, store>>
      BY <2>1
    <3>2. IsLegacyReader(reader)' /\ LegacyQuits
      BY <1>1, <3>1 DEF Fail, IsLegacyReader, LegacyFields, LegacyQuits
    <3>3. QED
      BY <1>1, <3>1, <3>2 DEF LegacyMove
  <2>2. CASE reader.pc = "stat" /\ reader' = [reader EXCEPT !.pc = "session", !.before = store.session.stamp]
             /\ UNCHANGED <<emitted, seen, store>>
    <3>1. IsLegacyReader(reader)' /\ LegacyStarts
      BY <1>1, <2>2 DEF IsLegacyReader, LegacyFields, LegacyStarts, LegacyRests
    <3>2. QED
      BY <1>1, <2>2, <3>1 DEF LegacyMove
  <2>3. CASE reader.pc = "session" /\ store.session.form \in {"large", "garbage"}
             /\ reader' = [Marked(TRUE, 1) EXCEPT !.pc = "done"] /\ UNCHANGED <<emitted, seen, store>>
    <3>1. ~reader.changed
      BY <2>3 DEF LegacyType
    <3> DEFINE marked == Marked(TRUE, 1)
    <3>2. IsLegacyReader(marked) /\ marked.partial = (reader.partial \/ TRUE) /\ marked.malformed = reader.malformed + 1
          /\ marked.changed = reader.changed /\ marked.error = reader.error
          /\ marked.parts = reader.parts /\ marked.messages = reader.messages /\ marked.index = reader.index
          /\ marked.pc = reader.pc
      BY LegacyMarked
    <3>3. reader' = [marked EXCEPT !.pc = "done"]
      BY <2>3
    <3> HIDE DEF marked
    <3>4. reader.malformed + 1 \in Nat
      BY <1>0
    <3>5. IsLegacyReader(reader)' /\ LegacyQuits
      BY <1>1, <2>3, <3>1, <3>2, <3>3, <3>4 DEF IsLegacyReader, LegacyFields, LegacyQuits, Early
    <3>6. QED
      BY <1>1, <2>3, <3>5 DEF LegacyMove
  <2>4. CASE reader.pc = "session" /\ store.session.form = "record"
             /\ reader' = [reader EXCEPT !.pc = "list"] /\ UNCHANGED <<emitted, seen, store>>
    <3>1. IsLegacyReader(reader)' /\ LegacyStarts
      BY <1>1, <2>4 DEF IsLegacyReader, LegacyFields, LegacyStarts, LegacyRests
    <3>2. QED
      BY <1>1, <2>4, <3>1 DEF LegacyMove
  <2>5. CASE LegacyStats
    <3>1. "read_error" \in Errors \ {"none"}
      BY DEF Errors
    <3>2. QED
      BY <2>1, <2>2, <2>5, <3>1 DEF LegacyStats
  <2>6. CASE LegacyReadsSession
    <3>1. "read_error" \in Errors \ {"none"}
      BY DEF Errors
    <3>2. reader.pc = "session" /\ UNCHANGED <<emitted, seen, store>>
      BY <2>6 DEF LegacyReadsSession
    <3>3. store.session.form \in {"record", "garbage", "large", "denied", "absent"}
      BY DEF LegacyType, LegacyStores
    <3>4. CASE store.session.form \in {"absent", "denied"}
      <4>1. Fail("read_error")
        BY <2>6, <3>4 DEF LegacyReadsSession
      <4>2. QED
        BY <2>1, <3>1, <3>2, <4>1
    <3>5. CASE store.session.form \in {"large", "garbage"}
      <4>1. reader' = [Marked(TRUE, 1) EXCEPT !.pc = "done"]
        BY <2>6, <3>5 DEF LegacyReadsSession
      <4>2. QED
        BY <2>3, <3>2, <3>5, <4>1
    <3>6. CASE store.session.form = "record"
      <4>1. reader' = [reader EXCEPT !.pc = "list"]
        BY <2>6, <3>6 DEF LegacyReadsSession
      <4>2. QED
        BY <2>4, <3>2, <3>6, <4>1
    <3>7. QED
      BY <3>3, <3>4, <3>5, <3>6
  <2>7. QED
    BY <1>2, <2>5, <2>6
<1>3. CASE SinkRefuses \/ ReadFails \/ NoticesCancel
  <2>1. PICK code \in Errors \ {"none"} : Fail(code) /\ UNCHANGED <<emitted, seen, store>>
    BY <1>3 DEF SinkRefuses, ReadFails, NoticesCancel, Errors
  <2>2. reader.pc # "done"
    BY <1>3 DEF SinkRefuses, ReadFails, NoticesCancel, SinkPoints, ReadPoints, CancelPoints
  <2>3. IsLegacyReader(reader)' /\ LegacyQuits
    BY <1>1, <2>1, <2>2 DEF Fail, IsLegacyReader, LegacyFields, LegacyQuits
  <2>4. QED
    BY <1>1, <2>1, <2>3 DEF LegacyMove
<1>4. CASE LegacyListsMessages
  <2>0. reader.pc = "list" /\ UNCHANGED <<emitted, seen, store>>
    BY <1>4 DEF LegacyListsMessages
  <2>1. CASE store.there
    <3> DEFINE sorted == Ascending(Listed(store.messages))
    <3>1. reader' = [reader EXCEPT !.pc = "message", !.messages = sorted]
      BY <1>4, <2>1 DEF LegacyListsMessages
    <3> HIDE DEF sorted
    <3>2. /\ IsLegacyReader(reader)'
          /\ UNCHANGED <<reader.partial, reader.malformed, reader.changed, reader.error, reader.index, reader.parts>>
          /\ reader'.pc = "message" /\ reader'.messages = sorted
      BY <1>1, <3>1 DEF IsLegacyReader, LegacyFields
    <3>3. LegacyLists
      BY <2>0, <2>1, <3>2 DEF LegacyLists, sorted
    <3>4. QED
      BY <1>1, <2>0, <3>2, <3>3 DEF LegacyMove
  <2>2. CASE ~store.there
    <3>1. reader' = [Marked(TRUE, 0) EXCEPT !.pc = "done"] /\ ~reader.changed
      BY <1>4, <2>2 DEF LegacyListsMessages, LegacyType
    <3> DEFINE marked == Marked(TRUE, 0)
    <3>2. IsLegacyReader(marked) /\ marked.partial = (reader.partial \/ TRUE) /\ marked.malformed = reader.malformed + 0
          /\ marked.changed = reader.changed /\ marked.error = reader.error
          /\ marked.parts = reader.parts /\ marked.messages = reader.messages /\ marked.index = reader.index
          /\ marked.pc = reader.pc
      BY LegacyMarked
    <3>3. reader' = [marked EXCEPT !.pc = "done"]
      BY <3>1
    <3> HIDE DEF marked
    <3>4. reader.malformed + 0 \in Nat
      BY <1>0
    <3>5. IsLegacyReader(reader)' /\ LegacyQuits
      BY <1>1, <2>0, <2>2, <3>1, <3>2, <3>3, <3>4 DEF IsLegacyReader, LegacyFields, LegacyQuits, Early
    <3>6. QED
      BY <1>1, <2>0, <3>5 DEF LegacyMove
  <2>3. QED
    BY <2>1, <2>2
<1>5. CASE LegacyReadsMessage
  <2> DEFINE name == Head(reader.messages)
             file == store.messages[name]
  <2>0. reader.pc = "message" /\ reader.messages # <<>> /\ UNCHANGED store
    BY <1>5 DEF LegacyReadsMessage, Turn
  <2>1. CASE file.form \in {"absent", "denied", "large"}
    <3>1. reader' = [Marked(TRUE, 0) EXCEPT !.messages = Tail(@)] /\ UNCHANGED <<emitted, seen>>
      BY <1>5, <2>1 DEF LegacyReadsMessage
    <3> DEFINE marked == Marked(TRUE, 0)
    <3>2. IsLegacyReader(marked) /\ marked.partial = (reader.partial \/ TRUE) /\ marked.malformed = reader.malformed + 0
          /\ marked.changed = reader.changed /\ marked.error = reader.error
          /\ marked.parts = reader.parts /\ marked.messages = reader.messages /\ marked.index = reader.index
          /\ marked.pc = reader.pc
      BY LegacyMarked
    <3>3. reader' = [marked EXCEPT !.messages = Tail(@)]
      BY <3>1
    <3> HIDE DEF marked
    <3>4. reader.malformed + 0 \in Nat /\ reader.index + 0 \in Nat /\ reader.index + 0 >= reader.index
          /\ reader.index >= reader.index
      BY <1>0
    <3>5. /\ IsLegacyReader(reader)' /\ UNCHANGED <<reader.changed, reader.error, reader.parts>>
          /\ reader'.partial = TRUE /\ reader'.malformed = reader.malformed + 0
          /\ reader'.messages = Tail(reader.messages) /\ reader'.index = reader.index /\ reader'.pc = "message"
      BY <1>1, <2>0, <2>1, <3>2, <3>3 DEF IsLegacyReader, LegacyFields
    <3>6. LegacySkips
      BY <1>1, <2>0, <2>1, <3>1, <3>4, <3>5 DEF LegacySkips
    <3>7. QED
      BY <1>1, <3>1, <3>5, <3>6 DEF LegacyMove
  <2>2. CASE file.form = "garbage"
    <3>1. reader' = [Marked(TRUE, 1) EXCEPT !.messages = Tail(@), !.index = @ + 1] /\ UNCHANGED <<emitted, seen>>
      BY <1>5, <2>2 DEF LegacyReadsMessage
    <3> DEFINE marked == Marked(TRUE, 1)
    <3>2. IsLegacyReader(marked) /\ marked.partial = (reader.partial \/ TRUE) /\ marked.malformed = reader.malformed + 1
          /\ marked.changed = reader.changed /\ marked.error = reader.error
          /\ marked.parts = reader.parts /\ marked.messages = reader.messages /\ marked.index = reader.index
          /\ marked.pc = reader.pc
      BY LegacyMarked
    <3>3. reader' = [marked EXCEPT !.messages = Tail(@), !.index = @ + 1]
      BY <3>1
    <3> HIDE DEF marked
    <3>4. reader.malformed + 1 \in Nat /\ reader.index + 1 \in Nat /\ reader.index + 1 >= reader.index
          /\ reader.index >= reader.index
      BY <1>0
    <3>5. /\ IsLegacyReader(reader)' /\ UNCHANGED <<reader.changed, reader.error, reader.parts>>
          /\ reader'.partial = TRUE /\ reader'.malformed = reader.malformed + 1
          /\ reader'.messages = Tail(reader.messages) /\ reader'.index = reader.index + 1 /\ reader'.pc = "message"
      BY <1>1, <2>0, <2>2, <3>2, <3>3 DEF IsLegacyReader, LegacyFields
    <3>6. LegacySkips
      BY <1>1, <2>0, <2>2, <3>1, <3>4, <3>5 DEF LegacySkips
    <3>7. QED
      BY <1>1, <3>1, <3>5, <3>6 DEF LegacyMove
  <2>3. CASE file.form = "record"
    <3>1. /\ reader' = [reader EXCEPT !.pc = "parts", !.body = file.rec, !.index = @ + 1]
          /\ Emit(<<OpenCode!MapMessageMetadata(file.rec, reader.index)>>)
          /\ seen' = [seen EXCEPT !.lines = Append(@, <<name>>)]
      BY <1>5, <2>3 DEF LegacyReadsMessage
    <3>2. emitted' = emitted
      <4>1. emitted' = emitted \o <<>>
        BY <3>1, OpenCodeMetadata DEF Emit
      <4>2. emitted \in Seq(Messages)
        BY DEF LegacyType
      <4>3. QED
        BY <4>1, <4>2
    <3> DEFINE told == <<name>>
    <3>3. seen' = [seen EXCEPT !.lines = Append(@, told)]
      BY <3>1
    <3> HIDE DEF told
    <3>4. IsSeen(seen)' /\ seen'.lines = Append(seen.lines, told) /\ UNCHANGED seen.touched
      BY <1>1, <3>3 DEF IsSeen
    <3> HIDE DEF file
    <3>5. /\ IsLegacyReader(reader)' /\ reader'.pc = "parts" /\ reader'.body = file.rec
          /\ reader'.index = reader.index + 1
          /\ UNCHANGED <<reader.partial, reader.malformed, reader.changed, reader.error, reader.messages, reader.parts>>
      BY <1>1, <3>1 DEF IsLegacyReader, LegacyFields
    <3>6. reader'.index \in Nat /\ reader'.index >= reader.index
      <4>1. reader.index \in Nat /\ reader'.index = reader.index + 1
        BY <1>0, <3>5
      <4>2. QED
        BY ONLY <4>1
    <3>7. LegacyOpens
      BY <2>0, <2>3, <3>2, <3>4, <3>5, <3>6 DEF LegacyOpens, told, file
    <3>8. QED
      BY <3>4, <3>5, <3>7 DEF LegacyMove
  <2>4. file.form \in {"record", "garbage", "large", "denied", "absent"}
    <3>1. name \in Names
      BY <2>0, SortsTail DEF LegacyType
    <3>2. store.messages \in [Names -> FileOf(OpenCode!MessageRecords)]
      BY DEF LegacyType, LegacyStores
    <3>3. QED
      BY <3>1, <3>2 DEF FileOf
  <2>5. QED
    BY <2>1, <2>2, <2>3, <2>4
<1>6. CASE LegacyListsParts
  <2> DEFINE name == Head(reader.messages)
             parts == Listed(store.parts[name])
  <2>0. reader.pc = "parts" /\ UNCHANGED <<store, emitted, seen>> /\ reader.messages # <<>>
    BY <1>1, <1>6 DEF LegacyListsParts
  <2>1. CASE name \in store.dirs /\ parts # {}
    <3> DEFINE sorted == Ascending(parts)
    <3>1. reader' = [reader EXCEPT !.pc = "part", !.parts = sorted]
      BY <1>6, <2>1 DEF LegacyListsParts
    <3> HIDE DEF sorted
    <3>2. /\ IsLegacyReader(reader)'
          /\ UNCHANGED <<reader.partial, reader.malformed, reader.changed, reader.error, reader.index,
                         reader.body, reader.messages>>
          /\ reader'.pc = "part" /\ reader'.parts = sorted
      BY <1>1, <3>1 DEF IsLegacyReader, LegacyFields
    <3>3. LegacyEnters
      BY <2>0, <2>1, <3>2 DEF LegacyEnters, sorted
    <3>4. QED
      BY <1>1, <2>0, <3>2, <3>3 DEF LegacyMove
  <2>2. CASE ~(name \in store.dirs /\ parts # {})
    <3>1. reader' = [Marked(TRUE, 0) EXCEPT !.pc = "message", !.messages = Tail(@)]
      BY <1>6, <2>2 DEF LegacyListsParts
    <3> DEFINE marked == Marked(TRUE, 0)
    <3>2. IsLegacyReader(marked) /\ marked.partial = (reader.partial \/ TRUE) /\ marked.malformed = reader.malformed + 0
          /\ marked.changed = reader.changed /\ marked.error = reader.error
          /\ marked.parts = reader.parts /\ marked.messages = reader.messages /\ marked.index = reader.index
          /\ marked.pc = reader.pc
      BY LegacyMarked
    <3>3. reader' = [marked EXCEPT !.pc = "message", !.messages = Tail(@)]
      BY <3>1
    <3> HIDE DEF marked
    <3>4. reader.malformed + 0 \in Nat /\ reader.index + 0 \in Nat /\ reader.index + 0 >= reader.index
          /\ reader.index >= reader.index
      BY <1>0
    <3>5. /\ IsLegacyReader(reader)' /\ UNCHANGED <<reader.changed, reader.error, reader.parts>>
          /\ reader'.partial = TRUE /\ reader'.malformed = reader.malformed + 0
          /\ reader'.messages = Tail(reader.messages) /\ reader'.index = reader.index /\ reader'.pc = "message"
      BY <1>1, <2>0, <2>2, <3>2, <3>3 DEF IsLegacyReader, LegacyFields
    <3>6. LegacySkips
      BY <1>1, <2>0, <2>2, <3>1, <3>4, <3>5 DEF LegacySkips
    <3>7. QED
      BY <1>1, <2>0, <3>5, <3>6 DEF LegacyMove
  <2>3. QED
    BY <2>1, <2>2
<1>7. CASE LegacyReadsPart
  <2> DEFINE file == store.parts[Head(reader.messages)][Head(reader.parts)]
             last == Len(reader.parts) = 1
             pc == IF last THEN "message" ELSE "part"
             messages == IF last THEN Tail(reader.messages) ELSE reader.messages
             events == OpenCode!PartEvents(reader.body, file.rec, reader.index)
             more == Len(events)
  <2>0. reader.pc = "part" /\ UNCHANGED store /\ PartFile = file /\ reader.messages # <<>> /\ reader.parts # <<>>
    BY <1>1, <1>7 DEF LegacyReadsPart, Turn, PartFile
  <2>1. ASSUME NEW lost \in BOOLEAN, NEW bad \in Nat, NEW extra \in Nat,
               reader' = PartDone(Marked(lost, bad), extra)
        PROVE  /\ IsLegacyReader(reader)' /\ UNCHANGED <<reader.changed, reader.error, reader.body>>
               /\ reader'.pc = pc /\ reader'.messages = messages /\ reader'.parts = Tail(reader.parts)
               /\ reader'.partial = (reader.partial \/ lost) /\ reader'.malformed = reader.malformed + bad
               /\ reader'.index = reader.index + extra
    <3> DEFINE marked == Marked(lost, bad)
    <3>1. /\ IsLegacyReader(marked) /\ marked.partial = (reader.partial \/ lost)
          /\ marked.malformed = reader.malformed + bad
          /\ marked.changed = reader.changed /\ marked.error = reader.error /\ marked.body = reader.body
          /\ marked.parts = reader.parts /\ marked.messages = reader.messages /\ marked.index = reader.index
      BY <1>1 DEF Marked, IsLegacyReader, LegacyFields
    <3> HIDE DEF marked
    <3>2. reader' = [marked EXCEPT !.parts = Tail(@), !.messages = IF last THEN Tail(@) ELSE @,
                                   !.pc = IF last THEN "message" ELSE "part", !.index = @ + extra]
      BY <2>1 DEF PartDone, marked
    <3> HIDE DEF last
    <3>3. QED
      BY <3>1, <3>2 DEF IsLegacyReader, LegacyFields
  <2>2. CASE file.form \in {"absent", "denied", "large", "garbage"}
    <3>1. PICK bad \in {0, 1} : reader' = PartDone(Marked(TRUE, bad), bad) /\ UNCHANGED <<emitted, seen>>
      BY <1>7, <2>2 DEF LegacyReadsPart
    <3>2. /\ IsLegacyReader(reader)' /\ UNCHANGED <<reader.changed, reader.error, reader.body>>
          /\ reader'.pc = pc /\ reader'.messages = messages /\ reader'.parts = Tail(reader.parts)
          /\ reader'.partial = (reader.partial \/ TRUE) /\ reader'.malformed = reader.malformed + bad
          /\ reader'.index = reader.index + bad
      <4> HIDE DEF file, messages, pc
      <4>1. TRUE \in BOOLEAN /\ bad \in Nat /\ reader' = PartDone(Marked(TRUE, bad), bad)
        BY <3>1
      <4>2. QED
        BY <2>1, <4>1
    <3>3. reader'.partial = TRUE /\ PartLost(file) /\ file.form # "record"
      BY <2>2, <3>2 DEF PartLost
    <3>4. reader'.malformed \in Nat /\ reader'.index \in Nat /\ reader'.index >= reader.index
      <4>1. /\ reader.index \in Nat /\ reader.malformed \in Nat /\ bad \in Nat
            /\ reader'.index = reader.index + bad /\ reader'.malformed = reader.malformed + bad
        BY <1>0, <3>2
      <4>2. QED
        BY ONLY <4>1
    <3> HIDE DEF file
    <3>5. LegacyTakes
      BY <2>0, <3>1, <3>2, <3>3, <3>4 DEF LegacyTakes
    <3>6. QED
      BY <1>1, <3>1, <3>2, <3>5 DEF LegacyMove
  <2>3. CASE file.form = "record"
    <3> DEFINE lost == OpenCode!PartWarned(file.rec)
               told == <<Head(reader.messages), Head(reader.parts)>>
    <3>1. /\ reader' = PartDone(Marked(lost, 0), more)
          /\ Emit(events)
          /\ seen' = [seen EXCEPT !.lines = Append(@, told)]
      BY <1>7, <2>3 DEF LegacyReadsPart
    <3>2. more \in {1, 2} /\ emitted' = emitted \o PartSays(reader.body, file.rec, reader.index)
      BY <3>1, OpenCodePartTold DEF Emit
    <3>3. lost \in BOOLEAN
      BY DEF OpenCode!PartWarned
    <3>4. PartLost(file) <=> lost
      BY <2>3 DEF PartLost
    <3> HIDE DEF lost, told, more, events, file
    <3>5. /\ IsLegacyReader(reader)' /\ UNCHANGED <<reader.changed, reader.error, reader.body>>
          /\ reader'.pc = pc /\ reader'.messages = messages /\ reader'.parts = Tail(reader.parts)
          /\ reader'.partial = (reader.partial \/ lost) /\ reader'.malformed = reader.malformed + 0
          /\ reader'.index = reader.index + more
      <4>1. more \in Nat /\ 0 \in Nat
        BY <3>2
      <4>2. QED
        BY <2>1, <3>1, <3>3, <4>1
    <3>6. reader'.malformed \in Nat /\ reader'.index \in Nat /\ reader'.index > reader.index
      <4>1. /\ reader.index \in Nat /\ reader.malformed \in Nat /\ more \in {1, 2}
            /\ reader'.index = reader.index + more /\ reader'.malformed = reader.malformed + 0
        BY <1>0, <3>2, <3>5
      <4>2. QED
        BY ONLY <4>1
    <3>7. IsSeen(seen)' /\ seen'.lines = Append(seen.lines, told) /\ UNCHANGED seen.touched
      BY <1>1, <3>1 DEF IsSeen
    <3>8. reader'.partial \in BOOLEAN /\ (reader'.partial <=> reader.partial \/ PartLost(file))
      BY <1>1, <3>3, <3>4, <3>5, Zenon
    <3>9. LegacyTakes
      BY <2>0, <2>3, <3>2, <3>5, <3>6, <3>7, <3>8 DEF LegacyTakes, told
    <3>10. QED
      BY <3>5, <3>7, <3>9 DEF LegacyMove
  <2>4. file.form \in {"record", "garbage", "large", "denied", "absent"}
    <3>1. Head(reader.messages) \in Names /\ Head(reader.parts) \in Names
      BY <2>0, SortsTail DEF LegacyType
    <3>2. store.parts \in [Names -> [Names -> FileOf(OpenCode!PartRecords)]]
      BY DEF LegacyType, LegacyStores
    <3>3. QED
      BY <3>1, <3>2 DEF FileOf
  <2>5. QED
    BY <2>2, <2>3, <2>4
<1>8. CASE LegacyStatsAfter
  <2>1. reader.pc = "message" /\ reader.messages = <<>> /\ UNCHANGED <<store, emitted, seen>>
    BY <1>8 DEF LegacyStatsAfter
  <2>2. CASE reader' = [reader EXCEPT !.pc = "done", !.changed = TRUE, !.partial = TRUE]
    <3>1. IsLegacyReader(reader)' /\ LegacyEnds
      BY <1>1, <2>1, <2>2 DEF IsLegacyReader, LegacyFields, LegacyEnds
    <3>2. QED
      BY <1>1, <2>1, <3>1 DEF LegacyMove
  <2>3. CASE reader' = [reader EXCEPT !.pc = "done"]
    <3>1. IsLegacyReader(reader)' /\ LegacyEnds
      BY <1>1, <2>1, <2>3 DEF IsLegacyReader, LegacyFields, LegacyEnds
    <3>2. QED
      BY <1>1, <2>1, <3>1 DEF LegacyMove
  <2>4. QED
    BY <1>8, <2>2, <2>3 DEF LegacyStatsAfter
<1>9. CASE LegacyHarnessWrites
  <2>1. UNCHANGED reader
    BY <1>9 DEF LegacyHarnessWrites
  <2>2. \E touched : seen' = [seen EXCEPT !.touched = touched]
    BY <1>9 DEF LegacyHarnessWrites
  <2>3. PICK touched : seen' = [seen EXCEPT !.touched = touched]
    BY <2>2
  <2>4. IsSeen(seen)'
    BY <1>1, <2>3 DEF IsSeen
  <2>5. QED
    BY <1>1, <1>9, <2>1, <2>4 DEF LegacyMove, IsLegacyReader
<1>10. CASE Cancel \/ UNCHANGED vars
  <2>1. UNCHANGED <<store, reader, emitted, seen>>
    BY <1>10 DEF Cancel, vars
  <2>2. QED
    BY <1>1, <2>1 DEF LegacyMove, IsLegacyReader, IsSeen
<1>11. CASE \/ StatsBefore \/ Opens \/ FindsNothing \/ Fills \/ StatsAfter
            \/ ClaudeReadsLine \/ CodexReadsLine \/ EndOfFile
            \/ PiIndexesLine \/ PiAnalyzes \/ PiEmits \/ PiEnds
            \/ SQLiteBegins \/ SQLiteReadsSession \/ SQLiteReadsRow \/ SQLiteEnds
            \/ Discovers \/ WalkFails \/ Writes
            \/ SQLiteHarnessCommits \/ WalkHarnessCreates \/ WalkHarnessRemoves
  BY <1>11 DEF StatsBefore, Opens, FindsNothing, Fills, StatsAfter, ClaudeReadsLine, CodexReadsLine, EndOfFile,
     PiIndexesLine, PiAnalyzes, PiEmits, PiEnds, SQLiteBegins, SQLiteReadsSession, SQLiteReadsRow, SQLiteEnds,
     Discovers, WalkDetects, WalkOpensBase, WalkEntersDirectory, WalkVisits, WalkEndsBase, WalkFails, Writes,
     HarnessAppends, HarnessCompletes, HarnessRewrites, HarnessReplaces, HarnessRemoves,
     SQLiteHarnessCommits, WalkHarnessCreates, WalkHarnessRemoves, Turn, Walking, ReadsLines, LineHarnesses
<1>12. QED
  BY <1>2, <1>3, <1>4, <1>5, <1>6, <1>7, <1>8, <1>9, <1>10, <1>11 DEF Next, Parses, Fails, Harness, Writes

LEMMA LegacyStarting == Init /\ harness = "legacy" => LegacyType /\ seen.touched = {} /\ reader.pc = "stat"
<1> SUFFICES ASSUME Init, harness = "legacy" PROVE LegacyType /\ seen.touched = {} /\ reader.pc = "stat"
  OBVIOUS
<1>1. store \in LegacyStores
  BY StoresAssumption DEF Init
<1>2. reader = With(NoResult, [pc |-> "stat", before |-> 0, messages |-> <<>>, body |-> NoBody, parts |-> <<>>, index |-> 1])
  BY DEF Init, Start, LineHarnesses
<1>3. /\ IsLegacyReader(reader) /\ reader.pc = "stat" /\ reader.messages = <<>> /\ reader.parts = <<>>
      /\ reader.index = 1 /\ reader.partial = FALSE /\ reader.changed = FALSE /\ reader.malformed = 0
      /\ reader.error = "none"
  BY <1>2, ZenonT(60) DEF With, NoResult, IsLegacyReader, LegacyFields
<1>4. /\ IsSeen(seen) /\ seen.lines = <<>> /\ seen.touched = {} /\ emitted = <<>>
  BY DEF Init, IsSeen
<1>5. Sorts(<<>>)
  <2>1. ToSet(<<>>) = {}
    BY DEF ToSet
  <2>2. QED
    BY <2>1, AscendingNone DEF Sorts
<1>6. Result
  <2>1. reader.error \in Errors /\ reader.malformed \in Nat
    BY <1>3 DEF Errors
  <2>2. QED
    BY <1>3, <2>1, Zenon DEF Result
<1>7. <<>> \in Seq(Seq(Names)) /\ <<>> \in Seq(Messages) /\ Distinct(<<>>) /\ Positions(<<>>) = {}
  BY DEF Distinct, Positions
<1>8. QED
  BY <1>1, <1>3, <1>4, <1>5, <1>6, <1>7 DEF LegacyType, Early

\* What the harness did not touch is as it was.
Untouched ==
  /\ \A name \in Names : <<name>> \notin seen'.touched =>
       <<name>> \notin seen.touched /\ store'.messages[name] = store.messages[name]
  /\ \A name, part \in Names : <<name, part>> \notin seen'.touched =>
       <<name, part>> \notin seen.touched /\ store'.parts[name][part] = store.parts[name][part]
  /\ <<>> \notin seen'.touched => <<>> \notin seen.touched /\ store'.session = store.session

\* A store with some of its fields.
LEMMA LegacyStoreIs ==
  ASSUME NEW files \in LegacyStores
  PROVE  /\ files = [session |-> files.session, there |-> files.there, messages |-> files.messages,
                     dirs |-> files.dirs, parts |-> files.parts]
         /\ files.session \in [form : {"record", "garbage", "large", "denied", "absent"}, stamp : Nat]
         /\ files.there \in BOOLEAN /\ files.messages \in [Names -> FileOf(OpenCode!MessageRecords)]
         /\ files.dirs \in SUBSET Names /\ files.parts \in [Names -> [Names -> FileOf(OpenCode!PartRecords)]]
         /\ \A name \in Names :
              /\ files.messages[name].form # "absent" => files.there
              /\ \A part \in Names : files.parts[name][part].form # "absent" => name \in files.dirs
BY DEF LegacyStores

LEMMA LegacyWriting ==
  ASSUME LegacyType, LegacyHarnessWrites
  PROVE  /\ store' \in LegacyStores /\ UNCHANGED <<reader, emitted, seen.lines>> /\ reader.pc # "done"
         /\ seen'.touched # {} /\ Untouched
<1>0. UNCHANGED <<reader, emitted>> /\ reader.pc # "done" /\ IsSeen(seen) /\ store \in LegacyStores
  BY DEF LegacyHarnessWrites, MayWrite, Running, LegacyType
<1>1. ASSUME NEW name \in Names, NEW file \in MessageFiles,
             store' = [store EXCEPT !.there = TRUE, !.messages[name] = file],
             seen' = [seen EXCEPT !.touched = @ \cup {<<name>>}]
      PROVE  store' \in LegacyStores /\ UNCHANGED seen.lines /\ seen'.touched # {} /\ Untouched
  <2> DEFINE messages == [store.messages EXCEPT ![name] = file]
  <2>1. store' = [session |-> store.session, there |-> TRUE, messages |-> messages,
                  dirs |-> store.dirs, parts |-> store.parts]
    <3>1. store' = [store EXCEPT !.there = TRUE, !.messages = messages]
      BY <1>1
    <3>0. store = [session |-> store.session, there |-> store.there, messages |-> store.messages,
                   dirs |-> store.dirs, parts |-> store.parts]
      BY <1>0, LegacyStoreIs
    <3> HIDE DEF messages
    <3>2. QED
      BY <3>0, <3>1
  <2>2. UNCHANGED seen.lines /\ seen'.touched = seen.touched \cup {<<name>>}
    BY <1>0, <1>1 DEF IsSeen
  <2>3. file \in FileOf(OpenCode!MessageRecords)
    BY StoresAssumption
  <2>4. messages \in [Names -> FileOf(OpenCode!MessageRecords)] /\ \A n \in Names : n # name => messages[n] = store.messages[n]
    BY <1>0, <2>3, LegacyStoreIs
  <2> HIDE DEF messages
  <2>5. store' \in LegacyStores
    BY <1>0, <2>1, <2>4, LegacyStoreIs DEF LegacyStores
  <2>6. \A n \in Names : <<n>> \notin seen'.touched => n # name
    BY <2>2
  <2>7. Untouched
    BY <2>1, <2>2, <2>4, <2>6 DEF Untouched
  <2>8. QED
    BY <2>2, <2>5, <2>7
<1>2. ASSUME NEW name \in Names, NEW part \in Names, NEW file \in PartFiles,
             store' = [store EXCEPT !.dirs = @ \cup {name}, !.parts[name][part] = file],
             seen' = [seen EXCEPT !.touched = @ \cup {<<name, part>>}]
      PROVE  store' \in LegacyStores /\ UNCHANGED seen.lines /\ seen'.touched # {} /\ Untouched
  <2> DEFINE those == [store.parts[name] EXCEPT ![part] = file]
             parts == [store.parts EXCEPT ![name] = those]
             dirs == store.dirs \cup {name}
  <2>1. store' = [session |-> store.session, there |-> store.there, messages |-> store.messages,
                  dirs |-> dirs, parts |-> parts]
    <3>1. store' = [store EXCEPT !.dirs = dirs, !.parts = parts]
      BY <1>2
    <3>0. store = [session |-> store.session, there |-> store.there, messages |-> store.messages,
                   dirs |-> store.dirs, parts |-> store.parts]
      BY <1>0, LegacyStoreIs
    <3> HIDE DEF dirs, parts
    <3>2. QED
      BY <3>0, <3>1
  <2>2. UNCHANGED seen.lines /\ seen'.touched = seen.touched \cup {<<name, part>>}
    BY <1>0, <1>2 DEF IsSeen
  <2> DEFINE S == FileOf(OpenCode!PartRecords)
  <2>3. file \in S
    BY StoresAssumption
  <2>4. store.parts \in [Names -> [Names -> S]] /\ store.dirs \in SUBSET Names
    BY <1>0, LegacyStoreIs
  <2> HIDE DEF S
  <2>5. those \in [Names -> S] /\ \A p \in Names : p # part => those[p] = store.parts[name][p]
    BY <2>3, <2>4
  <2> HIDE DEF those
  <2>6. parts \in [Names -> [Names -> S]] /\ parts[name] = those /\ \A n \in Names : n # name => parts[n] = store.parts[n]
    BY <2>4, <2>5
  <2>7. dirs \in SUBSET Names /\ store.dirs \subseteq dirs /\ name \in dirs
    BY <2>4
  <2> HIDE DEF parts, dirs
  <2>8. \A n \in Names : \A p \in Names : parts[n][p].form # "absent" => n \in dirs
    BY <1>0, <2>6, <2>7, LegacyStoreIs
  <2>9. store' \in LegacyStores
    <3>1. \A n \in Names : store.messages[n].form # "absent" => store.there
      BY <1>0, LegacyStoreIs
    <3>2. store.session \in [form : {"record", "garbage", "large", "denied", "absent"}, stamp : Nat]
          /\ store.there \in BOOLEAN /\ store.messages \in [Names -> FileOf(OpenCode!MessageRecords)]
      BY <1>0, LegacyStoreIs
    <3>3. QED
      BY <2>1, <2>6, <2>7, <2>8, <3>1, <3>2 DEF LegacyStores, S
  <2>10. \A n, p \in Names : <<n, p>> \notin seen'.touched => n # name \/ p # part
    BY <2>2
  <2>11. \A n, p \in Names : n # name \/ p # part => parts[n][p] = store.parts[n][p]
    BY <2>5, <2>6
  <2>12. Untouched
    BY <2>1, <2>2, <2>10, <2>11 DEF Untouched
  <2>13. QED
    BY <2>2, <2>9, <2>12
<1>3. ASSUME NEW form \in {"record", "absent"},
             store' = [store EXCEPT !.session = [form |-> form, stamp |-> @.stamp + 1]],
             seen' = [seen EXCEPT !.touched = @ \cup {<<>>}]
      PROVE  store' \in LegacyStores /\ UNCHANGED seen.lines /\ seen'.touched # {} /\ Untouched
  <2> DEFINE session == [form |-> form, stamp |-> store.session.stamp + 1]
  <2>1. store' = [session |-> session, there |-> store.there, messages |-> store.messages,
                  dirs |-> store.dirs, parts |-> store.parts]
    BY <1>0, <1>3, LegacyStoreIs
  <2>2. UNCHANGED seen.lines /\ seen'.touched = seen.touched \cup {<<>>}
    BY <1>0, <1>3 DEF IsSeen
  <2>3. session \in [form : {"record", "garbage", "large", "denied", "absent"}, stamp : Nat]
    BY <1>0, LegacyStoreIs
  <2> HIDE DEF session
  <2>4. store' \in LegacyStores
    BY <1>0, <2>1, <2>3, LegacyStoreIs DEF LegacyStores
  <2>5. Untouched
    BY <2>1, <2>2 DEF Untouched
  <2>6. QED
    BY <2>2, <2>4, <2>5
<1>4. QED
  BY <1>0, <1>1, <1>2, <1>3 DEF LegacyHarnessWrites

\* A part's message is at the index the reader is at.
LEMMA PartSaysOne ==
  ASSUME NEW message, NEW part, NEW index \in Nat
  PROVE  OneAt(PartSays(message, part, index), index)
<1> DEFINE m == [speaker |-> message.role, pos |-> index, parts |-> <<"words">>]
<1>1. message.role \in {"user", "assistant"} => m \in Messages /\ m.pos = index
  BY DEF Messages
<1>2. PartSays(message, part, index) \in {<<>>, <<m>>}
      /\ (PartSays(message, part, index) = <<m>> => message.role \in {"user", "assistant"} \/ <<m>> = <<>>)
  BY DEF PartSays
<1> HIDE DEF m
<1>3. QED
  BY <1>1, <1>2 DEF OneAt

LEMMA LegacyTypeStep ==
  ASSUME LegacyType, LegacyMove, IsLegacyReader(reader)', IsSeen(seen)'
  PROVE  LegacyType'
<1>1. /\ store \in LegacyStores /\ Sorts(reader.messages) /\ Sorts(reader.parts) /\ reader.index \in Nat
      /\ reader.partial \in BOOLEAN /\ reader.changed \in BOOLEAN /\ reader.malformed \in Nat
      /\ reader.error \in Errors /\ seen.lines \in Seq(Seq(Names))
      /\ emitted \in Seq(Messages) /\ Distinct(emitted)
      /\ \A p \in Positions(emitted) : p < reader.index
      /\ Positions(emitted) \in SUBSET Nat
  <2>1. \A i \in DOMAIN emitted : emitted[i] \in Messages
    BY DEF LegacyType
  <2>2. Positions(emitted) \in SUBSET Nat
    BY <2>1 DEF Positions, Messages
  <2>3. QED
    BY <2>2 DEF LegacyType, Result
<1>2. \A n \in Nat : n >= reader.index => \A p \in Positions(emitted) : p < n
  BY <1>1
<1>3. CASE UNCHANGED <<reader, emitted, seen, store>>
  BY <1>3 DEF LegacyType, Result, Distinct, Positions, IsLegacyReader, IsSeen
<1>4. CASE LegacyQuits
  <2>1. Result'
    <3>1. /\ reader'.partial = TRUE /\ reader'.changed = FALSE /\ reader'.malformed \in Nat /\ reader'.error \in Errors
      BY <1>1, <1>4 DEF LegacyQuits
    <3>2. QED
      BY <3>1 DEF Result
  <2>2. UNCHANGED <<reader.index, reader.messages, reader.parts, emitted, seen, store>> /\ reader'.pc = "done"
    BY <1>4 DEF LegacyQuits
  <2>3. QED
    BY <1>1, <2>1, <2>2 DEF LegacyType, Distinct, Positions, Early
<1>5. CASE LegacyStarts
  BY <1>5 DEF LegacyStarts, LegacyRests, LegacyType, Result, Distinct, Positions, Early
<1>6. CASE LegacyLists
  <2>1. Listed(store.messages) \in SUBSET Names
    BY DEF Listed
  <2>2. Sorts(reader.messages)'
    BY <1>6, <2>1, SortsAscending DEF LegacyLists
  <2>3. QED
    BY <1>6, <2>2 DEF LegacyLists, LegacyType, Result, Distinct, Positions, Early
<1>7. CASE LegacySkips
  <2>1. Sorts(reader.messages)'
    BY <1>1, <1>7, SortsTail DEF LegacySkips
  <2>2. /\ UNCHANGED <<reader.changed, reader.error, reader.parts, emitted, seen, store>>
        /\ reader'.partial = TRUE /\ reader'.malformed \in Nat
        /\ reader'.index \in Nat /\ reader'.index >= reader.index /\ reader'.pc = "message" /\ reader.pc # "done"
    BY <1>7 DEF LegacySkips
  <2>3. Result'
    BY <1>1, <2>2 DEF Result
  <2>4. \A p \in Positions(emitted') : p < reader'.index
    BY <1>2, <2>2
  <2>5. QED
    BY <1>1, <2>1, <2>2, <2>3, <2>4 DEF LegacyType, Distinct, Positions, Early
<1>8. CASE LegacyOpens
  <2>1. Head(reader.messages) \in Names
    BY <1>1, <1>8, SortsTail DEF LegacyOpens
  <2>2. seen'.lines \in Seq(Seq(Names))
    <3> DEFINE told == <<Head(reader.messages)>>
    <3>1. told \in Seq(Names) /\ seen'.lines = Append(seen.lines, told)
      BY <1>8, <2>1 DEF LegacyOpens
    <3> HIDE DEF told
    <3>2. QED
      BY <1>1, <3>1
  <2>3. /\ UNCHANGED <<reader.partial, reader.malformed, reader.changed, reader.error,
                       reader.messages, reader.parts, emitted, store>>
        /\ reader'.index \in Nat /\ reader'.index >= reader.index /\ reader'.pc = "parts" /\ reader.pc # "done"
        /\ reader.messages # <<>>
    BY <1>8 DEF LegacyOpens
  <2>4. \A p \in Positions(emitted') : p < reader'.index
    BY <1>2, <2>3
  <2>5. Result'
    BY <2>3 DEF Result, LegacyType
  <2>6. QED
    BY <1>1, <2>2, <2>3, <2>4, <2>5 DEF LegacyType, Distinct, Positions, Early
<1>9. CASE LegacyEnters
  <2> DEFINE those == Listed(store.parts[Head(reader.messages)])
  <2>1. those \in SUBSET Names
    BY DEF Listed
  <2>2. Sorts(Ascending(those)) /\ (Ascending(those) = <<>> <=> those = {})
    <3> HIDE DEF those
    <3>1. QED
      BY <2>1, SortsAscending
  <2>3. Sorts(reader.parts)' /\ reader'.parts # <<>>
    BY <1>9, <2>2 DEF LegacyEnters
  <2>4. QED
    BY <1>9, <2>3 DEF LegacyEnters, LegacyType, Result, Distinct, Positions, Early
<1>10. CASE LegacyTakes
  <2>1. /\ UNCHANGED <<reader.changed, reader.error, store>>
        /\ reader.pc = "part" /\ reader'.pc = IF Len(reader.parts) = 1 THEN "message" ELSE "part"
        /\ reader'.parts = Tail(reader.parts)
        /\ reader'.messages = IF Len(reader.parts) = 1 THEN Tail(reader.messages) ELSE reader.messages
        /\ reader'.malformed \in Nat /\ reader'.partial \in BOOLEAN
        /\ reader'.index \in Nat /\ reader'.index >= reader.index
        /\ reader.messages # <<>> /\ reader.parts # <<>>
    BY <1>1, <1>10 DEF LegacyTakes, LegacyType
  <2>2. Sorts(reader.messages)' /\ Sorts(reader.parts)'
    BY <1>1, <2>1, SortsTail
  <2>3. reader'.pc = "part" => reader'.parts # <<>> /\ reader'.messages # <<>>
    <3>1. Len(reader.parts) = 1 <=> ToSet(Tail(reader.parts)) = {}
      BY <1>1, <2>1, SortsTail
    <3>2. ToSet(<<>>) = {}
      BY DEF ToSet
    <3>3. QED
      BY <2>1, <3>1, <3>2
  <2>4. Result' /\ (reader'.pc # "done" => reader'.error = "none" /\ ~reader'.changed)
    BY <2>1 DEF LegacyType, Result
  <2>5. reader'.pc \in {"message", "part"}
    BY <2>1
  <2>6. CASE UNCHANGED <<emitted, seen>>
    <3>1. \A p \in Positions(emitted') : p < reader'.index
      BY <1>2, <2>1, <2>6
    <3>2. QED
      BY <1>1, <2>1, <2>2, <2>3, <2>4, <2>5, <2>6, <3>1 DEF LegacyType, Distinct, Positions, Early
  <2>7. CASE /\ emitted' = emitted \o PartSays(reader.body, PartFile.rec, reader.index)
             /\ seen'.lines = Append(seen.lines, <<Head(reader.messages), Head(reader.parts)>>)
             /\ reader'.index > reader.index
    <3> DEFINE said == PartSays(reader.body, PartFile.rec, reader.index)
               told == <<Head(reader.messages), Head(reader.parts)>>
               at == reader.index
    <3>1. OneAt(said, at)
      BY <1>1, PartSaysOne
    <3>2. emitted' = emitted \o said /\ at \in Nat /\ \A p \in Positions(emitted) : p < at
      BY <1>1, <2>7
    <3> HIDE DEF said, at
    <3>3. at \notin Positions(emitted)
      BY <1>1, <3>2
    <3>4. /\ emitted \o said \in Seq(Messages) /\ Distinct(emitted \o said)
          /\ Positions(emitted \o said) \in SUBSET (Positions(emitted) \cup {at})
      BY <1>1, <3>1, <3>3, Joins
    <3>5. emitted' \in Seq(Messages) /\ Distinct(emitted)'
      BY <3>2, <3>4 DEF Distinct
    <3>6. \A p \in Positions(emitted') : p < reader'.index
      <4>1. at < reader'.index
        BY <2>7 DEF at
      <4>2. \A p \in Positions(emitted) : p < reader'.index
        BY <1>2, <2>1
      <4>3. QED
        BY <3>2, <3>4, <4>1, <4>2
    <3>7. seen'.lines \in Seq(Seq(Names))
      <4>1. Head(reader.messages) \in Names /\ Head(reader.parts) \in Names
        BY <1>1, <2>1, SortsTail
      <4>2. told \in Seq(Names) /\ seen'.lines = Append(seen.lines, told)
        BY <2>7, <4>1
      <4> HIDE DEF told
      <4>3. QED
        BY <1>1, <4>2
    <3>8. QED
      BY <1>1, <2>1, <2>2, <2>3, <2>4, <2>5, <3>5, <3>6, <3>7 DEF LegacyType, Positions, Early
  <2>8. QED
    BY <1>10, <2>6, <2>7 DEF LegacyTakes
<1>11. CASE LegacyEnds
  <2>1. Result'
    BY <1>1, <1>11 DEF LegacyEnds, Result
  <2>2. QED
    BY <1>1, <1>11, <2>1 DEF LegacyEnds, LegacyType, Distinct, Positions, Early
<1>12. CASE LegacyHarnessWrites
  <2>1. store' \in LegacyStores /\ UNCHANGED <<reader, emitted, seen.lines>>
    BY <1>12, LegacyWriting
  <2>2. QED
    BY <2>1 DEF LegacyType, Result, Distinct, Positions, Early
<1>13. QED
  BY <1>3, <1>4, <1>5, <1>6, <1>7, <1>8, <1>9, <1>10, <1>11, <1>12 DEF LegacyMove

(***************************************************************************)
(* What the harness leaves alone is told, in order.                        *)
(***************************************************************************)

\* The parts that may still be told.
LegacyAhead ==
  {path \in Names \X Names :
     \/ reader.pc \in Early
     \/ reader.pc \in {"message", "parts"} /\ path[1] \in ToSet(reader.messages)
     \/ /\ reader.pc = "part"
        /\ \/ path[1] \in ToSet(Tail(reader.messages))
           \/ path[1] = Head(reader.messages) /\ path[2] \in ToSet(reader.parts)}

Owed(name, part) ==
  /\ store.session.form = "record" /\ <<>> \notin seen.touched
  /\ <<name>> \notin seen.touched /\ store.messages[name].form = "record"
  /\ <<name, part>> \notin seen.touched /\ store.parts[name][part].form = "record"

Precedes(path, ahead) == \A other \in ahead : Earlier(path, other)

LegacyTold ==
  harness = "legacy" /\ reader.error = "none" =>
    /\ \A name, part \in Names : Owed(name, part) => <<name, part>> \in ToSet(seen.lines) \cup LegacyAhead
    /\ \A i \in DOMAIN seen.lines : Len(seen.lines[i]) = 2 => Precedes(seen.lines[i], LegacyAhead)
    /\ \A i, j \in DOMAIN seen.lines :
         i < j /\ Len(seen.lines[i]) = 2 /\ Len(seen.lines[j]) = 2 => Earlier(seen.lines[i], seen.lines[j])

LEMMA EarlierPairs ==
  ASSUME NEW a \in Nat, NEW b \in Nat, NEW c \in Nat, NEW d \in Nat, a < c \/ (a = c /\ b < d)
  PROVE  Earlier(<<a, b>>, <<c, d>>)
<1> DEFINE s == <<a, b>>
           t == <<c, d>>
<1>1. DOMAIN s = 1..2 /\ s[1] = a /\ s[2] = b /\ t[1] = c /\ t[2] = d
  OBVIOUS
<1> HIDE DEF s, t
<1>2. CASE a < c
  <2>1. 1 \in DOMAIN s /\ s[1] < t[1] /\ \A j \in 1..(1 - 1) : s[j] = t[j]
    BY <1>1, <1>2
  <2>2. QED
    BY <2>1 DEF Earlier, s, t
<1>3. CASE a = c /\ b < d
  <2>1. 2 \in DOMAIN s /\ s[2] < t[2] /\ \A j \in 1..(2 - 1) : s[j] = t[j]
    <3>1. \A j \in 1..(2 - 1) : j = 1
      OBVIOUS
    <3>2. QED
      BY <1>1, <1>3, <3>1
  <2>2. QED
    BY <2>1 DEF Earlier, s, t
<1>4. QED
  BY <1>2, <1>3

\* Nothing new is told, and what may be told later was to be told later.
LEMMA ToldKept ==
  ASSUME harness = "legacy", UNCHANGED harness, LegacyTold, reader.error = "none", UNCHANGED seen.lines,
         LegacyAhead' \subseteq LegacyAhead,
         \A name, part \in Names : Owed(name, part)' /\ <<name, part>> \in LegacyAhead => <<name, part>> \in LegacyAhead',
         \A name, part \in Names : Owed(name, part)' => Owed(name, part)
  PROVE  LegacyTold'
<1>1. /\ \A name, part \in Names : Owed(name, part) => <<name, part>> \in ToSet(seen.lines) \cup LegacyAhead
      /\ \A i \in DOMAIN seen.lines : Len(seen.lines[i]) = 2 => Precedes(seen.lines[i], LegacyAhead)
      /\ \A i, j \in DOMAIN seen.lines :
         i < j /\ Len(seen.lines[i]) = 2 /\ Len(seen.lines[j]) = 2 => Earlier(seen.lines[i], seen.lines[j])
  BY DEF LegacyTold
<1>2. \A name, part \in Names : Owed(name, part)' => <<name, part>> \in ToSet(seen'.lines) \cup LegacyAhead'
  BY <1>1
<1>3. \A path : Precedes(path, LegacyAhead) => Precedes(path, LegacyAhead')
  BY DEF Precedes
<1>4. QED
  BY <1>1, <1>2, <1>3 DEF LegacyTold, Precedes

\* A part that is looked at comes before all that may be told after it.
LEMMA TakesAhead ==
  ASSUME LegacyType, LegacyTakes
  PROVE  LET path == <<Head(reader.messages), Head(reader.parts)>>
         IN  /\ path \in LegacyAhead /\ path \in Names \X Names
             /\ LegacyAhead' \subseteq LegacyAhead
             /\ LegacyAhead \subseteq LegacyAhead' \cup {path}
             /\ Precedes(path, LegacyAhead')
<1> DEFINE h == Head(reader.messages)
           p == Head(reader.parts)
           later == ToSet(Tail(reader.messages))
           others == ToSet(Tail(reader.parts))
           those == ToSet(reader.parts)
<1>1. /\ reader.pc = "part" /\ reader.messages # <<>> /\ reader.parts # <<>>
      /\ Sorts(reader.messages) /\ Sorts(reader.parts)
  BY DEF LegacyTakes, LegacyType
<1>2. /\ h \in Names /\ p \in Names /\ p \in those
      /\ later = ToSet(reader.messages) \ {h} /\ others = those \ {p}
      /\ \A x \in ToSet(reader.messages) : x # h => h < x
      /\ \A x \in those : x # p => p < x
      /\ Len(reader.parts) = 1 <=> others = {}
  BY <1>1, SortsTail
<1>3. LegacyAhead = {path \in Names \X Names : path[1] \in later \/ (path[1] = h /\ path[2] \in those)}
  <2>1. reader.pc = "part" /\ ~(reader.pc \in Early) /\ ~(reader.pc \in {"message", "parts"})
    BY <1>1 DEF Early
  <2>2. QED
    BY <2>1, Zenon DEF LegacyAhead
<1>4. LegacyAhead' = {path \in Names \X Names : path[1] \in later \/ (path[1] = h /\ path[2] \in others)}
  <2>1. CASE Len(reader.parts) = 1
    <3>1. reader'.pc = "message" /\ reader'.messages = Tail(reader.messages)
      BY <2>1 DEF LegacyTakes
    <3>2. others = {}
      BY <1>2, <2>1
    <3>3. LegacyAhead' = {path \in Names \X Names : path[1] \in later}
      BY <3>1 DEF LegacyAhead, Early
    <3> HIDE DEF others, h, later
    <3>4. QED
      BY <3>2, <3>3
  <2>2. CASE Len(reader.parts) # 1
    <3>1. reader'.pc = "part" /\ reader'.messages = reader.messages /\ reader'.parts = Tail(reader.parts)
      BY <2>2 DEF LegacyTakes
    <3>2. ~(reader'.pc \in Early) /\ ~(reader'.pc \in {"message", "parts"})
      BY <3>1 DEF Early
    <3>3. QED
      BY <3>1, <3>2, Zenon DEF LegacyAhead
  <2>3. QED
    BY <2>1, <2>2
<1> HIDE DEF h, p, later, others, those
<1>5. <<h, p>> \in LegacyAhead /\ <<h, p>> \in Names \X Names
  BY <1>2, <1>3
<1>6. LegacyAhead' \subseteq LegacyAhead
  BY <1>2, <1>3, <1>4
<1>7. LegacyAhead \subseteq LegacyAhead' \cup {<<h, p>>}
  <2> SUFFICES ASSUME NEW a \in Names, NEW b \in Names, <<a, b>> \in LegacyAhead, <<a, b>> # <<h, p>>
               PROVE  <<a, b>> \in LegacyAhead'
    BY <1>3
  <2>1. a \in later \/ (a = h /\ b \in those)
    BY <1>3
  <2>2. a \in later \/ (a = h /\ b \in others)
    BY <1>2, <2>1
  <2>3. QED
    BY <1>4, <2>2
<1>8. Precedes(<<h, p>>, LegacyAhead')
  <2> SUFFICES ASSUME NEW path \in LegacyAhead' PROVE Earlier(<<h, p>>, path)
    BY DEF Precedes
  <2> DEFINE a == path[1]
             b == path[2]
  <2>1. a \in Names /\ b \in Names /\ path = <<a, b>> /\ (a \in later \/ (a = h /\ b \in others))
    BY <1>4
  <2> HIDE DEF a, b
  <2>2. h \in Nat /\ p \in Nat /\ a \in Nat /\ b \in Nat
    BY <1>2, <2>1, StoresAssumption
  <2>3. h < a \/ (h = a /\ p < b)
    <3>1. \A x \in later : h < x
      BY <1>2
    <3>2. \A x \in others : p < x
      BY <1>2
    <3>3. QED
      BY <2>1, <3>1, <3>2
  <2>4. QED
    BY <2>1, <2>2, <2>3, EarlierPairs
<1>9. QED
  BY <1>5, <1>6, <1>7, <1>8 DEF h, p

LEMMA LegacyToldStep ==
  ASSUME harness = "legacy", UNCHANGED harness, LegacyType, LegacyTold, LegacyMove
  PROVE  LegacyTold'
<1> SUFFICES ASSUME reader'.error = "none" PROVE LegacyTold'
  BY DEF LegacyTold
<1>1. /\ store \in LegacyStores /\ Sorts(reader.messages) /\ seen.lines \in Seq(Seq(Names))
  BY DEF LegacyType
<1>2. ASSUME NEW name \in Names, NEW part \in Names, Owed(name, part)
      PROVE  /\ store.there /\ name \in Listed(store.messages) /\ store.messages[name].form = "record"
             /\ name \in store.dirs /\ part \in Listed(store.parts[name]) /\ store.session.form = "record"
  BY <1>1, <1>2, LegacyStoreIs DEF Owed, Listed
<1>3. CASE UNCHANGED <<reader, emitted, seen, store>>
  BY <1>3 DEF LegacyTold, Owed, LegacyAhead
<1>4. ASSUME UNCHANGED <<store, seen>>
      PROVE  \A name, part \in Names : Owed(name, part)' <=> Owed(name, part)
  BY <1>4 DEF Owed
<1>5. CASE LegacyQuits
  <2>1. /\ reader.error = "none" /\ UNCHANGED <<store, seen>> /\ reader'.pc = "done" /\ UNCHANGED seen.lines
        /\ store.session.form # "record" \/ (reader.pc = "list" /\ ~store.there)
    BY <1>5 DEF LegacyQuits
  <2>2. \A name, part \in Names : ~Owed(name, part)
    <3>1. CASE store.session.form # "record"
      BY <3>1 DEF Owed
    <3>2. CASE ~store.there
      BY <1>2, <3>2
    <3>3. QED
      BY <2>1, <3>1, <3>2
  <2>3. \A name, part \in Names : ~Owed(name, part)'
    BY <1>4, <2>1, <2>2
  <2>4. LegacyAhead' = {}
    BY <2>1 DEF LegacyAhead, Early
  <2>5. QED
    BY <2>1, <2>3, <2>4, ToldKept
<1>6. CASE LegacyStarts
  <2>1. /\ reader.error = "none" /\ UNCHANGED <<store, seen>> /\ reader.pc \in Early /\ reader'.pc \in Early
        /\ UNCHANGED seen.lines
    BY <1>6 DEF LegacyStarts, LegacyRests, Early
  <2>2. LegacyAhead' = LegacyAhead
    BY <2>1 DEF LegacyAhead
  <2>3. QED
    BY <1>4, <2>1, <2>2, ToldKept
<1>7. CASE LegacyLists
  <2> DEFINE those == Listed(store.messages)
  <2>1. /\ reader.error = "none" /\ UNCHANGED <<store, seen>> /\ reader.pc = "list" /\ reader'.pc = "message"
        /\ UNCHANGED seen.lines /\ reader'.messages = Ascending(those)
    BY <1>7 DEF LegacyLists
  <2>2. ToSet(reader'.messages) = those
    <3>1. those \in SUBSET Names
      BY DEF Listed
    <3> HIDE DEF those
    <3>2. QED
      BY <2>1, <3>1, SortsAscending
  <2>3. LegacyAhead = Names \X Names
    BY <2>1 DEF LegacyAhead, Early
  <2>4. LegacyAhead' = {path \in Names \X Names : path[1] \in those}
    BY <2>1, <2>2 DEF LegacyAhead, Early
  <2>5. \A name, part \in Names : Owed(name, part) => <<name, part>> \in LegacyAhead'
    BY <1>2, <2>4
  <2>6. QED
    BY <1>4, <2>1, <2>3, <2>4, <2>5, ToldKept
<1>8. CASE LegacySkips
  <2> DEFINE h == Head(reader.messages)
  <2>1. /\ reader.error = "none" /\ UNCHANGED <<store, seen>> /\ reader.pc \in {"message", "parts"}
        /\ reader'.pc = "message" /\ UNCHANGED seen.lines /\ reader'.messages = Tail(reader.messages)
        /\ \/ store.messages[h].form # "record"
           \/ h \notin store.dirs \/ Listed(store.parts[h]) = {}
    BY <1>8 DEF LegacySkips
  <2>2. ToSet(reader'.messages) = ToSet(reader.messages) \ {h}
    BY <1>1, <1>8, SortsTail DEF LegacySkips
  <2> HIDE DEF h
  <2>3. LegacyAhead = {path \in Names \X Names : path[1] \in ToSet(reader.messages)}
    BY <2>1 DEF LegacyAhead, Early
  <2>4. LegacyAhead' = {path \in Names \X Names : path[1] \in ToSet(reader.messages) \ {h}}
    BY <2>1, <2>2 DEF LegacyAhead, Early
  <2>5. \A name, part \in Names : Owed(name, part) => name # h
    BY <1>2, <2>1
  <2>6. \A name, part \in Names : Owed(name, part) /\ <<name, part>> \in LegacyAhead => <<name, part>> \in LegacyAhead'
    BY <2>3, <2>4, <2>5
  <2>7. LegacyAhead' \subseteq LegacyAhead
    BY <2>3, <2>4
  <2>8. QED
    BY <1>4, <2>1, <2>6, <2>7, ToldKept
<1>9. CASE LegacyOpens
  <2> DEFINE told == <<Head(reader.messages)>>
             lines == seen.lines
  <2>1. /\ reader.error = "none" /\ UNCHANGED <<store, seen.touched>> /\ reader.pc = "message"
        /\ reader'.pc = "parts" /\ reader'.messages = reader.messages /\ seen'.lines = Append(lines, told)
    BY <1>9 DEF LegacyOpens
  <2>2. LegacyAhead' = LegacyAhead
    BY <2>1 DEF LegacyAhead, Early
  <2>3. \A name, part \in Names : Owed(name, part)' <=> Owed(name, part)
    BY <2>1 DEF Owed
  <2>4. Len(told) = 1
    OBVIOUS
  <2> HIDE DEF told
  <2>5. /\ DOMAIN seen'.lines = 1..(Len(lines) + 1) /\ DOMAIN lines = 1..Len(lines) /\ Len(lines) \in Nat
        /\ \A i \in 1..Len(lines) : seen'.lines[i] = lines[i]
        /\ seen'.lines[Len(lines) + 1] = told
    <3>1. lines \in Seq(Seq(Names))
      BY <1>1
    <3> HIDE DEF lines
    <3>2. QED
      BY <2>1, <3>1
  <2>6. \A i \in DOMAIN seen'.lines : Len(seen'.lines[i]) = 2 => i \in DOMAIN lines /\ seen'.lines[i] = lines[i]
    <3> HIDE DEF lines
    <3>1. \A i \in 1..(Len(lines) + 1) : i \in 1..Len(lines) \/ i = Len(lines) + 1
      BY <2>5
    <3>2. seen'.lines[Len(lines) + 1] = told
      BY <2>5
    <3>3. ASSUME NEW i \in DOMAIN seen'.lines, Len(seen'.lines[i]) = 2
          PROVE  i \in DOMAIN lines /\ seen'.lines[i] = lines[i]
      <4> DEFINE last == Len(lines) + 1
      <4>0. seen'.lines[last] = told
        BY <3>2
      <4> HIDE DEF last
      <4>5. i # last
        <5>1. Len(told) # 2
          BY <2>4
        <5>2. QED
          BY <3>3, <4>0, <5>1, Zenon
      <4>1. i # Len(lines) + 1
        BY <4>5 DEF last
      <4>2. i \in 1..Len(lines)
        BY <2>5, <3>1, <3>3, <4>1
      <4>3. QED
        BY <2>5, <4>2
    <3>4. QED
      BY <3>3
  <2>7. ToSet(lines) \subseteq ToSet(seen'.lines)
    BY <2>5 DEF ToSet
  <2>8. /\ \A name, part \in Names : Owed(name, part) => <<name, part>> \in ToSet(lines) \cup LegacyAhead
        /\ \A i \in DOMAIN lines : Len(lines[i]) = 2 => Precedes(lines[i], LegacyAhead)
        /\ \A i, j \in DOMAIN lines :
             i < j /\ Len(lines[i]) = 2 /\ Len(lines[j]) = 2 => Earlier(lines[i], lines[j])
    BY <2>1 DEF LegacyTold
  <2>9. \A name, part \in Names : Owed(name, part)' => <<name, part>> \in ToSet(seen'.lines) \cup LegacyAhead'
    BY <2>2, <2>3, <2>7, <2>8
  <2>10. \A i \in DOMAIN seen'.lines : Len(seen'.lines[i]) = 2 => Precedes(seen'.lines[i], LegacyAhead')
    BY <2>2, <2>6, <2>8
  <2>11. \A i, j \in DOMAIN seen'.lines :
            i < j /\ Len(seen'.lines[i]) = 2 /\ Len(seen'.lines[j]) = 2 => Earlier(seen'.lines[i], seen'.lines[j])
    BY <2>6, <2>8
  <2>12. QED
    BY <2>9, <2>10, <2>11 DEF LegacyTold, Precedes
<1>10. CASE LegacyEnters
  <2> DEFINE h == Head(reader.messages)
             those == Listed(store.parts[h])
  <2>1. /\ reader.error = "none" /\ UNCHANGED <<store, seen>> /\ reader.pc = "parts" /\ reader.messages # <<>>
        /\ reader'.pc = "part" /\ UNCHANGED seen.lines /\ reader'.messages = reader.messages
        /\ reader'.parts = Ascending(those)
    BY <1>10 DEF LegacyEnters, LegacyType
  <2>2. ToSet(reader'.parts) = those /\ those \in SUBSET Names
    <3>1. those \in SUBSET Names
      BY DEF Listed
    <3> HIDE DEF those
    <3>2. QED
      BY <2>1, <3>1, SortsAscending
  <2>3. ToSet(Tail(reader.messages)) = ToSet(reader.messages) \ {h} /\ h \in ToSet(reader.messages)
    BY <1>1, <2>1, SortsTail
  <2>4. LegacyAhead = {path \in Names \X Names : path[1] \in ToSet(reader.messages)}
    BY <2>1 DEF LegacyAhead, Early
  <2>5. LegacyAhead' = {path \in Names \X Names :
                          path[1] \in ToSet(reader.messages) \ {h} \/ (path[1] = h /\ path[2] \in those)}
    <3>1. ~(reader'.pc \in Early) /\ ~(reader'.pc \in {"message", "parts"}) /\ Head(reader'.messages) = h
      BY <2>1 DEF Early
    <3>2. ToSet(Tail(reader'.messages)) = ToSet(reader.messages) \ {h}
      BY <2>1, <2>3
    <3> HIDE DEF h, those
    <3>3. QED
      BY <2>1, <2>2, <3>1, <3>2, Zenon DEF LegacyAhead
  <2>6. \A name, part \in Names : Owed(name, part) /\ name = h => part \in those
    BY <1>2
  <2> HIDE DEF h, those
  <2>7. \A name, part \in Names : Owed(name, part) /\ <<name, part>> \in LegacyAhead => <<name, part>> \in LegacyAhead'
    <3> SUFFICES ASSUME NEW name \in Names, NEW part \in Names, Owed(name, part), <<name, part>> \in LegacyAhead
                 PROVE  <<name, part>> \in LegacyAhead'
      OBVIOUS
    <3>1. name \in ToSet(reader.messages) /\ (name = h => part \in those)
      BY <2>4, <2>6
    <3>2. QED
      BY <2>5, <3>1
  <2>8. LegacyAhead' \subseteq LegacyAhead
    BY <2>3, <2>4, <2>5
  <2>9. QED
    BY <1>4, <2>1, <2>7, <2>8, ToldKept
<1>11. CASE LegacyTakes
  <2> DEFINE told == <<Head(reader.messages), Head(reader.parts)>>
             lines == seen.lines
  <2>1. /\ told \in LegacyAhead /\ told \in Names \X Names
        /\ LegacyAhead' \subseteq LegacyAhead /\ LegacyAhead \subseteq LegacyAhead' \cup {told}
        /\ Precedes(told, LegacyAhead')
    BY <1>11, TakesAhead
  <2>2. reader.error = "none" /\ UNCHANGED <<store, seen.touched>> /\ reader.pc = "part"
    BY <1>11 DEF LegacyTakes
  <2>3. \A name, part \in Names : Owed(name, part)' <=> Owed(name, part)
    BY <2>2 DEF Owed
  <2>4. CASE UNCHANGED <<emitted, seen>> /\ PartFile.form # "record"
    <3>1. \A name, part \in Names : Owed(name, part) => <<name, part>> # told
      <4> SUFFICES ASSUME NEW name \in Names, NEW part \in Names, Owed(name, part), <<name, part>> = told PROVE FALSE
        OBVIOUS
      <4>1. name = Head(reader.messages) /\ part = Head(reader.parts)
        OBVIOUS
      <4>2. store.parts[name][part].form = "record"
        BY DEF Owed
      <4>3. QED
        BY <2>4, <4>1, <4>2 DEF PartFile
    <3> HIDE DEF told
    <3>2. \A name, part \in Names : Owed(name, part)' /\ <<name, part>> \in LegacyAhead => <<name, part>> \in LegacyAhead'
      BY <2>1, <2>3, <3>1
    <3>3. UNCHANGED seen.lines
      BY <2>4
    <3>4. QED
      BY <2>1, <2>2, <2>3, <3>2, <3>3, ToldKept
  <2>5. CASE seen'.lines = Append(seen.lines, told)
    <3> HIDE DEF told
    <3>1. /\ DOMAIN seen'.lines = 1..(Len(lines) + 1) /\ DOMAIN lines = 1..Len(lines) /\ Len(lines) \in Nat
          /\ \A i \in 1..Len(lines) : seen'.lines[i] = lines[i]
          /\ seen'.lines[Len(lines) + 1] = told
      <4>1. lines \in Seq(Seq(Names)) /\ seen'.lines = Append(lines, told)
        BY <1>1, <2>5
      <4> HIDE DEF lines
      <4>2. QED
        BY <4>1
    <3>2. ToSet(lines) \cup {told} \subseteq ToSet(seen'.lines)
      <4>1. Len(lines) + 1 \in 1..(Len(lines) + 1) /\ 1..Len(lines) \subseteq 1..(Len(lines) + 1)
        BY <3>1
      <4> HIDE DEF lines
      <4>2. QED
        BY <3>1, <4>1 DEF ToSet
    <3>3. /\ \A name, part \in Names : Owed(name, part) => <<name, part>> \in ToSet(lines) \cup LegacyAhead
          /\ \A i \in DOMAIN lines : Len(lines[i]) = 2 => Precedes(lines[i], LegacyAhead)
          /\ \A i, j \in DOMAIN lines :
               i < j /\ Len(lines[i]) = 2 /\ Len(lines[j]) = 2 => Earlier(lines[i], lines[j])
      BY <2>2 DEF LegacyTold
    <3>4. \A name, part \in Names : Owed(name, part)' => <<name, part>> \in ToSet(seen'.lines) \cup LegacyAhead'
      BY <2>1, <2>3, <3>2, <3>3
    <3>5. \A i \in DOMAIN seen'.lines : \/ i \in DOMAIN lines /\ seen'.lines[i] = lines[i]
                                        \/ i = Len(lines) + 1 /\ seen'.lines[i] = told
      <4> HIDE DEF lines
      <4>1. QED
        BY <3>1
    <3>6. \A i \in DOMAIN seen'.lines : Len(seen'.lines[i]) = 2 => Precedes(seen'.lines[i], LegacyAhead')
      BY <2>1, <3>3, <3>5 DEF Precedes
    <3>7. ASSUME NEW i \in DOMAIN seen'.lines, NEW j \in DOMAIN seen'.lines, i < j,
                 Len(seen'.lines[i]) = 2, Len(seen'.lines[j]) = 2
          PROVE  Earlier(seen'.lines[i], seen'.lines[j])
      <4>1. i \in DOMAIN lines /\ seen'.lines[i] = lines[i]
        <5> HIDE DEF lines
        <5>1. QED
          BY <3>1, <3>7
      <4>2. CASE j \in DOMAIN lines /\ seen'.lines[j] = lines[j]
        BY <3>3, <3>7, <4>1, <4>2
      <4>3. CASE seen'.lines[j] = told
        BY <2>1, <3>3, <3>7, <4>1, <4>3 DEF Precedes
      <4>4. QED
        BY <3>5, <4>2, <4>3
    <3>8. QED
      BY <3>4, <3>6, <3>7 DEF LegacyTold, Precedes
  <2>6. QED
    BY <1>11, <2>4, <2>5 DEF LegacyTakes
<1>12. CASE LegacyEnds
  <2>1. /\ reader.error = "none" /\ UNCHANGED <<store, seen>> /\ reader'.pc = "done" /\ UNCHANGED seen.lines
        /\ reader.pc = "message" /\ reader.messages = <<>>
    BY <1>12 DEF LegacyEnds
  <2>2. ToSet(<<>>) = {}
    BY DEF ToSet
  <2>3. LegacyAhead = {} /\ LegacyAhead' = {}
    BY <2>1, <2>2 DEF LegacyAhead, Early
  <2>4. QED
    BY <1>4, <2>1, <2>3, ToldKept
<1>13. CASE LegacyHarnessWrites
  <2>1. UNCHANGED <<reader, seen.lines>> /\ Untouched
    BY <1>13, LegacyWriting
  <2>2. LegacyAhead' = LegacyAhead /\ reader.error = "none"
    BY <2>1 DEF LegacyAhead
  <2>3. \A name, part \in Names : Owed(name, part)' => Owed(name, part)
    BY <2>1 DEF Owed, Untouched
  <2>4. QED
    BY <2>1, <2>2, <2>3, ToldKept
<1>14. QED
  BY <1>3, <1>5, <1>6, <1>7, <1>8, <1>9, <1>10, <1>11, <1>12, <1>13 DEF LegacyMove

LEMMA LegacyAlways == Spec => [](harness = "legacy" => LegacyType /\ LegacyTold)
<1> DEFINE Inv == harness = "legacy" => LegacyType /\ LegacyTold
<1>1. Init => Inv
  <2> SUFFICES ASSUME Init, harness = "legacy" PROVE LegacyType /\ LegacyTold
    OBVIOUS
  <2>1. LegacyType /\ reader.pc \in Early /\ seen.lines = <<>>
    <3>1. LegacyType /\ reader.pc = "stat"
      BY LegacyStarting
    <3>2. QED
      BY <3>1 DEF LegacyType, Early
  <2>2. LegacyAhead = Names \X Names
    BY <2>1 DEF LegacyAhead
  <2>3. QED
    BY <2>1, <2>2 DEF LegacyTold
<1>2. Inv /\ [Next]_vars => Inv'
  <2> SUFFICES ASSUME Inv, [Next]_vars, harness' = "legacy" PROVE LegacyType' /\ LegacyTold'
    OBVIOUS
  <2>1. UNCHANGED harness
    BY HarnessStays
  <2>2. harness = "legacy" /\ LegacyType /\ LegacyTold
    BY <2>1
  <2>3. LegacyMove /\ IsLegacyReader(reader)' /\ IsSeen(seen)'
    BY <2>2, LegacyMoves
  <2>4. QED
    BY <2>1, <2>2, <2>3, LegacyTypeStep, LegacyToldStep
<1>3. QED
  BY <1>1, <1>2, PTL DEF Spec

\* What the harness left alone while the legacy layout was read is told, in
\* order and once, whatever became of the files around it (parseLegacy).
THEOREM LegacyTellsWhatStood == Spec => []StoodIsTold
<1>1. (harness = "legacy" => LegacyType /\ LegacyTold) => StoodIsTold
  <2> SUFFICES ASSUME harness = "legacy", LegacyType, LegacyTold, Returned, store.session.form = "record",
                      <<>> \notin seen.touched
               PROVE  /\ \A name, part \in Names : Owed(name, part) => <<name, part>> \in ToSet(seen.lines)
                      /\ \A i, j \in DOMAIN seen.lines :
                           i < j /\ Len(seen.lines[i]) = 2 /\ Len(seen.lines[j]) = 2 =>
                             Earlier(seen.lines[i], seen.lines[j])
    BY DEF StoodIsTold, Owed
  <2>1. reader.error = "none" /\ reader.pc = "done"
    BY DEF Returned, Done, Running
  <2>2. LegacyAhead = {}
    BY <2>1 DEF LegacyAhead, Early
  <2>3. QED
    BY <2>1, <2>2 DEF LegacyTold
<1>2. QED
  BY <1>1, LegacyAlways, PTL

(***************************************************************************)
(* What is in the files of the legacy layout.                              *)
(***************************************************************************)

Sayings == [speaker : {"user", "assistant"}, parts : Seq({"words", "image", "audio"})]

Said(message, part) ==
  IF message.valid /\ part.valid /\ part.type = "text" /\ part.text = "words" /\ message.role \in {"user", "assistant"}
  THEN <<[speaker |-> message.role, parts |-> <<"words">>]>> ELSE <<>>

LEMMA SaidType == ASSUME NEW message, NEW part PROVE Said(message, part) \in Seq(Sayings)
<1>1. CASE message.role \in {"user", "assistant"}
  <2> DEFINE said == [speaker |-> message.role, parts |-> <<"words">>]
  <2>1. said \in Sayings
    BY <1>1 DEF Sayings
  <2>2. Said(message, part) \in {<<said>>, <<>>}
    BY DEF Said
  <2> HIDE DEF said
  <2>3. <<said>> \in Seq(Sayings) /\ <<>> \in Seq(Sayings)
    BY <2>1
  <2>4. QED
    BY <2>2, <2>3, Zenon
<1>2. CASE message.role \notin {"user", "assistant"}
  BY <1>2 DEF Said
<1>3. QED
  BY <1>1, <1>2

PartTells(files) ==
  [name \in Names |-> [part \in Names |->
     IF files.parts[name][part].form = "record"
     THEN Said(files.messages[name].rec, files.parts[name][part].rec) ELSE <<>>]]

MessageTells(files) ==
  [name \in Names |->
     IF files.messages[name].form = "record" /\ name \in files.dirs
     THEN Over(PartTells(files)[name], Listed(files.parts[name])) ELSE <<>>]

LEMMA NamesAre == ASSUME NEW X \in SUBSET Names PROVE X \in SUBSET Nat /\ IsFiniteSet(X)
<1>1. IsFiniteSet(Names) /\ Names \subseteq Nat
  BY StoresAssumption
<1>2. QED
  BY <1>1, FS_Subset

LEMMA PartsTellType ==
  ASSUME NEW files, NEW name \in Names
  PROVE  Tells(PartTells(files)[name], Names, Sayings)
<1> SUFFICES ASSUME NEW part \in Names PROVE PartTells(files)[name][part] \in Seq(Sayings)
  BY DEF Tells
<1> DEFINE said == Said(files.messages[name].rec, files.parts[name][part].rec)
<1>1. PartTells(files)[name][part] \in {said, <<>>}
  BY DEF PartTells
<1>2. said \in Seq(Sayings)
  BY SaidType
<1>3. <<>> \in Seq(Sayings)
  OBVIOUS
<1> HIDE DEF said
<1>4. QED
  BY <1>1, <1>2, <1>3, Zenon

LEMMA MessagesTellType ==
  ASSUME NEW files
  PROVE  Tells(MessageTells(files), Names, Sayings)
<1> SUFFICES ASSUME NEW name \in Names PROVE MessageTells(files)[name] \in Seq(Sayings)
  BY DEF Tells
<1> DEFINE F == PartTells(files)[name]
           X == Listed(files.parts[name])
           told == Over(F, X)
<1>1. MessageTells(files)[name] \in {told, <<>>}
  BY DEF MessageTells
<1>2. told \in Seq(Sayings)
  <2>1. X \in SUBSET Names
    BY DEF Listed
  <2>2. Tells(F, Names, Sayings)
    BY PartsTellType
  <2> HIDE DEF F, X
  <2>3. X \in SUBSET Nat /\ IsFiniteSet(X) /\ Tells(F, X, Sayings)
    BY <2>1, <2>2, NamesAre DEF Tells
  <2>4. QED
    BY <2>3, OverType
<1>3. <<>> \in Seq(Sayings)
  OBVIOUS
<1> HIDE DEF told
<1>4. QED
  BY <1>1, <1>2, <1>3, Zenon

\* A message's parts, as they are listed.
LEMMA MessageSays ==
  ASSUME NEW files, NEW name \in Names
  PROVE  LET told == Ascending({p \in Names : files.parts[name][p].form = "record"})
         IN  PartsSay(files.messages[name].rec, [j \in DOMAIN told |-> files.parts[name][told[j]].rec])
               = Over(PartTells(files)[name], Listed(files.parts[name]))
<1> DEFINE Q == {p \in Names : files.parts[name][p].form = "record"}
           X == Listed(files.parts[name])
           F == PartTells(files)[name]
           A == Ascending(Q)
           message == files.messages[name].rec
           those == files.parts[name]
<1>1. Q \in SUBSET Names /\ X \in SUBSET Names /\ X \cap Q = Q
  BY DEF Listed
<1>2. /\ \A p \in Q : F[p] = Said(message, those[p].rec)
      /\ Silent(F, X \ Q)
  BY DEF PartTells, Silent, Listed
<1>3. Tells(F, Names, Sayings)
  BY PartsTellType
<1> HIDE DEF Q, X, F
<1>4. /\ X \in SUBSET Nat /\ IsFiniteSet(X) /\ Tells(F, X, Sayings)
      /\ Q \in SUBSET Nat /\ IsFiniteSet(Q)
  BY <1>1, <1>3, NamesAre DEF Tells
<1>5. Over(F, Q) = Over(F, X)
  <2>1. Over(F, X \cap Q) = Over(F, X)
    BY <1>2, <1>4, OverPadded
  <2>2. QED
    BY <1>1, <2>1
<1>6. DOMAIN A = 1..Cardinality(Q) /\ A \in Seq(Q) /\ Cardinality(Q) \in Nat
  BY <1>4, AscendingIs
<1>7. \A j \in DOMAIN A : F[A[j]] = Said(message, those[A[j]].rec)
  <2>1. \A j \in 1..Cardinality(Q) : A[j] \in Q
    BY <1>6
  <2>2. QED
    BY <1>2, <1>6, <2>1
<1> DEFINE parts == [j \in DOMAIN A |-> those[A[j]].rec]
<1>8. PartsSay(message, parts) = FlattenSeq([i \in DOMAIN parts |-> Said(message, parts[i])])
  BY Zenon DEF PartsSay, Said
<1>9. [i \in DOMAIN parts |-> Said(message, parts[i])] = [i \in DOMAIN A |-> F[A[i]]]
  <2>1. DOMAIN parts = DOMAIN A /\ \A i \in DOMAIN A : parts[i] = those[A[i]].rec
    OBVIOUS
  <2> HIDE DEF parts, A, message, those
  <2>2. QED
    BY <1>7, <2>1
<1>10. QED
  BY <1>5, <1>8, <1>9 DEF Over, Q, X, F

LEMMA LegacySaysAll ==
  ASSUME NEW files, files.session.form = "record", files.there
  PROVE  LegacySays(files) = Over(MessageTells(files), Listed(files.messages))
<1> DEFINE R == {name \in Names : files.messages[name].form = "record" /\ name \in files.dirs}
           X == Listed(files.messages)
           F == MessageTells(files)
           A == Ascending(R)
           Q(name) == {p \in Names : files.parts[name][p].form = "record"}
           says(name) == PartsSay(files.messages[name].rec,
                                  [j \in DOMAIN Ascending(Q(name)) |-> files.parts[name][Ascending(Q(name))[j]].rec])
<1>1. R \in SUBSET Names /\ X \in SUBSET Names /\ X \cap R = R
  BY DEF Listed
<1>2. \A name \in R : F[name] = says(name)
  <2> SUFFICES ASSUME NEW name \in R PROVE F[name] = says(name)
    OBVIOUS
  <2>1. F[name] = Over(PartTells(files)[name], Listed(files.parts[name]))
    BY DEF MessageTells
  <2>2. name \in Names
    OBVIOUS
  <2>3. QED
    BY <2>1, <2>2, MessageSays
<1>3. Silent(F, X \ R)
  BY DEF MessageTells, Silent, Listed
<1>4. Tells(F, Names, Sayings)
  BY MessagesTellType
<1>5. LegacySays(files) = FlattenSeq([i \in DOMAIN A |-> says(A[i])])
  BY Zenon DEF LegacySays
<1> HIDE DEF R, X, F, says
<1>6. /\ X \in SUBSET Nat /\ IsFiniteSet(X) /\ Tells(F, X, Sayings)
      /\ R \in SUBSET Nat /\ IsFiniteSet(R)
  BY <1>1, <1>4, NamesAre DEF Tells
<1>7. Over(F, R) = Over(F, X)
  <2>1. Over(F, X \cap R) = Over(F, X)
    BY <1>3, <1>6, OverPadded
  <2>2. QED
    BY <1>1, <2>1
<1>8. DOMAIN A = 1..Cardinality(R) /\ A \in Seq(R) /\ Cardinality(R) \in Nat
  BY <1>6, AscendingIs
<1>9. \A i \in DOMAIN A : F[A[i]] = says(A[i])
  <2>1. \A i \in 1..Cardinality(R) : A[i] \in R
    BY <1>8
  <2>2. QED
    BY <1>2, <1>8, <2>1
<1> HIDE DEF A
<1>10. [i \in DOMAIN A |-> F[A[i]]] = [i \in DOMAIN A |-> says(A[i])]
  BY <1>9
<1>11. QED
  BY <1>5, <1>7, <1>10 DEF Over, A, X, F

(***************************************************************************)
(* What has been said, and what is still to be said.                       *)
(***************************************************************************)

Voices(messages) == [i \in DOMAIN messages |-> [speaker |-> messages[i].speaker, parts |-> messages[i].parts]]

LEMMA Regrouped ==
  ASSUME NEW S, NEW a \in Seq(S), NEW b \in Seq(S), NEW c \in Seq(S), NEW d \in Seq(S)
  PROVE  a \o ((b \o c) \o d) = (a \o b) \o (c \o d)
<1>1. c \o d \in Seq(S)
  OBVIOUS
<1>2. (b \o c) \o d = b \o (c \o d)
  BY ConcatAssociative
<1> DEFINE cd == c \o d
<1> HIDE DEF cd
<1>3. (a \o b) \o cd = a \o (b \o cd)
  BY <1>1, ConcatAssociative DEF cd
<1>4. QED
  BY <1>2, <1>3 DEF cd

LEMMA VoicesJoin ==
  ASSUME NEW messages \in Seq(Messages)
  PROVE  /\ Voices(messages) \in Seq(Sayings)
         /\ \A m \in Messages : Voices(messages \o <<m>>) = Voices(messages) \o <<[speaker |-> m.speaker, parts |-> m.parts]>>
<1> DEFINE n == Len(messages)
           N == 1..n
           voice(m) == [speaker |-> m.speaker, parts |-> m.parts]
<1>1. n \in Nat /\ DOMAIN messages = N /\ \A i \in N : messages[i] \in Messages
  OBVIOUS
<1>2. \A m \in Messages : voice(m) \in Sayings
  BY DEF Messages, Sayings
<1>3. Voices(messages) \in Seq(Sayings) /\ Len(Voices(messages)) = n /\ \A i \in N : Voices(messages)[i] = voice(messages[i])
  <2>1. Voices(messages) = [i \in N |-> voice(messages[i])]
    BY <1>1 DEF Voices
  <2> HIDE DEF n
  <2>2. [i \in N |-> voice(messages[i])] \in [N -> Sayings]
    BY <1>1, <1>2
  <2>3. QED
    BY <1>1, <2>1, <2>2
<1>4. ASSUME NEW m \in Messages PROVE Voices(messages \o <<m>>) = Voices(messages) \o <<voice(m)>>
  <2> DEFINE all == messages \o <<m>>
             said == voice(m)
             before == Voices(messages)
             both == before \o <<said>>
  <2>1. all \in Seq(Messages) /\ DOMAIN all = 1..(n + 1) /\ all[n + 1] = m /\ \A i \in 1..n : all[i] = messages[i]
    OBVIOUS
  <2>2. /\ DOMAIN both = 1..(n + 1) /\ both[n + 1] = said /\ \A i \in 1..n : both[i] = before[i]
        /\ both = [i \in 1..(n + 1) |-> both[i]]
    <3>1. said \in Sayings
      BY <1>2
    <3> HIDE DEF before, said, n
    <3>2. before \in Seq(Sayings) /\ Len(before) = n /\ n \in Nat
      BY <1>1, <1>3 DEF before
    <3>3. QED
      BY <3>1, <3>2
  <2>3. Voices(all) = [i \in 1..(n + 1) |-> voice(all[i])]
    BY <2>1 DEF Voices
  <2> HIDE DEF all, both, n
  <2>4. \A i \in 1..(n + 1) : i \in 1..n \/ i = n + 1
    BY <1>1
  <2>5. \A i \in 1..(n + 1) : voice(all[i]) = both[i]
    <3> SUFFICES ASSUME NEW i \in 1..(n + 1) PROVE voice(all[i]) = both[i]
      OBVIOUS
    <3>1. CASE i = n + 1
      BY <2>1, <2>2, <3>1
    <3>2. CASE i \in 1..n
      <4>1. all[i] = messages[i] /\ both[i] = before[i] /\ before[i] = voice(messages[i])
        BY <1>3, <2>1, <2>2, <3>2 DEF before
      <4>2. QED
        BY <4>1
    <3>3. QED
      BY <2>4, <3>1, <3>2
  <2> HIDE DEF voice, said
  <2>6. Voices(all) = both
    BY <2>2, <2>3, <2>5
  <2>7. QED
    BY <2>6 DEF all, both, voice, said
<1>5. QED
  BY <1>3, <1>4

LEMMA VoicesSaid ==
  ASSUME NEW messages \in Seq(Messages), NEW message, NEW part, NEW index \in Nat
  PROVE  Voices(messages \o PartSays(message, part, index)) = Voices(messages) \o Said(message, part)
<1> DEFINE m == [speaker |-> message.role, pos |-> index, parts |-> <<"words">>]
           said == [speaker |-> message.role, parts |-> <<"words">>]
<1>1. CASE /\ message.valid /\ part.valid /\ part.type = "text" /\ part.text = "words"
           /\ message.role \in {"user", "assistant"}
  <2>1. PartSays(message, part, index) = <<m>> /\ Said(message, part) = <<said>>
    BY <1>1 DEF PartSays, Said
  <2>2. m \in Messages /\ [speaker |-> m.speaker, parts |-> m.parts] = said
    BY <1>1 DEF Messages
  <2> HIDE DEF m, said
  <2>3. Voices(messages \o <<m>>) = Voices(messages) \o <<said>>
    BY <2>2, VoicesJoin
  <2>4. QED
    BY <2>1, <2>3
<1>2. CASE ~(/\ message.valid /\ part.valid /\ part.type = "text" /\ part.text = "words"
             /\ message.role \in {"user", "assistant"})
  <2>1. PartSays(message, part, index) = <<>> /\ Said(message, part) = <<>>
    BY <1>2 DEF PartSays, Said
  <2>2. messages \o <<>> = messages
    OBVIOUS
  <2> DEFINE voices == Voices(messages)
  <2>3. voices \in Seq(Sayings)
    BY VoicesJoin
  <2> HIDE DEF voices
  <2>4. voices \o <<>> = voices
    BY <2>3
  <2>5. QED
    BY <2>1, <2>2, <2>4 DEF voices
<1>3. QED
  BY <1>1, <1>2

LEMMA OverHead ==
  ASSUME NEW names, Sorts(names), names # <<>>, NEW F, NEW S, Tells(F, Names, S)
  PROVE  /\ Over(F, ToSet(names)) = F[Head(names)] \o Over(F, ToSet(Tail(names)))
         /\ F[Head(names)] \in Seq(S)
<1> DEFINE X == ToSet(names)
<1>1. X \in SUBSET Names /\ names = Ascending(X)
  BY DEF Sorts
<1>2. Head(names) \in Names /\ ToSet(Tail(names)) = X \ {Head(names)} /\ Head(names) \in X
  BY SortsTail
<1> HIDE DEF X
<1>3. X \in SUBSET Nat /\ IsFiniteSet(X) /\ Tells(F, X, S)
  BY <1>1, NamesAre DEF Tells
<1>4. Over(F, X) = F[Head(names)] \o Over(F, X \ {Head(names)})
  BY <1>1, <1>2, <1>3, OverLeast
<1>5. QED
  BY <1>2, <1>4 DEF Tells, X

LEMMA OverSorted ==
  ASSUME NEW X \in SUBSET Names, NEW F, NEW S, Tells(F, Names, S)
  PROVE  Over(F, X) \in Seq(S)
<1>1. X \in SUBSET Nat /\ IsFiniteSet(X) /\ Tells(F, X, S)
  BY NamesAre DEF Tells
<1>2. QED
  BY <1>1, OverType

MessageLost(files, name) ==
  \/ files.messages[name].form # "record"
  \/ name \notin files.dirs \/ Listed(files.parts[name]) = {}
  \/ \E part \in Listed(files.parts[name]) : PartLost(files.parts[name][part])

\* What is not told yet, at each point of the walk through the files.
ToTell ==
  /\ reader.pc \in {"message", "parts"} =>
       /\ Spoken \o Over(MessageTells(store), ToSet(reader.messages)) = LegacySays(store)
       /\ (reader.partial \/ \E name \in ToSet(reader.messages) : MessageLost(store, name)) <=> LegacyUnread(store)
  /\ reader.pc = "part" =>
       /\ Spoken \o (Over(PartTells(store)[Head(reader.messages)], ToSet(reader.parts))
                       \o Over(MessageTells(store), ToSet(Tail(reader.messages)))) = LegacySays(store)
       /\ (\/ reader.partial
           \/ \E part \in ToSet(reader.parts) : PartLost(store.parts[Head(reader.messages)][part])
           \/ \E name \in ToSet(Tail(reader.messages)) : MessageLost(store, name)) <=> LegacyUnread(store)
  /\ reader.pc = "done" /\ ~reader.changed => Spoken = LegacySays(store) /\ (reader.partial <=> LegacyUnread(store))

WhereLegacyIs ==
  /\ reader.pc \in {"list", "message", "parts", "part"} => store.session.form = "record"
  /\ reader.pc \in {"message", "parts", "part"} => store.there
  /\ reader.pc \in {"parts", "part"} =>
       /\ store.messages[Head(reader.messages)].form = "record"
       /\ reader.body = store.messages[Head(reader.messages)].rec
  /\ reader.pc = "part" => Head(reader.messages) \in store.dirs

LegacyWhole ==
  harness = "legacy" /\ seen.touched = {} /\ reader.error = "none" => WhereLegacyIs /\ ToTell

LEMMA SpokenIs == Spoken = Voices(emitted)
BY DEF Spoken, Voices

LEMMA LegacyUnreadIs ==
  ASSUME NEW files, files.session.form = "record", files.there
  PROVE  LegacyUnread(files) <=> \E name \in Listed(files.messages) : MessageLost(files, name)
BY DEF LegacyUnread, MessageLost, PartLost

LEMMA LegacyListsAll ==
  ASSUME LegacyType, WhereLegacyIs, ToTell, LegacyStarts \/ LegacyLists \/ (LegacyQuits /\ reader'.error = "none")
  PROVE  WhereLegacyIs' /\ ToTell'
<1>0. /\ reader.pc \in Early => emitted = <<>> /\ ~reader.partial
      /\ reader.pc # "done" => reader.error = "none" /\ ~reader.changed
  BY DEF LegacyType
<1>1. CASE LegacyStarts
  <2>1. reader'.pc \in {"session", "list"} /\ (reader'.pc = "list" => store'.session.form = "record")
    BY <1>1 DEF LegacyStarts, LegacyRests
  <2>2. QED
    BY <2>1 DEF WhereLegacyIs, ToTell
<1>2. ASSUME emitted' = <<>> PROVE Spoken' = <<>>
  BY <1>2 DEF Spoken
<1>3. CASE LegacyLists
  <2> DEFINE X == Listed(store.messages)
             F == MessageTells(store)
             all == Over(F, X)
  <2>1. /\ reader.pc = "list" /\ reader'.pc = "message" /\ store.there /\ UNCHANGED <<reader.partial, store, emitted>>
        /\ reader'.messages = Ascending(X)
    BY <1>3 DEF LegacyLists
  <2>2. ToSet(reader'.messages) = X /\ X \in SUBSET Names
    <3>1. X \in SUBSET Names
      BY DEF Listed
    <3> HIDE DEF X
    <3>2. QED
      BY <2>1, <3>1, SortsAscending
  <2>3. store.session.form = "record"
    BY <2>1 DEF WhereLegacyIs
  <2>4. Spoken' = <<>> /\ reader'.partial = FALSE
    <3>1. emitted' = <<>> /\ ~reader'.partial
      BY <1>0, <2>1 DEF Early
    <3>2. reader'.partial \in BOOLEAN
      BY <2>1 DEF LegacyType, Result
    <3>3. QED
      BY <1>2, <3>1, <3>2
  <2>5. all \in Seq(Sayings) /\ LegacySays(store) = all
    BY <2>1, <2>2, <2>3, MessagesTellType, OverSorted, LegacySaysAll
  <2>6. LegacyUnread(store) <=> \E name \in X : MessageLost(store, name)
    BY <2>1, <2>3, LegacyUnreadIs
  <2>7. Spoken' \o Over(MessageTells(store'), ToSet(reader'.messages)) = LegacySays(store')
    <3>1. Over(MessageTells(store'), ToSet(reader'.messages)) = all
      BY <2>1, <2>2
    <3> HIDE DEF all
    <3>2. <<>> \o all = all
      BY <2>5
    <3>3. QED
      BY <2>1, <2>4, <2>5, <3>1, <3>2
  <2>8. (reader'.partial \/ \E name \in ToSet(reader'.messages) : MessageLost(store', name)) <=> LegacyUnread(store')
    BY <2>1, <2>2, <2>4, <2>6
  <2>9. WhereLegacyIs'
    BY <2>1, <2>3 DEF WhereLegacyIs
  <2>10. QED
    BY <2>1, <2>7, <2>8, <2>9 DEF ToTell
<1>4. CASE LegacyQuits /\ reader'.error = "none"
  <2>1. /\ UNCHANGED <<emitted, store>> /\ reader'.pc = "done" /\ reader'.partial = TRUE /\ reader.pc \in Early
        /\ store.session.form # "record" \/ ~store.there
    BY <1>4 DEF LegacyQuits
  <2>2. Spoken' = <<>>
    BY <1>0, <1>2, <2>1
  <2>3. LegacySays(store) = <<>> /\ LegacyUnread(store)
    BY <2>1, Zenon DEF LegacySays, LegacyUnread
  <2>4. WhereLegacyIs'
    BY <2>1 DEF WhereLegacyIs
  <2>5. QED
    BY <2>1, <2>2, <2>3, <2>4 DEF ToTell
<1>5. QED
  BY <1>1, <1>3, <1>4

LEMMA LegacyOpensAll ==
  ASSUME LegacyType, WhereLegacyIs, ToTell, LegacyOpens \/ LegacySkips \/ LegacyEnters
  PROVE  WhereLegacyIs' /\ ToTell'
<1> DEFINE F == MessageTells(store)
           h == Head(reader.messages)
           X == ToSet(reader.messages)
           Z == ToSet(Tail(reader.messages))
<1>1. /\ reader.pc \in {"message", "parts"} /\ UNCHANGED <<emitted, store>> /\ reader.messages # <<>>
      /\ Sorts(reader.messages)
  BY DEF LegacyType, LegacyOpens, LegacySkips, LegacyEnters
<1>2. h \in Names /\ h \in X /\ Z = X \ {h} /\ Z \in SUBSET Names
  BY <1>1, SortsTail DEF Sorts
<1>3. /\ Over(F, X) = F[h] \o Over(F, Z) /\ F[h] \in Seq(Sayings) /\ Over(F, Z) \in Seq(Sayings)
  <2>1. Tells(F, Names, Sayings)
    BY MessagesTellType
  <2> HIDE DEF F
  <2>2. QED
    BY <1>1, <1>2, <2>1, OverHead, OverSorted
<1>4. /\ Spoken \o Over(F, X) = LegacySays(store)
      /\ (reader.partial \/ \E name \in X : MessageLost(store, name)) <=> LegacyUnread(store)
      /\ store.session.form = "record" /\ store.there
  BY <1>1 DEF ToTell, WhereLegacyIs
<1>5. F[h] = IF store.messages[h].form = "record" /\ h \in store.dirs
             THEN Over(PartTells(store)[h], Listed(store.parts[h])) ELSE <<>>
  BY <1>2 DEF MessageTells
<1>6. Spoken' = Spoken
  BY <1>1 DEF Spoken
<1> HIDE DEF F, h, X, Z
<1>7. CASE LegacyOpens
  <2>1. /\ reader.pc = "message" /\ reader'.pc = "parts" /\ reader'.messages = reader.messages
        /\ store.messages[h].form = "record" /\ reader'.body = store.messages[h].rec /\ UNCHANGED reader.partial
    BY <1>7 DEF LegacyOpens, h
  <2>2. WhereLegacyIs'
    BY <1>1, <1>4, <2>1 DEF WhereLegacyIs, h
  <2>3. ToTell'
    BY <1>1, <1>4, <1>6, <2>1 DEF ToTell, F, X
  <2>4. QED
    BY <2>2, <2>3
<1>8. CASE LegacySkips
  <2>1. /\ reader'.pc = "message" /\ reader'.partial = TRUE /\ reader'.messages = Tail(reader.messages)
        /\ \/ store.messages[h].form # "record"
           \/ h \notin store.dirs \/ Listed(store.parts[h]) = {}
    BY <1>8 DEF LegacySkips, h
  <2>2. F[h] = <<>> /\ MessageLost(store, h)
    <3>1. CASE Listed(store.parts[h]) = {}
      BY <1>5, <3>1, OverNone DEF MessageLost
    <3>2. CASE store.messages[h].form # "record" \/ h \notin store.dirs
      BY <1>5, <3>2 DEF MessageLost
    <3>3. QED
      BY <2>1, <3>1, <3>2
  <2>3. Over(F, X) = Over(F, Z)
    <3> DEFINE rest == Over(F, Z)
    <3>1. rest \in Seq(Sayings)
      BY <1>3
    <3>2. Over(F, X) = <<>> \o rest
      BY <1>3, <2>2
    <3> HIDE DEF rest
    <3>3. <<>> \o rest = rest
      BY <3>1
    <3>4. QED
      BY <3>2, <3>3 DEF rest
  <2>4. Spoken' \o Over(MessageTells(store'), ToSet(reader'.messages)) = LegacySays(store')
    BY <1>1, <1>4, <1>6, <2>1, <2>3 DEF F, Z
  <2>5. (reader'.partial \/ \E name \in ToSet(reader'.messages) : MessageLost(store', name)) <=> LegacyUnread(store')
    BY <1>1, <1>2, <1>4, <2>1, <2>2
  <2>6. WhereLegacyIs'
    BY <1>1, <1>4, <2>1 DEF WhereLegacyIs
  <2>7. QED
    BY <2>1, <2>4, <2>5, <2>6 DEF ToTell
<1>9. CASE LegacyEnters
  <2> DEFINE Y == Listed(store.parts[h])
             G == PartTells(store)[h]
  <2>1. /\ reader.pc = "parts" /\ reader'.pc = "part" /\ h \in store.dirs /\ Y # {}
        /\ reader'.parts = Ascending(Y) /\ UNCHANGED <<reader.partial, reader.body, reader.messages>>
    BY <1>9 DEF LegacyEnters, h
  <2>2. store.messages[h].form = "record" /\ reader.body = store.messages[h].rec
    BY <2>1 DEF WhereLegacyIs, h
  <2>3. ToSet(reader'.parts) = Y
    <3>1. Y \in SUBSET Names
      BY DEF Listed
    <3> HIDE DEF Y
    <3>2. QED
      BY <2>1, <3>1, SortsAscending
  <2>4. F[h] = Over(G, Y)
    BY <1>5, <2>1, <2>2
  <2>5. MessageLost(store, h) <=> \E part \in Y : PartLost(store.parts[h][part])
    BY <2>1, <2>2 DEF MessageLost
  <2> HIDE DEF Y, G
  <2>6. /\ Spoken \o (Over(G, Y) \o Over(F, Z)) = LegacySays(store)
        /\ (\/ reader.partial
            \/ \E part \in Y : PartLost(store.parts[h][part])
            \/ \E name \in Z : MessageLost(store, name)) <=> LegacyUnread(store)
    <3>1. Spoken \o (Over(G, Y) \o Over(F, Z)) = LegacySays(store)
      BY <1>3, <1>4, <2>4
    <3>2. (\E name \in X : MessageLost(store, name)) <=> MessageLost(store, h) \/ \E name \in Z : MessageLost(store, name)
      BY <1>2
    <3>3. QED
      BY <1>4, <2>5, <3>1, <3>2
  <2>7. WhereLegacyIs'
    BY <1>1, <1>4, <2>1, <2>2 DEF WhereLegacyIs, h
  <2>8. UNCHANGED <<store, reader.messages, reader.partial>> /\ Spoken' = Spoken
    BY <1>1, <1>6, <2>1
  <2>9. ToTell'
    BY <2>1, <2>3, <2>6, <2>8 DEF ToTell, F, Z, G, h
  <2>10. QED
    BY <2>7, <2>9
<1>10. QED
  BY <1>7, <1>8, <1>9

LEMMA LegacyTakesAll ==
  ASSUME LegacyType, WhereLegacyIs, ToTell, LegacyTakes
  PROVE  WhereLegacyIs' /\ ToTell'
<1> DEFINE h == Head(reader.messages)
           p == Head(reader.parts)
           F == MessageTells(store)
           G == PartTells(store)[h]
           Y == ToSet(reader.parts)
           Z == ToSet(Tail(reader.messages))
           W == ToSet(Tail(reader.parts))
           now == Spoken
           rest == Over(F, Z)
           others == Over(G, W)
<1>1. /\ reader.pc = "part" /\ reader.messages # <<>> /\ reader.parts # <<>>
      /\ Sorts(reader.messages) /\ Sorts(reader.parts) /\ UNCHANGED store
      /\ emitted \in Seq(Messages) /\ reader.index \in Nat
  BY DEF LegacyTakes, LegacyType
<1>2. /\ h \in Names /\ p \in Names /\ p \in Y /\ W = Y \ {p} /\ Z \in SUBSET Names /\ W \in SUBSET Names
      /\ Len(reader.parts) = 1 <=> W = {}
  BY <1>1, SortsTail DEF Sorts
<1>3. Over(G, Y) = G[p] \o others /\ G[p] \in Seq(Sayings) /\ others \in Seq(Sayings)
  <2>1. Tells(G, Names, Sayings)
    BY <1>2, PartsTellType
  <2> HIDE DEF G
  <2>2. QED
    BY <1>1, <1>2, <2>1, OverHead, OverSorted
<1>4. rest \in Seq(Sayings)
  BY <1>2, MessagesTellType, OverSorted
<1>5. now \in Seq(Sayings)
  BY <1>1, SpokenIs, VoicesJoin
<1>6. /\ now \o (Over(G, Y) \o rest) = LegacySays(store)
      /\ (\/ reader.partial
          \/ \E part \in Y : PartLost(store.parts[h][part])
          \/ \E name \in Z : MessageLost(store, name)) <=> LegacyUnread(store)
  BY <1>1 DEF ToTell
<1>7. /\ store.session.form = "record" /\ store.there /\ h \in store.dirs
      /\ store.messages[h].form = "record" /\ reader.body = store.messages[h].rec
  BY <1>1 DEF WhereLegacyIs
<1>8. G[p] = IF PartFile.form = "record" THEN Said(reader.body, PartFile.rec) ELSE <<>>
  BY <1>2, <1>7 DEF PartTells, PartFile
<1>9. Spoken' = now \o G[p]
  <2>1. CASE PartFile.form # "record"
    <3>1. emitted' = emitted
      BY <2>1 DEF LegacyTakes
    <3>2. Spoken' = Spoken
      BY <3>1 DEF Spoken
    <3>3. G[p] = <<>>
      BY <1>8, <2>1
    <3> HIDE DEF now
    <3>4. now \o <<>> = now
      BY <1>5
    <3>5. QED
      BY <3>2, <3>3, <3>4 DEF now
  <2>2. CASE PartFile.form = "record"
    <3>1. emitted' = emitted \o PartSays(reader.body, PartFile.rec, reader.index)
      BY <2>2 DEF LegacyTakes
    <3>2. Voices(emitted') = Voices(emitted) \o Said(reader.body, PartFile.rec)
      BY <1>1, <3>1, VoicesSaid
    <3>3. Spoken' = Voices(emitted')
      BY DEF Spoken, Voices
    <3>4. QED
      BY <1>8, <2>2, <3>2, <3>3, SpokenIs
  <2>3. QED
    BY <2>1, <2>2
<1>10. Spoken' \o (others \o rest) = LegacySays(store)
  <2> DEFINE one == G[p]
  <2>1. now \o ((one \o others) \o rest) = LegacySays(store) /\ Spoken' = now \o one
    BY <1>3, <1>6, <1>9
  <2>6. one \in Seq(Sayings) /\ others \in Seq(Sayings) /\ rest \in Seq(Sayings) /\ now \in Seq(Sayings)
    BY <1>3, <1>4, <1>5
  <2> HIDE DEF now, others, rest, one
  <2>2. now \o ((one \o others) \o rest) = (now \o one) \o (others \o rest)
    BY ONLY <2>6, Regrouped, SMTT(30)
  <2>3. QED
    BY <2>1, <2>2
<1>11. (\/ reader'.partial
        \/ \E part \in W : PartLost(store.parts[h][part])
        \/ \E name \in Z : MessageLost(store, name)) <=> LegacyUnread(store)
  <2>1. reader'.partial <=> reader.partial \/ PartLost(store.parts[h][p])
    BY DEF LegacyTakes, PartFile
  <2>2. (\E part \in Y : PartLost(store.parts[h][part]))
          <=> PartLost(store.parts[h][p]) \/ \E part \in W : PartLost(store.parts[h][part])
    BY <1>2
  <2> HIDE DEF h, p, Y, Z, W
  <2>3. QED
    BY <1>6, <2>1, <2>2
<1> HIDE DEF rest, others
<1>12. CASE Len(reader.parts) = 1
  <2>1. reader'.pc = "message" /\ reader'.messages = Tail(reader.messages)
    BY <1>12 DEF LegacyTakes
  <2>2. W = {}
    BY <1>2, <1>12
  <2>3. others = <<>>
    BY <2>2, OverNone DEF others
  <2>4. <<>> \o rest = rest
    BY <1>4
  <2>5. Spoken' \o rest = LegacySays(store)
    BY <1>10, <2>3, <2>4
  <2>6. (reader'.partial \/ \E name \in Z : MessageLost(store, name)) <=> LegacyUnread(store)
    BY <1>11, <2>2
  <2>7. Spoken' \o Over(MessageTells(store'), ToSet(reader'.messages)) = LegacySays(store')
    BY <1>1, <2>1, <2>5 DEF rest
  <2>8. (reader'.partial \/ \E name \in ToSet(reader'.messages) : MessageLost(store', name)) <=> LegacyUnread(store')
    BY <1>1, <2>1, <2>6
  <2>9. WhereLegacyIs'
    BY <1>1, <1>7, <2>1 DEF WhereLegacyIs
  <2>10. QED
    BY <2>1, <2>7, <2>8, <2>9 DEF ToTell
<1>13. CASE Len(reader.parts) # 1
  <2>1. /\ reader'.pc = "part" /\ reader'.messages = reader.messages /\ reader'.parts = Tail(reader.parts)
        /\ reader'.body = reader.body
    BY <1>13 DEF LegacyTakes
  <2>2. WhereLegacyIs'
    BY <1>1, <1>7, <2>1 DEF WhereLegacyIs
  <2>3. Spoken' \o (Over(PartTells(store')[Head(reader'.messages)], ToSet(reader'.parts))
                      \o Over(MessageTells(store'), ToSet(Tail(reader'.messages)))) = LegacySays(store')
    BY <1>1, <1>10, <2>1 DEF rest, others
  <2>4. (\/ reader'.partial
         \/ \E part \in ToSet(reader'.parts) : PartLost(store'.parts[Head(reader'.messages)][part])
         \/ \E name \in ToSet(Tail(reader'.messages)) : MessageLost(store', name)) <=> LegacyUnread(store')
    BY <1>1, <1>11, <2>1
  <2>5. QED
    BY <2>1, <2>2, <2>3, <2>4 DEF ToTell
<1>14. QED
  BY <1>12, <1>13

LEMMA LegacyEndsAll ==
  ASSUME LegacyType, WhereLegacyIs, ToTell, LegacyEnds
  PROVE  WhereLegacyIs' /\ ToTell'
<1>1. /\ reader.pc = "message" /\ reader.messages = <<>> /\ reader'.pc = "done" /\ UNCHANGED <<emitted, store>>
      /\ reader'.changed = TRUE \/ UNCHANGED <<reader.changed, reader.partial>>
      /\ emitted \in Seq(Messages)
  BY DEF LegacyEnds, LegacyType
<1>2. ToSet(<<>>) = {}
  BY DEF ToSet
<1>3. Spoken \o <<>> = LegacySays(store) /\ (reader.partial <=> LegacyUnread(store))
  BY <1>1, <1>2, OverNone DEF ToTell
<1> DEFINE now == Spoken
<1>4. now \in Seq(Sayings)
  BY <1>1, SpokenIs, VoicesJoin
<1>5. Spoken = LegacySays(store)
  <2>1. now \o <<>> = LegacySays(store)
    BY <1>3
  <2> HIDE DEF now
  <2>2. now = LegacySays(store)
    BY <1>4, <2>1
  <2>3. QED
    BY <2>2 DEF now
<1>6. Spoken' = Spoken
  BY <1>1 DEF Spoken
<1>7. QED
  BY <1>1, <1>3, <1>5, <1>6 DEF WhereLegacyIs, ToTell

LEMMA LegacyWholeStep ==
  ASSUME harness = "legacy", UNCHANGED harness, LegacyType, LegacyWhole, LegacyMove
  PROVE  LegacyWhole'
<1> SUFFICES ASSUME seen'.touched = {}, reader'.error = "none" PROVE WhereLegacyIs' /\ ToTell'
  BY DEF LegacyWhole
<1>1. CASE LegacyHarnessWrites
  BY <1>1, LegacyWriting
<1>2. CASE UNCHANGED <<reader, emitted, seen, store>>
  BY <1>2 DEF LegacyWhole, WhereLegacyIs, ToTell, Spoken
<1>3. CASE LegacyQuits \/ LegacyStarts \/ LegacyLists
  <2>1. seen.touched = {}
    BY <1>3 DEF LegacyQuits, LegacyStarts, LegacyRests, LegacyLists
  <2>2. reader.error = "none"
    BY <1>3 DEF LegacyQuits, LegacyType, LegacyStarts, LegacyRests, LegacyLists
  <2>3. QED
    BY <1>3, <2>1, <2>2, LegacyListsAll DEF LegacyWhole
<1>4. CASE LegacySkips \/ LegacyOpens \/ LegacyEnters
  <2>1. seen.touched = {} /\ reader.error = "none"
    BY <1>4 DEF LegacySkips, LegacyOpens, LegacyEnters
  <2>2. QED
    BY <1>4, <2>1, LegacyOpensAll DEF LegacyWhole
<1>5. CASE LegacyTakes
  <2>1. seen.touched = {} /\ reader.error = "none"
    BY <1>5 DEF LegacyTakes
  <2>2. QED
    BY <1>5, <2>1, LegacyTakesAll DEF LegacyWhole
<1>6. CASE LegacyEnds
  <2>1. seen.touched = {} /\ reader.error = "none"
    BY <1>6 DEF LegacyEnds
  <2>2. QED
    BY <1>6, <2>1, LegacyEndsAll DEF LegacyWhole
<1>7. QED
  BY <1>1, <1>2, <1>3, <1>4, <1>5, <1>6 DEF LegacyMove

LEMMA LegacyWholeAlways == Spec => [](harness = "legacy" => LegacyType /\ LegacyTold /\ LegacyWhole)
<1> DEFINE Inv == harness = "legacy" => LegacyType /\ LegacyTold
           Whole == harness = "legacy" => LegacyWhole
<1>1. Init => Whole
  <2> SUFFICES ASSUME Init, harness = "legacy" PROVE LegacyWhole
    OBVIOUS
  <2>1. reader.pc = "stat"
    BY LegacyStarting
  <2>2. QED
    BY <2>1 DEF LegacyWhole, WhereLegacyIs, ToTell
<1>2. Inv /\ Whole /\ [Next]_vars => Whole'
  <2> SUFFICES ASSUME Inv, Whole, [Next]_vars, harness' = "legacy" PROVE LegacyWhole'
    OBVIOUS
  <2>1. UNCHANGED harness
    BY HarnessStays
  <2>2. harness = "legacy" /\ LegacyType /\ LegacyWhole
    BY <2>1
  <2>3. QED
    BY <2>1, <2>2, LegacyMoves, LegacyWholeStep
<1>3. Spec => []Inv
  BY LegacyAlways
<1>4. Inv /\ Whole => (harness = "legacy" => LegacyType /\ LegacyTold /\ LegacyWhole)
  OBVIOUS
<1>5. QED
  BY <1>1, <1>2, <1>3, <1>4, PTL DEF Spec

\* A legacy session nothing happened to is told as it is on the disk, and marked
\* partial exactly when some of it was lost.
LEMMA LegacyIsWhole ==
  ASSUME harness = "legacy", LegacyType, LegacyWhole, Undisturbed
  PROVE  Spoken = LegacySays(store) /\ (reader.partial <=> LegacyUnread(store))
<1>1. reader.error = "none" /\ reader.pc = "done" /\ seen.touched = {} /\ ~reader.changed
  BY DEF Undisturbed, Returned, Done, Running
<1>2. QED
  BY <1>1 DEF LegacyWhole, ToTell

(***************************************************************************)
(* What is told along an order.                                            *)
(***************************************************************************)

\* An order of a set, of a part of it.
Limited(below, T) == [t \in T |-> below[t] \cap T]

LEMMA LimitedOrders ==
  ASSUME NEW S, NEW below, TotalOrder(below, S), NEW T \in SUBSET S
  PROVE  TotalOrder(Limited(below, T), T)
<1>1. \A s, t \in T : s \in Limited(below, T)[t] <=> s \in below[t]
  BY DEF Limited
<1>2. \A t \in T : Limited(below, T)[t] \subseteq T
  BY DEF Limited
<1>3. /\ \A s \in S : below[s] \subseteq S \ {s}
      /\ \A s, t \in S : s # t => s \in below[t] \/ t \in below[s]
      /\ \A s, t \in S : s \in below[t] => below[s] \subseteq below[t]
  BY DEF TotalOrder
<1>4. \A s \in T : Limited(below, T)[s] \subseteq T \ {s}
  BY <1>1, <1>2, <1>3
<1>5. \A s, t \in T : s # t => s \in Limited(below, T)[t] \/ t \in Limited(below, T)[s]
  BY <1>1, <1>3
<1>6. \A s, t \in T : s \in Limited(below, T)[t] => Limited(below, T)[s] \subseteq Limited(below, T)[t]
  <2> SUFFICES ASSUME NEW s \in T, NEW t \in T, s \in Limited(below, T)[t], NEW r \in Limited(below, T)[s]
               PROVE  r \in Limited(below, T)[t]
    OBVIOUS
  <2>1. r \in T /\ r \in below[s] /\ s \in below[t]
    BY <1>1, <1>2
  <2>2. r \in below[t]
    BY <1>3, <2>1
  <2>3. QED
    BY <1>1, <2>1, <2>2
<1>7. QED
  BY <1>4, <1>5, <1>6 DEF TotalOrder

\* Without its first element, a set is ordered as it was.
LEMMA ArrangedTail ==
  ASSUME NEW X, IsFiniteSet(X), X # {}, NEW below, TotalOrder(below, X)
  PROVE  LET A == Arranged(X, below)
             m == Head(A)
         IN  /\ m \in X /\ (\A x \in X : x # m => m \in below[x])
             /\ Tail(A) = Arranged(X \ {m}, Limited(below, X \ {m}))
             /\ A # <<>> /\ A \in Seq(X) /\ ToSet(A) = X
<1> DEFINE n == Cardinality(X)
           A == Arranged(X, below)
           m == Head(A)
           Y == X \ {m}
           T == Tail(A)
<1>0. Orders(A, n, X, below) /\ n \in Nat
  BY ArrangedOrders
<1>1. /\ n \in Nat /\ DOMAIN A = 1..n /\ A \in Seq(X) /\ Len(A) = n
      /\ \A s \in X : \E i \in 1..n : A[i] = s
      /\ \A i, j \in 1..n : i < j => A[i] \in below[A[j]]
      /\ \A i \in 1..n : A[i] \in X
  <2>1. /\ A \in [1..n -> X] /\ (\A s \in X : \E i \in 1..n : A[i] = s)
        /\ \A i, j \in 1..n : i < j => A[i] \in below[A[j]]
    BY <1>0 DEF Orders
  <2> HIDE DEF A, n
  <2>2. A \in Seq(X) /\ Len(A) = n
    BY <1>0, <2>1
  <2>3. QED
    BY <1>0, <2>1, <2>2
<1>2. n # 0
  <2> HIDE DEF A, n
  <2>1. PICK s \in X : TRUE
    OBVIOUS
  <2>2. PICK i \in 1..n : A[i] = s
    BY <1>1, <2>1
  <2>3. QED
    BY <1>1, <2>2
<1>3. A # <<>> /\ m = A[1] /\ 1 \in 1..n /\ A[1] \in X
  BY <1>1, <1>2
<1>4. \A x \in X : x # m => m \in below[x]
  <2> SUFFICES ASSUME NEW x \in X, x # A[1] PROVE A[1] \in below[x]
    BY <1>3
  <2>1. PICK i \in 1..n : A[i] = x
    BY <1>1
  <2>2. 1 < i
    BY <2>1
  <2>3. QED
    BY <1>1, <1>3, <2>1, <2>2
<1>5. T \in Seq(X) /\ Len(T) = n - 1 /\ \A i \in 1..(n - 1) : T[i] = A[i + 1]
  BY <1>1, <1>3
<1>6. Orders(T, n - 1, Y, Limited(below, Y))
  <2> HIDE DEF T, A, n
  <2>1. ASSUME NEW i \in 1..(n - 1) PROVE T[i] \in Y
    <3>1. i + 1 \in 1..n /\ 1 < i + 1
      BY <1>1
    <3>2. A[1] \in below[A[i + 1]] /\ A[i + 1] \in X
      BY <1>1, <1>3, <3>1
    <3>3. A[i + 1] # A[1]
      BY <3>2 DEF TotalOrder
    <3>4. QED
      BY <1>3, <1>5, <3>2, <3>3
  <2>2. ASSUME NEW y \in Y PROVE \E i \in 1..(n - 1) : T[i] = y
    <3>1. PICK i \in 1..n : A[i] = y
      BY <1>1
    <3>2. i # 1
      BY <1>3, <3>1
    <3> DEFINE k == i - 1
    <3>3. k \in 1..(n - 1) /\ k + 1 = i
      BY <1>1, <3>2
    <3> HIDE DEF k
    <3>4. T[k] = A[k + 1]
      BY <1>5, <3>3
    <3>5. QED
      BY <3>1, <3>3, <3>4
  <2>3. ASSUME NEW i \in 1..(n - 1), NEW j \in 1..(n - 1), i < j PROVE T[i] \in Limited(below, Y)[T[j]]
    <3>1. i + 1 \in 1..n /\ j + 1 \in 1..n /\ i + 1 < j + 1
      BY <1>1, <2>3
    <3>2. A[i + 1] \in below[A[j + 1]]
      BY <1>1, <3>1
    <3>3. T[i] \in below[T[j]] /\ T[i] \in Y /\ T[j] \in Y
      BY <1>5, <2>1, <3>2
    <3>4. QED
      BY <3>3 DEF Limited
  <2>4. DOMAIN T = 1..(n - 1) /\ T = [i \in 1..(n - 1) |-> T[i]]
    BY <1>1, <1>5
  <2>5. T \in [1..(n - 1) -> Y]
    BY <2>1, <2>4
  <2>6. QED
    BY <2>2, <2>3, <2>5 DEF Orders
<1>7. n - 1 \in Nat
  <2> HIDE DEF n, A
  <2>1. n \in Nat
    BY <1>1
  <2>2. QED
    BY <1>2, <2>1
<1>8. TotalOrder(Limited(below, Y), Y)
  BY LimitedOrders
<1>9. ToSet(A) = X
  <2> HIDE DEF A, n
  <2>1. QED
    BY <1>1 DEF ToSet
<1> HIDE DEF T, A, n, m, Y
<1>10. Arranged(Y, Limited(below, Y)) = T
  BY <1>6, <1>7, <1>8, ArrangedUnique
<1>11. QED
  BY <1>1, <1>3, <1>4, <1>9, <1>10 DEF T, A, n, m, Y

LEMMA ArrangedNone == ASSUME NEW below PROVE Arranged({}, below) = <<>>
<1>1. Cardinality({}) = 0
  BY FS_EmptySet
<1>2. QED
  BY <1>1 DEF Arranged

\* What F tells of the elements of S, in their order.
Along(F, S, below) == FlattenSeq([i \in DOMAIN Arranged(S, below) |-> F[Arranged(S, below)[i]]])

LEMMA AlongNone == ASSUME NEW F, NEW below PROVE Along(F, {}, below) = <<>>
<1>1. [i \in DOMAIN <<>> |-> F[<<>>[i]]] = <<>>
  OBVIOUS
<1>2. Along(F, {}, below) = FlattenSeq(<<>>)
  BY <1>1, ArrangedNone DEF Along
<1>3. QED
  BY <1>2, FlattenNone

\* All that is told of a sequence of elements, from the first on.
AllOf(F, s) == FlattenSeq([i \in DOMAIN s |-> F[s[i]]])

LEMMA AllOfType ==
  ASSUME NEW X, NEW s \in Seq(X), NEW F, NEW S, Tells(F, X, S)
  PROVE  [i \in DOMAIN s |-> F[s[i]]] \in Seq(Seq(S)) /\ AllOf(F, s) \in Seq(S)
<1> DEFINE n == Len(s)
           N == 1..n
           all == [i \in DOMAIN s |-> F[s[i]]]
           T == Seq(S)
<1>1. n \in Nat /\ DOMAIN s = N /\ \A i \in N : s[i] \in X
  OBVIOUS
<1>2. \A i \in N : F[s[i]] \in T
  BY <1>1 DEF Tells
<1>3. all \in [N -> T]
  BY <1>1, <1>2
<1> HIDE DEF all, n, T
<1>4. all \in Seq(T)
  BY <1>1, <1>3
<1>5. all \in Seq(Seq(S))
  BY <1>4 DEF T
<1>6. QED
  BY <1>5, FlattenType DEF AllOf, all

LEMMA AllOfNone == ASSUME NEW F PROVE AllOf(F, <<>>) = <<>>
<1>1. [i \in DOMAIN <<>> |-> F[<<>>[i]]] = <<>>
  OBVIOUS
<1>2. QED
  BY <1>1, FlattenNone DEF AllOf

LEMMA AllOfHead ==
  ASSUME NEW X, NEW s \in Seq(X), s # <<>>, NEW F, NEW S, Tells(F, X, S)
  PROVE  AllOf(F, s) = F[Head(s)] \o AllOf(F, Tail(s)) /\ F[Head(s)] \in Seq(S)
<1> DEFINE all == [i \in DOMAIN s |-> F[s[i]]]
           n == Len(s)
           t == Tail(s)
           more == [i \in DOMAIN t |-> F[t[i]]]
<1>1. /\ n \in Nat /\ n # 0 /\ DOMAIN s = 1..n /\ DOMAIN t = 1..(n - 1) /\ t \in Seq(X)
      /\ \A i \in 1..(n - 1) : t[i] = s[i + 1]
      /\ Head(s) = s[1] /\ s[1] \in X
  OBVIOUS
<1>2. all \in Seq(Seq(S))
  BY AllOfType
<1>3. all # <<>> /\ Head(all) = F[Head(s)] /\ Len(all) = n
  <2>1. DOMAIN all = 1..n /\ all[1] = F[s[1]]
    BY <1>1
  <2> HIDE DEF all, n
  <2>2. QED
    BY <1>1, <1>2, <2>1
<1>4. Tail(all) = more
  <2>1. DOMAIN more = 1..(n - 1) /\ \A i \in 1..(n - 1) : more[i] = all[i + 1]
    <3>1. \A i \in 1..(n - 1) : i + 1 \in 1..n
      BY <1>1
    <3> HIDE DEF n, t
    <3>2. QED
      BY <1>1, <3>1
  <2> HIDE DEF all, more, n, t
  <2>2. more = [i \in 1..(n - 1) |-> more[i]]
    <3>1. more = [i \in DOMAIN t |-> F[t[i]]]
      BY DEF more
    <3>2. QED
      BY <2>1, <3>1
  <2> DEFINE rest == Tail(all)
  <2>3. rest \in Seq(Seq(S)) /\ Len(rest) = n - 1 /\ \A i \in 1..(n - 1) : rest[i] = all[i + 1]
    BY <1>2, <1>3
  <2> HIDE DEF rest
  <2>4. rest = [i \in 1..(n - 1) |-> rest[i]]
    BY <2>3
  <2>5. rest = more
    BY <2>1, <2>2, <2>3, <2>4
  <2>6. QED
    BY <2>5 DEF rest
<1> HIDE DEF all, more
<1>5. FlattenSeq(all) = F[Head(s)] \o FlattenSeq(more)
  BY <1>2, <1>3, <1>4, FlattenCons
<1>6. F[Head(s)] \in Seq(S)
  BY <1>1 DEF Tells
<1>7. QED
  BY <1>5, <1>6 DEF AllOf, all, more

\* From the first element on.
LEMMA AlongFirst ==
  ASSUME NEW X, IsFiniteSet(X), NEW below, TotalOrder(below, X), NEW F, NEW S, Tells(F, X, S)
  PROVE  /\ Along(F, X, below) \in Seq(S)
         /\ \A m \in X : (\A x \in X : x # m => m \in below[x]) =>
              Along(F, X, below) = F[m] \o Along(F, X \ {m}, Limited(below, X \ {m}))
<1> DEFINE A == Arranged(X, below)
<1>1. Along(F, X, below) = AllOf(F, A)
  BY DEF Along, AllOf
<1>2. CASE X = {}
  <2>1. <<>> \in Seq(S)
    OBVIOUS
  <2>2. QED
    BY <1>2, <2>1, AlongNone
<1>3. CASE X # {}
  <2> DEFINE h == Head(A)
  <2>1. /\ h \in X /\ (\A x \in X : x # h => h \in below[x])
        /\ Tail(A) = Arranged(X \ {h}, Limited(below, X \ {h}))
        /\ A # <<>> /\ A \in Seq(X)
    BY <1>3, ArrangedTail
  <2> HIDE DEF A
  <2>2. AllOf(F, A) = F[h] \o AllOf(F, Tail(A))
    BY <2>1, AllOfHead
  <2>3. AllOf(F, A) \in Seq(S)
    BY <2>1, AllOfType
  <2>4. AllOf(F, Tail(A)) = Along(F, X \ {h}, Limited(below, X \ {h}))
    BY <2>1 DEF AllOf, Along
  <2> HIDE DEF h
  <2>5. ASSUME NEW m \in X, \A x \in X : x # m => m \in below[x] PROVE m = h
    BY <2>1, <2>5 DEF TotalOrder
  <2>6. QED
    BY <1>1, <2>2, <2>3, <2>4, <2>5
<1>4. QED
  BY <1>2, <1>3

\* What is told of a part of an ordered set.
Through(F, T, below) == Along(F, T, Limited(below, T))

LEMMA LimitedTwice ==
  ASSUME NEW below, NEW T, NEW R \in SUBSET T
  PROVE  Limited(Limited(below, T), R) = Limited(below, R)
<1>1. \A r \in R : Limited(below, T)[r] \cap R = below[r] \cap R
  BY DEF Limited
<1>2. QED
  BY <1>1 DEF Limited

LEMMA ThroughFirst ==
  ASSUME NEW U, IsFiniteSet(U), NEW below, TotalOrder(below, U), NEW F, NEW S, Tells(F, U, S),
         NEW X \in SUBSET U
  PROVE  /\ Through(F, X, below) \in Seq(S)
         /\ \A m \in X : (\A x \in X : x # m => m \in below[x]) =>
              Through(F, X, below) = F[m] \o Through(F, X \ {m}, below)
<1> DEFINE over == Limited(below, X)
<1>1. IsFiniteSet(X) /\ TotalOrder(over, X) /\ Tells(F, X, S)
  BY LimitedOrders, FS_Subset DEF Tells
<1>2. \A m \in X : (\A x \in X : x # m => m \in below[x]) => \A x \in X : x # m => m \in over[x]
  BY DEF Limited
<1>3. \A m \in X : Limited(over, X \ {m}) = Limited(below, X \ {m})
  BY LimitedTwice
<1> HIDE DEF over
<1>4. /\ Along(F, X, over) \in Seq(S)
      /\ \A m \in X : (\A x \in X : x # m => m \in over[x]) =>
           Along(F, X, over) = F[m] \o Along(F, X \ {m}, Limited(over, X \ {m}))
  BY <1>1, AlongFirst
<1>5. QED
  BY <1>2, <1>3, <1>4 DEF Through, over

LEMMA ThroughOnly ==
  ASSUME NEW U, IsFiniteSet(U), NEW below, TotalOrder(below, U), NEW F, NEW S, Tells(F, U, S),
         NEW x \in U
  PROVE  Through(F, {x}, below) = F[x]
<1> DEFINE X == {x}
<1>1. X \in SUBSET U /\ x \in X /\ (\A y \in X : y # x => x \in below[y]) /\ X \ {x} = {}
  OBVIOUS
<1> HIDE DEF X
<1>2. Through(F, X, below) = F[x] \o Through(F, X \ {x}, below)
  BY <1>1, ThroughFirst
<1>3. Through(F, X \ {x}, below) = <<>>
  BY <1>1, AlongNone DEF Through
<1>4. F[x] \in Seq(S)
  BY DEF Tells
<1> DEFINE y == F[x]
<1> HIDE DEF y
<1>5. y \o <<>> = y
  BY <1>4 DEF y
<1>6. QED
  BY <1>2, <1>3, <1>5 DEF X, y

\* All of A comes before all of B.
AllBefore(A, B, below) == \A a \in A, b \in B : a \in below[b]

LEMMA LeastOf ==
  ASSUME NEW X, IsFiniteSet(X), X # {}, NEW below, TotalOrder(below, X)
  PROVE  \E m \in X : \A x \in X : x # m => m \in below[x]
<1> DEFINE m == Head(Arranged(X, below))
<1>1. m \in X /\ \A x \in X : x # m => m \in below[x]
  BY ArrangedTail
<1> HIDE DEF m
<1>2. QED
  BY <1>1

LEMMA ThroughSplits ==
  ASSUME NEW U, IsFiniteSet(U), NEW below, TotalOrder(below, U), NEW F, NEW S, Tells(F, U, S),
         NEW A \in SUBSET U, NEW B \in SUBSET U, AllBefore(A, B, below)
  PROVE  Through(F, A \cup B, below) = Through(F, A, below) \o Through(F, B, below)
<1> DEFINE Splits(L) == Through(F, L \cup B, below) = Through(F, L, below) \o Through(F, B, below)
           Good == {n \in Nat : \A L \in SUBSET A : Cardinality(L) = n => Splits(L)}
           rest == Through(F, B, below)
<1>1. rest \in Seq(S)
  BY ThroughFirst
<1>2. ASSUME NEW L \in SUBSET A PROVE IsFiniteSet(L) /\ Cardinality(L) \in Nat /\ L \in SUBSET U
  BY SubsetSizes
<1>3. ASSUME NEW L \in SUBSET A, Cardinality(L) = 0 PROVE Splits(L)
  <2>1. L = {}
    BY <1>2, <1>3, FS_EmptySet
  <2>2. L \cup B = B /\ Through(F, L, below) = <<>>
    BY <2>1, AlongNone DEF Through
  <2> HIDE DEF rest
  <2>3. <<>> \o rest = rest
    BY <1>1
  <2>4. QED
    BY <2>2, <2>3 DEF rest
<1>4. ASSUME NEW n \in Nat, n \in Good, NEW L \in SUBSET A, Cardinality(L) = n + 1 PROVE Splits(L)
  <2>1. L # {}
    BY <1>4, FS_EmptySet
  <2>2. PICK m \in L : \A x \in L : x # m => m \in Limited(below, L)[x]
    <3>1. TotalOrder(Limited(below, L), L)
      BY <1>2, LimitedOrders
    <3>2. QED
      BY <1>2, <2>1, <3>1, LeastOf
  <2>3. \A x \in L : x # m => m \in below[x]
    BY <2>2 DEF Limited
  <2> DEFINE K == L \ {m}
             all == L \cup B
  <2>4. K \in SUBSET A /\ Cardinality(K) = n
    <3>1. Cardinality(K) = IF m \in L THEN Cardinality(L) - 1 ELSE Cardinality(L)
      BY <1>2, FS_RemoveElement
    <3>2. Cardinality(L) = n + 1 /\ K \in SUBSET A
      BY <1>4
    <3> HIDE DEF K, Good
    <3>3. QED
      BY <2>2, <3>1, <3>2
  <2>5. Splits(K)
    <3> HIDE DEF Splits
    <3>1. QED
      BY <1>4, <2>4
  <2>6. m \notin B
    <3>1. m \in B => m \in below[m]
      BY DEF AllBefore
    <3>2. m \in U
      OBVIOUS
    <3>3. QED
      BY <3>1, <3>2 DEF TotalOrder
  <2>7. all \ {m} = K \cup B /\ m \in all /\ all \in SUBSET U
    BY <2>6
  <2>8. \A x \in all : x # m => m \in below[x]
    BY <2>3 DEF AllBefore
  <2>9. Through(F, all, below) = F[m] \o Through(F, K \cup B, below)
    <3> HIDE DEF all, K
    <3>1. Through(F, all, below) = F[m] \o Through(F, all \ {m}, below)
      BY <2>7, <2>8, ThroughFirst
    <3>2. QED
      BY <2>7, <3>1
  <2>10. Through(F, L, below) = F[m] \o Through(F, K, below)
    <3>1. L \in SUBSET U /\ m \in L
      BY <1>2
    <3>2. Through(F, L, below) = F[m] \o Through(F, L \ {m}, below)
      BY <2>3, <3>1, ThroughFirst
    <3>3. QED
      BY <3>2
  <2> DEFINE first == F[m]
             more == Through(F, K, below)
  <2>11. first \in Seq(S)
    BY <1>2 DEF Tells
  <2>12. more \in Seq(S)
    BY <1>2, <2>4, ThroughFirst
  <2>13. Through(F, L \cup B, below) = first \o (more \o rest)
    BY <2>5, <2>9
  <2>14. Through(F, L, below) = first \o more
    BY <2>10
  <2> HIDE DEF first, more, rest
  <2>15. (first \o more) \o rest = first \o (more \o rest)
    BY <1>1, <2>11, <2>12, ConcatAssociative
  <2>16. QED
    BY <2>13, <2>14, <2>15 DEF rest
<1>5. Cardinality(A) \in Good /\ Cardinality(A) \in Nat
  <2>1. 0 \in Good
    BY <1>3
  <2>2. \A n \in Nat : n \in Good => n + 1 \in Good
    <3> SUFFICES ASSUME NEW n \in Nat, n \in Good PROVE n + 1 \in Good
      OBVIOUS
    <3>1. \A L \in SUBSET A : Cardinality(L) = n + 1 => Splits(L)
      BY <1>4
    <3>2. QED
      BY <3>1
  <2> DEFINE N == Cardinality(A)
  <2>3. N \in Nat
    BY <1>2
  <2> HIDE DEF Good, N
  <2>4. Inductive(Good, N)
    BY <2>1, <2>2 DEF Inductive
  <2>5. N \in Good
    BY <2>3, <2>4, Upward
  <2>6. QED
    BY <2>3, <2>5 DEF N
<1>6. QED
  <2> HIDE DEF Splits
  <2>1. Splits(A)
    BY <1>5
  <2>2. QED
    BY <2>1 DEF Splits

\* The same under other names.
Renames(p, S, below, R, over) ==
  /\ \A s \in S : p[s] \in R
  /\ \A r \in R : \E s \in S : p[s] = r
  /\ \A s, t \in S : s \in below[t] => p[s] \in over[p[t]]

Alike(F, G, p, S) == \A s \in S : F[p[s]] = G[s]

LEMMA AlongRenamed ==
  ASSUME NEW S, IsFiniteSet(S), NEW below, TotalOrder(below, S), NEW R, NEW over, TotalOrder(over, R),
         NEW p, Renames(p, S, below, R, over), NEW F, NEW G, Alike(F, G, p, S)
  PROVE  Along(F, R, over) = Along(G, S, below)
<1> DEFINE A == Arranged(S, below)
           n == Cardinality(S)
           N == 1..n
           f == [i \in N |-> p[A[i]]]
<1>1. n \in Nat /\ A \in [N -> S] /\ (\A s \in S : \E i \in N : A[i] = s)
      /\ \A i, j \in N : i < j => A[i] \in below[A[j]]
  BY ArrangedOrders DEF Orders
<1> HIDE DEF A, n
<1>2. \A i \in N : A[i] \in S /\ f[i] = p[A[i]]
  BY <1>1
<1>3. f \in [N -> R]
  BY <1>2 DEF Renames
<1>4. \A r \in R : \E i \in N : f[i] = r
  <2> SUFFICES ASSUME NEW r \in R PROVE \E i \in N : f[i] = r
    OBVIOUS
  <2>1. PICK s \in S : p[s] = r
    BY DEF Renames
  <2>2. PICK i \in N : A[i] = s
    BY <1>1
  <2>3. QED
    BY <1>2, <2>1, <2>2
<1>5. \A i, j \in N : i < j => f[i] \in over[f[j]]
  BY <1>1, <1>2 DEF Renames
<1> HIDE DEF f
<1>6. Orders(f, n, R, over)
  BY <1>3, <1>4, <1>5 DEF Orders
<1>7. Arranged(R, over) = f
  BY <1>1, <1>6, ArrangedUnique
<1>8. DOMAIN f = N /\ DOMAIN A = N
  BY <1>1, <1>3
<1>9. [i \in N |-> F[f[i]]] = [i \in N |-> G[A[i]]]
  <2>1. \A i \in N : F[f[i]] = G[A[i]]
    BY <1>2 DEF Alike
  <2>2. QED
    BY <2>1
<1>10. Along(F, R, over) = FlattenSeq([i \in N |-> F[f[i]]])
  BY <1>7, <1>8 DEF Along
<1>11. Along(G, S, below) = FlattenSeq([i \in N |-> G[A[i]]])
  BY <1>8 DEF Along, A
<1>12. QED
  BY <1>9, <1>10, <1>11

(***************************************************************************)
(* The rows of a database, and what they tell.                             *)
(***************************************************************************)

TimeOrder(rows) == [s \in rows |-> {r \in rows : r.time < s.time \/ (r.time = s.time /\ r.id < s.id)}]

Timed(rows) ==
  \A r \in rows : r.id \in Nat /\ r.time \in Nat /\ \A s \in rows : r.id = s.id => r = s

LEMMA TimeOrders ==
  ASSUME NEW rows, Timed(rows)
  PROVE  TotalOrder(TimeOrder(rows), rows)
<1> DEFINE Before(r, s) == r.time < s.time \/ (r.time = s.time /\ r.id < s.id)
           below == TimeOrder(rows)
<1>1. \A r, s \in rows : r \in below[s] <=> Before(r, s)
  BY DEF TimeOrder
<1>2. \A s \in rows : below[s] \subseteq rows
  BY DEF TimeOrder
<1>3. \A s \in rows : ~Before(s, s)
  BY DEF Timed
<1>4. \A r, s \in rows : r # s => Before(r, s) \/ Before(s, r)
  <2> SUFFICES ASSUME NEW r \in rows, NEW s \in rows, r # s PROVE Before(r, s) \/ Before(s, r)
    OBVIOUS
  <2>1. r.id # s.id /\ r.id \in Nat /\ s.id \in Nat /\ r.time \in Nat /\ s.time \in Nat
    BY DEF Timed
  <2>2. QED
    BY <2>1
<1>5. \A q, r, s \in rows : Before(q, r) /\ Before(r, s) => Before(q, s)
  BY DEF Timed
<1> HIDE DEF below, Before
<1>6. \A s \in rows : below[s] \subseteq rows \ {s}
  BY <1>1, <1>2, <1>3
<1>7. \A r, s \in rows : r \in below[s] => below[r] \subseteq below[s]
  BY <1>1, <1>2, <1>5
<1>8. QED
  BY <1>1, <1>4, <1>6, <1>7 DEF TotalOrder, below

LEMMA TimeLimited ==
  ASSUME NEW rows, NEW T \in SUBSET rows
  PROVE  Limited(TimeOrder(rows), T) = TimeOrder(T)
<1>1. \A t \in T : TimeOrder(rows)[t] \cap T = {r \in T : r.time < t.time \/ (r.time = t.time /\ r.id < t.id)}
  BY DEF TimeOrder
<1>2. QED
  BY <1>1 DEF Limited, TimeOrder

LEMMA EarlierKeys ==
  ASSUME NEW s, NEW t, DOMAIN s = 1..4
  PROVE  Earlier(s, t) <=>
           \/ s[1] < t[1]
           \/ s[1] = t[1] /\ s[2] < t[2]
           \/ s[1] = t[1] /\ s[2] = t[2] /\ s[3] < t[3]
           \/ s[1] = t[1] /\ s[2] = t[2] /\ s[3] = t[3] /\ s[4] < t[4]
<1>1. 1..4 = {1, 2, 3, 4} /\ 1..0 = {} /\ 1..1 = {1} /\ 1..2 = {1, 2} /\ 1..3 = {1, 2, 3}
  OBVIOUS
<1>2. Earlier(s, t) <=> \E i \in {1, 2, 3, 4} : s[i] < t[i] /\ \A j \in 1..(i - 1) : s[j] = t[j]
  BY <1>1 DEF Earlier
<1>3. (s[1] < t[1] /\ \A j \in 1..(1 - 1) : s[j] = t[j]) <=> s[1] < t[1]
  BY <1>1
<1>4. (s[2] < t[2] /\ \A j \in 1..(2 - 1) : s[j] = t[j]) <=> s[1] = t[1] /\ s[2] < t[2]
  BY <1>1
<1>5. (s[3] < t[3] /\ \A j \in 1..(3 - 1) : s[j] = t[j]) <=> s[1] = t[1] /\ s[2] = t[2] /\ s[3] < t[3]
  BY <1>1
<1>6. (s[4] < t[4] /\ \A j \in 1..(4 - 1) : s[j] = t[j])
        <=> s[1] = t[1] /\ s[2] = t[2] /\ s[3] = t[3] /\ s[4] < t[4]
  BY <1>1
<1>7. QED
  BY <1>2, <1>3, <1>4, <1>5, <1>6

KeysOf(r) == <<r.message.time, r.message.id, r.part.time, r.part.id>>
RowOrder(rows) == [s \in rows |-> {r \in rows : Earlier(KeysOf(r), KeysOf(s))}]

Precede(r, s) ==
  \/ r.message.time < s.message.time
  \/ r.message.time = s.message.time /\ r.message.id < s.message.id
  \/ r.message.time = s.message.time /\ r.message.id = s.message.id /\ r.part.time < s.part.time
  \/ /\ r.message.time = s.message.time /\ r.message.id = s.message.id
     /\ r.part.time = s.part.time /\ r.part.id < s.part.id

LEMMA JoinedRows ==
  ASSUME NEW database, IsDatabase(database)
  PROVE  /\ \A r \in Joined(database) :
              /\ r = [message |-> r.message, part |-> r.part]
              /\ r.message \in database.messages /\ r.part \in database.parts \cup {NoPart}
              /\ r.message.time \in Nat /\ r.message.id \in Nat \ {0} /\ r.part.time \in Nat /\ r.part.id \in Nat
         /\ \A r, s \in Joined(database) : r.message.id = s.message.id => r.message = s.message
         /\ \A r, s \in Joined(database) : r.part.id = s.part.id => r.part = s.part
         /\ IsFiniteSet(Joined(database))
         /\ Timed(database.messages) /\ Timed(database.parts)
<1> DEFINE M == database.messages
           P == database.parts
           J == Joined(database)
           All == [message : M, part : P \cup {NoPart}]
<1>1. /\ \A m \in M : m.id \in Nat \ {0} /\ m.time \in Nat /\ \A n \in M : m.id = n.id => m = n
      /\ \A p \in P : p.id \in Nat \ {0} /\ p.time \in Nat /\ \A q \in P : p.id = q.id => p = q
      /\ IsFiniteSet(M) /\ IsFiniteSet(P)
  BY DEF IsDatabase
<1>2. NoPart.id = 0 /\ NoPart.time = 0
  BY DEF NoPart
<1>3. J \subseteq All
  BY DEF Joined
<1>4. \A r \in All : r = [message |-> r.message, part |-> r.part] /\ r.message \in M /\ r.part \in P \cup {NoPart}
  OBVIOUS
<1>5. IsFiniteSet(J)
  <2> DEFINE Pairs == M \X (P \cup {NoPart})
             row(pair) == [message |-> pair[1], part |-> pair[2]]
             f == [pair \in Pairs |-> row(pair)]
             Rng == {f[pair] : pair \in Pairs}
  <2>1. IsFiniteSet(P \cup {NoPart})
    BY <1>1, FS_AddElement
  <2>2. IsFiniteSet(Pairs)
    BY <1>1, <2>1, FS_Product
  <2>3. f \in Surjection(Pairs, Rng)
    <3>1. f \in [Pairs -> Rng] /\ \A r \in Rng : \E pair \in Pairs : f[pair] = r
      OBVIOUS
    <3> HIDE DEF Pairs, f, Rng
    <3>2. QED
      BY <3>1 DEF Surjection
  <2>4. IsFiniteSet(Rng)
    <3> HIDE DEF Pairs, f, Rng
    <3>1. QED
      BY <2>2, <2>3, FS_Surjection
  <2>5. All \subseteq Rng
    <3> SUFFICES ASSUME NEW r \in All PROVE r \in Rng
      OBVIOUS
    <3> DEFINE pair == <<r.message, r.part>>
    <3>1. pair \in Pairs /\ row(pair) = r
      BY <1>4
    <3>2. f[pair] = r
      BY <3>1
    <3> HIDE DEF pair, f, Pairs
    <3>3. QED
      BY <3>1, <3>2
  <2> HIDE DEF Rng, All, J
  <2>6. QED
    BY <1>3, <2>4, <2>5, FS_Subset
<1>6. Timed(M) /\ Timed(P)
  BY <1>1 DEF Timed
<1> HIDE DEF J, All
<1>7. \A r \in J : /\ r = [message |-> r.message, part |-> r.part] /\ r.message \in M /\ r.part \in P \cup {NoPart}
  BY <1>3, <1>4 DEF All
<1> HIDE DEF M, P
<1>8. \A r \in J : /\ r.message.time \in Nat /\ r.message.id \in Nat \ {0} /\ r.part.time \in Nat /\ r.part.id \in Nat
  BY <1>1, <1>2, <1>7
<1>9. \A r, s \in J : r.message.id = s.message.id => r.message = s.message
  BY <1>1, <1>7
<1>10. \A r, s \in J : r.part.id = s.part.id => r.part = s.part
  <2> SUFFICES ASSUME NEW r \in J, NEW s \in J, r.part.id = s.part.id PROVE r.part = s.part
    OBVIOUS
  <2>1. r.part \in P \cup {NoPart} /\ s.part \in P \cup {NoPart}
    BY <1>7
  <2>2. \A p \in P : p.id # 0
    BY <1>1
  <2>3. QED
    BY <1>1, <1>2, <2>1, <2>2
<1>11. QED
  BY <1>5, <1>6, <1>7, <1>8, <1>9, <1>10 DEF M, P, J

LEMMA RowOrders ==
  ASSUME NEW database, IsDatabase(database)
  PROVE  LET J == Joined(database)
         IN  /\ \A r, s \in J : r \in RowOrder(J)[s] <=> Precede(r, s)
             /\ TotalOrder(RowOrder(J), J)
             /\ Rows(database) = Arranged(J, RowOrder(J))
<1> DEFINE J == Joined(database)
           below == RowOrder(J)
<1>1. Rows(database) = Arranged(J, below)
  BY Zenon DEF Rows, RowOrder, KeysOf
<1>2. /\ \A r \in J : /\ r = [message |-> r.message, part |-> r.part]
                      /\ r.message.time \in Nat /\ r.message.id \in Nat /\ r.part.time \in Nat /\ r.part.id \in Nat
      /\ \A r, s \in J : r.message.id = s.message.id => r.message = s.message
      /\ \A r, s \in J : r.part.id = s.part.id => r.part = s.part
  BY JoinedRows
<1>3. \A s \in J : below[s] \subseteq J
  BY DEF RowOrder
<1>4. \A r, s \in J : r \in below[s] <=> Earlier(KeysOf(r), KeysOf(s))
  BY DEF RowOrder
<1> HIDE DEF J, below
<1>5. ASSUME NEW r \in J, NEW s \in J PROVE r \in below[s] <=> Precede(r, s)
  <2> DEFINE x == KeysOf(r)
             y == KeysOf(s)
  <2>1. /\ DOMAIN x = 1..4 /\ x[1] = r.message.time /\ x[2] = r.message.id /\ x[3] = r.part.time /\ x[4] = r.part.id
        /\ y[1] = s.message.time /\ y[2] = s.message.id /\ y[3] = s.part.time /\ y[4] = s.part.id
    BY DEF KeysOf
  <2>2. r \in below[s] <=> Earlier(x, y)
    BY <1>4
  <2> HIDE DEF x, y
  <2>3. Earlier(x, y) <=> \/ x[1] < y[1]
                          \/ x[1] = y[1] /\ x[2] < y[2]
                          \/ x[1] = y[1] /\ x[2] = y[2] /\ x[3] < y[3]
                          \/ x[1] = y[1] /\ x[2] = y[2] /\ x[3] = y[3] /\ x[4] < y[4]
    BY <2>1, EarlierKeys
  <2>4. QED
    BY <2>1, <2>2, <2>3 DEF Precede
<1>6. \A r \in J : ~Precede(r, r)
  BY <1>2 DEF Precede
<1>7. \A r, s \in J : r # s => Precede(r, s) \/ Precede(s, r)
  <2> SUFFICES ASSUME NEW r \in J, NEW s \in J, r # s PROVE Precede(r, s) \/ Precede(s, r)
    OBVIOUS
  <2>1. r.message.id # s.message.id \/ r.part.id # s.part.id
    BY <1>2
  <2>2. QED
    BY <1>2, <2>1 DEF Precede
<1>8. \A q, r, s \in J : Precede(q, r) /\ Precede(r, s) => Precede(q, s)
  BY <1>2 DEF Precede
<1>9. \A s \in J : below[s] \subseteq J \ {s}
  BY <1>3, <1>5, <1>6
<1>10. \A r, s \in J : r \in below[s] => below[r] \subseteq below[s]
  BY <1>3, <1>5, <1>8
<1>11. TotalOrder(below, J)
  BY <1>5, <1>7, <1>9, <1>10 DEF TotalOrder
<1>12. QED
  BY <1>1, <1>5, <1>11 DEF J, below

RowsTell(rows) == [r \in rows |-> Said(r.message.rec, r.part.rec)]
PartsOf(database, m) == {p \in database.parts : p.of = m.id}
MessagesSay(database) ==
  [m \in database.messages |->
     Along([p \in PartsOf(database, m) |-> Said(m.rec, p.rec)], PartsOf(database, m),
           TimeOrder(PartsOf(database, m)))]

LEMMA RowsTellType == ASSUME NEW rows PROVE Tells(RowsTell(rows), rows, Sayings)
<1> SUFFICES ASSUME NEW r \in rows PROVE RowsTell(rows)[r] \in Seq(Sayings)
  BY DEF Tells
<1>1. RowsTell(rows)[r] = Said(r.message.rec, r.part.rec)
  BY DEF RowsTell
<1>2. QED
  BY <1>1, SaidType

LEMMA PartsOfAre ==
  ASSUME NEW database, IsDatabase(database), NEW m \in database.messages
  PROVE  /\ IsFiniteSet(PartsOf(database, m)) /\ TotalOrder(TimeOrder(PartsOf(database, m)), PartsOf(database, m))
         /\ Tells([p \in PartsOf(database, m) |-> Said(m.rec, p.rec)], PartsOf(database, m), Sayings)
<1> DEFINE P == PartsOf(database, m)
           F == [p \in P |-> Said(m.rec, p.rec)]
<1>1. P \subseteq database.parts
  BY DEF PartsOf
<1>2. IsFiniteSet(database.parts) /\ Timed(database.parts)
  BY JoinedRows DEF IsDatabase
<1>3. \A p \in P : F[p] = Said(m.rec, p.rec)
  OBVIOUS
<1>4. \A p \in P : F[p] \in Seq(Sayings)
  BY <1>3, SaidType
<1> HIDE DEF P, F
<1>5. Timed(P)
  BY <1>1, <1>2 DEF Timed
<1>6. QED
  BY <1>1, <1>2, <1>4, <1>5, TimeOrders, FS_Subset DEF Tells, P, F

LEMMA MessagesSayType ==
  ASSUME NEW database, IsDatabase(database)
  PROVE  Tells(MessagesSay(database), database.messages, Sayings)
<1> SUFFICES ASSUME NEW m \in database.messages PROVE MessagesSay(database)[m] \in Seq(Sayings)
  BY DEF Tells
<1> DEFINE P == PartsOf(database, m)
           F == [p \in P |-> Said(m.rec, p.rec)]
<1>1. MessagesSay(database)[m] = Along(F, P, TimeOrder(P))
  BY DEF MessagesSay
<1>2. IsFiniteSet(P) /\ TotalOrder(TimeOrder(P), P) /\ Tells(F, P, Sayings)
  BY PartsOfAre
<1> HIDE DEF P, F
<1>3. QED
  BY <1>1, <1>2, AlongFirst

\* The messages in the order of their times, each with its parts.
LEMMA DatabaseSaysIs ==
  ASSUME NEW database, IsDatabase(database), database.schema = "full"
  PROVE  DatabaseSays(database) = Along(MessagesSay(database), database.messages, TimeOrder(database.messages))
<1> DEFINE M == database.messages
           sorted == ByTime(M)
           parts(m) == ByTime(PartsOf(database, m))
           says(m) == PartsSay(m.rec, [j \in DOMAIN parts(m) |-> parts(m)[j].rec])
           F == MessagesSay(database)
<1>1. ByTime(M) = Arranged(M, TimeOrder(M))
  BY DEF ByTime, TimeOrder
<1>2. DatabaseSays(database) = FlattenSeq([i \in DOMAIN sorted |-> says(sorted[i])])
  BY Zenon DEF DatabaseSays, PartsOf
<1>3. ASSUME NEW m \in M PROVE says(m) = F[m]
  <2> DEFINE P == PartsOf(database, m)
             A == Arranged(P, TimeOrder(P))
             G == [p \in P |-> Said(m.rec, p.rec)]
             those == [j \in DOMAIN A |-> A[j].rec]
  <2>1. parts(m) = A
    BY DEF ByTime, TimeOrder
  <2>2. PartsSay(m.rec, those) = FlattenSeq([i \in DOMAIN those |-> Said(m.rec, those[i])])
    BY Zenon DEF PartsSay, Said
  <2>3. F[m] = FlattenSeq([i \in DOMAIN A |-> G[A[i]]])
    BY DEF MessagesSay, Along
  <2>4. \A i \in DOMAIN A : A[i] \in P
    <3>1. IsFiniteSet(P) /\ TotalOrder(TimeOrder(P), P)
      BY PartsOfAre
    <3> HIDE DEF P
    <3>2. Orders(A, Cardinality(P), P, TimeOrder(P))
      BY <3>1, ArrangedOrders
    <3> HIDE DEF A
    <3>3. A \in [1..Cardinality(P) -> P]
      BY <3>2 DEF Orders
    <3>4. QED
      BY <3>3
  <2>5. \A p \in P : G[p] = Said(m.rec, p.rec)
    OBVIOUS
  <2>6. DOMAIN those = DOMAIN A /\ \A i \in DOMAIN A : those[i] = A[i].rec
    OBVIOUS
  <2> HIDE DEF P, A, G, those
  <2>7. [i \in DOMAIN those |-> Said(m.rec, those[i])] = [i \in DOMAIN A |-> G[A[i]]]
    BY <2>4, <2>5, <2>6
  <2>8. says(m) = PartsSay(m.rec, those)
    BY <2>1 DEF those
  <2>9. QED
    BY <2>2, <2>3, <2>7, <2>8
<1>4. \A i \in DOMAIN sorted : sorted[i] \in M
  <2>1. IsFiniteSet(M) /\ TotalOrder(TimeOrder(M), M)
    BY JoinedRows, TimeOrders DEF IsDatabase
  <2> HIDE DEF M
  <2>2. Orders(sorted, Cardinality(M), M, TimeOrder(M))
    BY <1>1, <2>1, ArrangedOrders
  <2> HIDE DEF sorted
  <2>3. sorted \in [1..Cardinality(M) -> M]
    BY <2>2 DEF Orders
  <2>4. QED
    BY <2>3
<1> HIDE DEF M, says, F
<1>5. [i \in DOMAIN sorted |-> says(sorted[i])] = [i \in DOMAIN sorted |-> F[sorted[i]]]
  BY <1>3, <1>4
<1>6. QED
  BY <1>1, <1>2, <1>5 DEF Along, M, F

\* The rows of one message say what its parts do.
RowsOf(database, L) == {r \in Joined(database) : r.message \in L}

LEMMA RowsOfOne ==
  ASSUME NEW database, IsDatabase(database), NEW m \in database.messages
  PROVE  LET J == Joined(database)
         IN  Through(RowsTell(J), RowsOf(database, {m}), RowOrder(J)) = MessagesSay(database)[m]
<1> DEFINE J == Joined(database)
           P == PartsOf(database, m)
           R == RowsOf(database, {m})
           F == RowsTell(J)
           G == [p \in P |-> Said(m.rec, p.rec)]
           below == TimeOrder(P)
           over == Limited(RowOrder(J), R)
           row(p) == [message |-> m, part |-> p]
           named == [p \in P |-> row(p)]
<1>1. MessagesSay(database)[m] = Along(G, P, below)
  BY DEF MessagesSay
<1>2. IsFiniteSet(P) /\ TotalOrder(below, P) /\ \A p \in P : G[p] = Said(m.rec, p.rec)
  BY PartsOfAre
<1>3. R \subseteq J /\ (\A r \in R : r.message = m) /\ \A r \in J : F[r] = Said(r.message.rec, r.part.rec)
  BY DEF RowsOf, RowsTell
<1>4. TotalOrder(over, R) /\ IsFiniteSet(R)
  <2>1. TotalOrder(RowOrder(J), J) /\ IsFiniteSet(J)
    BY RowOrders, JoinedRows
  <2> HIDE DEF J, R
  <2>2. QED
    BY <1>3, <2>1, LimitedOrders, FS_Subset
<1>5. \A r \in J : /\ r = [message |-> r.message, part |-> r.part]
                   /\ r.message \in database.messages /\ r.part \in database.parts \cup {NoPart}
                   /\ IF r.part = NoPart THEN \A p \in database.parts : p.of # r.message.id
                      ELSE r.part.of = r.message.id
  BY JoinedRows DEF Joined
<1>6. \A p \in database.parts \cup {NoPart} :
        (IF p = NoPart THEN \A q \in database.parts : q.of # m.id ELSE p.of = m.id) => row(p) \in J
  BY DEF Joined
<1>7. NoPart \notin database.parts
  BY DEF IsDatabase, NoPart
<1>8. CASE P = {}
  <2>1. \A p \in database.parts : p.of # m.id
    BY <1>8 DEF PartsOf
  <2>2. row(NoPart) \in R
    BY <1>6, <2>1 DEF RowsOf
  <2>3. \A r \in R : r = row(NoPart)
    BY <1>3, <1>5, <2>1
  <2> DEFINE only == row(NoPart)
  <2>4. R = {only} /\ F[only] = <<>>
    <3>1. Said(m.rec, NoPart.rec) = <<>>
      BY DEF Said, NoPart
    <3>2. R = {only}
      BY <2>2, <2>3
    <3>3. F[only] = Said(only.message.rec, only.part.rec) /\ only.message = m /\ only.part = NoPart
      BY <1>3, <2>2
    <3>4. QED
      BY <3>1, <3>2, <3>3
  <2>5. only \in J
    BY <1>3, <2>2
  <2> HIDE DEF only, F, J, R
  <2>6. TotalOrder(RowOrder(J), J) /\ IsFiniteSet(J) /\ Tells(F, J, Sayings)
    BY RowOrders, JoinedRows, RowsTellType DEF F, J
  <2>7. Through(F, R, RowOrder(J)) = <<>>
    <3> DEFINE order == RowOrder(J)
    <3>1. TotalOrder(order, J)
      BY <2>6
    <3> HIDE DEF order
    <3>2. Through(F, {only}, order) = F[only]
      BY <2>5, <2>6, <3>1, ThroughOnly
    <3>3. QED
      BY <2>4, <3>2 DEF order
  <2>8. MessagesSay(database)[m] = <<>>
    BY <1>1, <1>8, AlongNone
  <2>9. QED
    BY <2>7, <2>8 DEF F, J, R
<1>9. CASE P # {}
  <2>1. PICK q \in database.parts : q.of = m.id
    BY <1>9 DEF PartsOf
  <2>2. \A p \in P : named[p] = row(p) /\ row(p) \in R /\ p \in database.parts /\ p.of = m.id
    BY <1>6, <1>7 DEF PartsOf, RowsOf
  <2>3. \A r \in R : r.part \in P /\ named[r.part] = r
    BY <1>3, <1>5, <2>1 DEF PartsOf
  <2>4. ASSUME NEW p \in P, NEW s \in P, p \in below[s] PROVE named[p] \in over[named[s]]
    <3> DEFINE x == row(p)
               y == row(s)
    <3>1. x \in R /\ y \in R /\ named[p] = x /\ named[s] = y
      BY <2>2
    <3>2. p.time < s.time \/ (p.time = s.time /\ p.id < s.id)
      BY <2>4 DEF TimeOrder
    <3>3. Precede(x, y)
      BY <3>2 DEF Precede
    <3> HIDE DEF x, y
    <3>4. x \in RowOrder(J)[y]
      BY <1>3, <3>1, <3>3, RowOrders
    <3> HIDE DEF J, R, named
    <3>5. QED
      BY <3>1, <3>4 DEF Limited
  <2> HIDE DEF named, over, below, R, F, G
  <2>5. Renames(named, P, below, R, over)
    <3>1. (\A p \in P : named[p] \in R) /\ \A r \in R : \E p \in P : named[p] = r
      BY <2>2, <2>3
    <3> HIDE DEF P, R
    <3>2. QED
      BY <2>4, <3>1 DEF Renames
  <2>6. Alike(F, G, named, P)
    <3>1. \A p \in P : named[p].message = m /\ named[p].part = p /\ named[p] \in J
      <4> HIDE DEF P, J
      <4> SUFFICES ASSUME NEW p \in P PROVE named[p].message = m /\ named[p].part = p /\ named[p] \in J
        OBVIOUS
      <4>1. named[p] = row(p) /\ row(p) \in R
        BY <2>2
      <4>2. row(p).message = m /\ row(p).part = p
        OBVIOUS
      <4> HIDE DEF row
      <4>3. QED
        BY <1>3, <4>1, <4>2
    <3> HIDE DEF P, J
    <3>2. QED
      BY <1>2, <1>3, <3>1 DEF Alike
  <2>7. Along(F, R, over) = Along(G, P, below)
    <3> HIDE DEF P
    <3>1. QED
      BY <1>2, <1>4, <2>5, <2>6, AlongRenamed
  <2>8. QED
    BY <1>1, <2>7 DEF Through, over, F, R
<1>10. QED
  BY <1>8, <1>9

\* The rows in their order tell what the messages do, with each of their parts.
LEMMA RowsSay ==
  ASSUME NEW database, IsDatabase(database)
  PROVE  LET J == Joined(database)
         IN  Through(RowsTell(J), J, RowOrder(J))
               = Along(MessagesSay(database), database.messages, TimeOrder(database.messages))
<1> DEFINE M == database.messages
           J == Joined(database)
           F == RowsTell(J)
           G == MessagesSay(database)
           below == RowOrder(J)
           over == TimeOrder(M)
           rows(L) == RowsOf(database, L)
           Agrees(L) == Through(F, rows(L), below) = Through(G, L, over)
           Good == {n \in Nat : \A L \in SUBSET M : Cardinality(L) = n => Agrees(L)}
<1>1. /\ TotalOrder(below, J) /\ IsFiniteSet(J) /\ Tells(F, J, Sayings)
      /\ TotalOrder(over, M) /\ IsFiniteSet(M) /\ Tells(G, M, Sayings)
      /\ \A r, s \in J : r \in below[s] <=> Precede(r, s)
  BY RowOrders, JoinedRows, RowsTellType, TimeOrders, MessagesSayType DEF IsDatabase
<1>2. ASSUME NEW L \in SUBSET M PROVE IsFiniteSet(L) /\ Cardinality(L) \in Nat
  BY <1>1, SubsetSizes
<1>3. \A m, n \in M : n \in over[m] <=> n.time < m.time \/ (n.time = m.time /\ n.id < m.id)
  BY DEF TimeOrder
<1>4. \A L \in SUBSET M : rows(L) \in SUBSET J /\ \A r \in rows(L) : r.message \in L
  BY DEF RowsOf
<1>5. \A L \in SUBSET M : \A m \in L : rows(L) = rows({m}) \cup rows(L \ {m})
  BY DEF RowsOf
<1>6. \A m \in M : Through(F, rows({m}), below) = G[m]
  BY RowsOfOne
<1>7. rows({}) = {}
  BY DEF RowsOf
<1>8. rows(M) = J
  BY JoinedRows DEF RowsOf
<1> HIDE DEF M, J, F, G, below, over, rows
<1>9. ASSUME NEW L \in SUBSET M, Cardinality(L) = 0 PROVE Agrees(L)
  <2>1. L = {}
    BY <1>2, <1>9, FS_EmptySet
  <2>2. Through(F, {}, below) = <<>> /\ Through(G, {}, over) = <<>>
    BY AlongNone DEF Through
  <2>3. QED
    BY <1>7, <2>1, <2>2
<1>10. ASSUME NEW n \in Nat, n \in Good, NEW L \in SUBSET M, Cardinality(L) = n + 1 PROVE Agrees(L)
  <2>1. L # {}
    BY <1>10, FS_EmptySet
  <2>2. PICK m \in L : \A x \in L : x # m => m \in Limited(over, L)[x]
    <3>1. TotalOrder(Limited(over, L), L)
      BY <1>1, LimitedOrders
    <3>2. QED
      BY <1>2, <2>1, <3>1, LeastOf
  <2>3. \A x \in L : x # m => m \in over[x]
    BY <2>2 DEF Limited
  <2> DEFINE K == L \ {m}
             first == rows({m})
             after == rows(K)
  <2>4. K \in SUBSET M /\ {m} \in SUBSET M /\ m \in M /\ Cardinality(K) = n
    <3>1. Cardinality(K) = IF m \in L THEN Cardinality(L) - 1 ELSE Cardinality(L)
      BY <1>2, FS_RemoveElement
    <3>2. Cardinality(L) = n + 1 /\ K \in SUBSET M
      BY <1>10
    <3> HIDE DEF K, Good
    <3>3. QED
      BY <2>2, <3>1, <3>2
  <2>5. Agrees(K)
    <3> HIDE DEF Agrees
    <3>1. QED
      BY <1>10, <2>4
  <2>6. first \in SUBSET J /\ after \in SUBSET J /\ rows(L) = first \cup after
    BY <1>4, <1>5, <2>2, <2>4
  <2>7. AllBefore(first, after, below)
    <3> SUFFICES ASSUME NEW r \in first, NEW s \in after PROVE r \in below[s]
      BY DEF AllBefore
    <3>1. r.message = m /\ s.message \in L /\ s.message # m /\ r \in J /\ s \in J /\ s.message \in M
      BY <1>4, <2>4, <2>6
    <3>2. m.time < s.message.time \/ (m.time = s.message.time /\ m.id < s.message.id)
      BY <1>3, <2>3, <2>4, <3>1
    <3>3. Precede(r, s)
      BY <3>1, <3>2 DEF Precede
    <3>4. QED
      BY <1>1, <3>1, <3>3
  <2>8. Through(F, first, below) = G[m]
    BY <1>6, <2>4
  <2>9. Through(G, L, over) = G[m] \o Through(G, K, over)
    BY <1>1, <2>3, ThroughFirst
  <2> HIDE DEF first, after, Good, K
  <2>10. Through(F, first \cup after, below) = Through(F, first, below) \o Through(F, after, below)
    <3>1. ASSUME NEW A \in SUBSET J, NEW B \in SUBSET J, AllBefore(A, B, below)
          PROVE  Through(F, A \cup B, below) = Through(F, A, below) \o Through(F, B, below)
      <4>1. IsFiniteSet(J) /\ TotalOrder(below, J) /\ Tells(F, J, Sayings)
        BY <1>1
      <4>2. QED
        BY <3>1, <4>1, ThroughSplits
    <3>2. QED
      BY <2>6, <2>7, <3>1
  <2>11. QED
    BY <2>5, <2>6, <2>8, <2>9, <2>10 DEF after
<1>11. Agrees(M)
  <2>1. 0 \in Good
    BY <1>9
  <2>2. \A n \in Nat : n \in Good => n + 1 \in Good
    <3> SUFFICES ASSUME NEW n \in Nat, n \in Good PROVE n + 1 \in Good
      OBVIOUS
    <3>1. \A L \in SUBSET M : Cardinality(L) = n + 1 => Agrees(L)
      BY <1>10
    <3>2. QED
      BY <3>1
  <2> DEFINE N == Cardinality(M)
  <2>3. N \in Nat
    BY <1>2
  <2> HIDE DEF Good, N
  <2>4. Inductive(Good, N)
    BY <2>1, <2>2 DEF Inductive
  <2>5. N \in Good
    BY <2>3, <2>4, Upward
  <2> HIDE DEF Agrees
  <2>6. QED
    BY <2>5 DEF Good, N
<1>12. Limited(over, M) = over
  BY TimeLimited DEF over
<1>13. QED
  BY <1>8, <1>11, <1>12 DEF Through, M, J, F, G, below, over

LEMMA RowsLimited == ASSUME NEW J PROVE Limited(RowOrder(J), J) = RowOrder(J)
<1> DEFINE below == RowOrder(J)
<1>1. (\A s \in J : below[s] \subseteq J) /\ below = [s \in J |-> below[s]]
  BY DEF RowOrder
<1> HIDE DEF below
<1>2. \A s \in J : below[s] \cap J = below[s]
  BY <1>1
<1>3. Limited(below, J) = [s \in J |-> below[s] \cap J]
  BY DEF Limited
<1>4. [s \in J |-> below[s] \cap J] = [s \in J |-> below[s]]
  BY <1>2
<1>5. QED
  BY <1>1, <1>3, <1>4 DEF below

LEMMA RowsSayAll ==
  ASSUME NEW database, IsDatabase(database), database.schema = "full"
  PROVE  AllOf(RowsTell(Joined(database)), Rows(database)) = DatabaseSays(database)
<1> DEFINE J == Joined(database)
           below == RowOrder(J)
           F == RowsTell(J)
<1>1. Rows(database) = Arranged(J, below)
  BY RowOrders
<1>2. Limited(below, J) = below
  BY RowsLimited
<1>3. Through(F, J, below) = DatabaseSays(database)
  BY RowsSay, DatabaseSaysIs
<1> HIDE DEF J, below, F
<1>4. AllOf(F, Arranged(J, below)) = Along(F, J, below)
  BY DEF AllOf, Along
<1>5. QED
  BY <1>1, <1>2, <1>3, <1>4 DEF Through, J, below, F

(***************************************************************************)
(* The database: types, and what a step does to the result.                *)
(***************************************************************************)

\* Rows that are still to be read, in their order.
SortsRows(rows, J) ==
  ToSet(rows) \in SUBSET J /\ rows = Arranged(ToSet(rows), Limited(RowOrder(J), ToSet(rows)))

LEMMA RowsStart ==
  ASSUME NEW database, IsDatabase(database)
  PROVE  ToSet(Rows(database)) = Joined(database) /\ SortsRows(Rows(database), Joined(database))
<1> DEFINE J == Joined(database)
           below == RowOrder(J)
           rows == Rows(database)
<1>1. rows = Arranged(J, below) /\ TotalOrder(below, J) /\ IsFiniteSet(J)
  BY RowOrders, JoinedRows
<1>2. Limited(below, J) = below
  BY RowsLimited
<1> HIDE DEF J, below, rows
<1>3. ToSet(rows) = J
  <2>1. CASE J = {}
    <3>1. rows = <<>>
      BY <1>1, <2>1, ArrangedNone
    <3>2. QED
      BY <2>1, <3>1 DEF ToSet
  <2>2. CASE J # {}
    BY <1>1, <2>2, ArrangedTail
  <2>3. QED
    BY <2>1, <2>2
<1>4. QED
  BY <1>1, <1>2, <1>3 DEF SortsRows, J, below, rows

LEMMA RowsInSeq ==
  ASSUME NEW database, IsDatabase(database)
  PROVE  Rows(database) \in Seq(Joined(database))
<1> DEFINE J == Joined(database)
           below == RowOrder(J)
<1>1. Rows(database) = Arranged(J, below) /\ TotalOrder(below, J) /\ IsFiniteSet(J)
  BY RowOrders, JoinedRows
<1> HIDE DEF J, below
<1>2. CASE J = {}
  <2>1. <<>> \in Seq(J)
    OBVIOUS
  <2>2. QED
    BY <1>1, <1>2, <2>1, ArrangedNone DEF J
<1>3. CASE J # {}
  BY <1>1, <1>3, ArrangedTail DEF J
<1>4. QED
  BY <1>2, <1>3

LEMMA RowsTail ==
  ASSUME NEW database, IsDatabase(database), NEW rows, SortsRows(rows, Joined(database)), rows # <<>>
  PROVE  /\ Head(rows) \in ToSet(rows) /\ Head(rows) \in Joined(database)
         /\ ToSet(Tail(rows)) = ToSet(rows) \ {Head(rows)} /\ SortsRows(Tail(rows), Joined(database))
         /\ LET F == RowsTell(Joined(database))
                h == Head(rows)
            IN  /\ AllOf(F, rows) = Said(h.message.rec, h.part.rec) \o AllOf(F, Tail(rows))
                /\ AllOf(F, Tail(rows)) \in Seq(Sayings)
<1> DEFINE J == Joined(database)
           order == RowOrder(J)
           X == ToSet(rows)
           below == Limited(order, X)
           h == Head(rows)
           Y == X \ {h}
           F == RowsTell(J)
           rest == Tail(rows)
<1>1. TotalOrder(order, J) /\ IsFiniteSet(J) /\ Tells(F, J, Sayings)
  BY RowOrders, JoinedRows, RowsTellType
<1>2. X \in SUBSET J /\ rows = Arranged(X, below)
  BY DEF SortsRows
<1>3. \A r \in J : F[r] = Said(r.message.rec, r.part.rec)
  BY DEF RowsTell
<1> HIDE DEF J, order, X, F
<1>4. IsFiniteSet(X) /\ TotalOrder(below, X)
  BY <1>1, <1>2, LimitedOrders, FS_Subset
<1>5. X # {}
  BY <1>2, ArrangedNone
<1> HIDE DEF below
<1>6. h \in X /\ rest = Arranged(Y, Limited(below, Y)) /\ rows \in Seq(X)
  BY <1>2, <1>4, <1>5, ArrangedTail
<1>7. Limited(below, Y) = Limited(order, Y)
  <2>1. Y \in SUBSET X
    OBVIOUS
  <2> HIDE DEF Y
  <2>2. QED
    BY <2>1, LimitedTwice DEF below
<1> HIDE DEF Y
<1>8. Y \in SUBSET J
  BY <1>2 DEF Y
<1>9. ToSet(rest) = Y
  <2>1. CASE Y = {}
    <3>1. rest = <<>>
      BY <1>6, <2>1, ArrangedNone
    <3>2. QED
      BY <2>1, <3>1 DEF ToSet
  <2>2. CASE Y # {}
    <3> DEFINE over == Limited(order, Y)
    <3>1. IsFiniteSet(Y) /\ TotalOrder(over, Y)
      BY <1>1, <1>8, LimitedOrders, FS_Subset
    <3>2. rest = Arranged(Y, over)
      BY <1>6, <1>7
    <3> HIDE DEF over, rest
    <3>3. QED
      BY <2>2, <3>1, <3>2, ArrangedTail
  <2>3. QED
    BY <2>1, <2>2
<1>10. SortsRows(rest, J)
  BY <1>6, <1>7, <1>8, <1>9 DEF SortsRows, order
<1>11. Tells(F, X, Sayings) /\ Tells(F, Y, Sayings)
  BY <1>1, <1>2, <1>8 DEF Tells
<1>12. AllOf(F, rows) = F[h] \o AllOf(F, rest)
  BY <1>6, <1>11, AllOfHead
<1>13. AllOf(F, rest) \in Seq(Sayings)
  <2>1. rest \in Seq(X)
    BY <1>6
  <2> HIDE DEF rest
  <2>2. QED
    BY <1>11, <2>1, AllOfType
<1>14. h \in J /\ F[h] = Said(h.message.rec, h.part.rec)
  BY <1>2, <1>3, <1>6
<1>15. QED
  BY <1>6, <1>9, <1>10, <1>12, <1>13, <1>14 DEF Y, X, J, F

\* A row without a part is the only one of its message.
LEMMA AloneRow ==
  ASSUME NEW database, IsDatabase(database), NEW r \in Joined(database), NEW s \in Joined(database),
         r.part = NoPart, r.message.id = s.message.id
  PROVE  r = s
<1>1. r.message = s.message /\ r = [message |-> r.message, part |-> r.part] /\ s = [message |-> s.message, part |-> s.part]
  BY JoinedRows
<1>2. \A p \in database.parts : p.of # r.message.id
  BY DEF Joined
<1>3. s.part = NoPart \/ (s.part \in database.parts /\ s.part.of = s.message.id)
  BY DEF Joined
<1>4. s.part = r.part
  BY <1>1, <1>2, <1>3
<1>5. QED
  BY <1>1, <1>4

RowLost(r) == OpenCode!PartWarned(r.part.rec)

LEMMA NoPartLost == OpenCode!PartWarned(NoPart.rec)
BY DEF OpenCode!PartWarned, NoPart

\* What is lost of a database is lost in its rows.
LEMMA RowsLost ==
  ASSUME NEW database, IsDatabase(database), database.schema = "full"
  PROVE  DatabaseUnread(database) <=> \E r \in Joined(database) : RowLost(r)
<1> DEFINE J == Joined(database)
           M == database.messages
           P == database.parts
<1>1. DatabaseUnread(database) <=> \/ \E m \in M : \A p \in P : p.of # m.id
                                 \/ \E p \in P : OpenCode!PartWarned(p.rec)
  BY DEF DatabaseUnread
<1>2. NoPart \notin P /\ \A p \in P : \E m \in M : p.of = m.id
  BY DEF IsDatabase, NoPart
<1>3. ASSUME NEW m \in M, \A p \in P : p.of # m.id PROVE \E r \in J : RowLost(r)
  <2> DEFINE r == [message |-> m, part |-> NoPart]
  <2>1. r \in J /\ r.part = NoPart
    BY <1>3 DEF Joined
  <2> HIDE DEF r
  <2>2. QED
    BY <2>1, NoPartLost DEF RowLost
<1>4. ASSUME NEW p \in P, OpenCode!PartWarned(p.rec) PROVE \E r \in J : RowLost(r)
  <2>1. PICK m \in M : p.of = m.id
    BY <1>2
  <2> DEFINE r == [message |-> m, part |-> p]
  <2>2. r \in J /\ r.part = p
    BY <1>2, <2>1 DEF Joined
  <2> HIDE DEF r
  <2>3. QED
    BY <1>4, <2>2 DEF RowLost
<1>5. ASSUME NEW r \in J, RowLost(r)
      PROVE  \/ \E m \in M : \A p \in P : p.of # m.id
             \/ \E p \in P : OpenCode!PartWarned(p.rec)
  <2>1. r.message \in M /\ r.part \in P \cup {NoPart} /\ (r.part = NoPart => \A p \in P : p.of # r.message.id)
    BY DEF Joined
  <2>2. QED
    BY <1>5, <2>1 DEF RowLost
<1>6. QED
  BY <1>1, <1>3, <1>4, <1>5

LEMMA ToldOfNone == UsageEvents(<<>>) = <<>>
<1>1. FirstOnly(<<>>, 0)
  BY DEF FirstOnly
<1>2. QED
  BY <1>1, FirstIsTold

\* What a row tells: of a message's metadata nothing is kept.
LEMMA RowTold ==
  ASSUME NEW message, NEW part, NEW before, NEW index
  PROVE  LET metadata == <<OpenCode!MapMessageMetadata(message, before)>>
             events == IF part = NoPart THEN <<>> ELSE OpenCode!PartEvents(message, part.rec, index)
         IN  /\ UsageEvents(metadata \o events) = PartSays(message, part.rec, index)
             /\ UsageEvents(<<>> \o events) = PartSays(message, part.rec, index)
             /\ Len(events) \in 0..2 /\ (part = NoPart \/ Len(events) > 0)
<1> DEFINE first == OpenCode!MapMessageMetadata(message, before)
           events == IF part = NoPart THEN <<>> ELSE OpenCode!PartEvents(message, part.rec, index)
           told == PartSays(message, part.rec, index)
<1>1. ~Usable(first)
  BY OpenCodeMetadata
<1>2. UsageEvents(events) = told /\ (\E S : events \in Seq(S)) /\ Len(events) \in 0..2
      /\ (part = NoPart \/ Len(events) > 0)
  <2>1. CASE part = NoPart
    <3>1. events = <<>>
      BY <2>1
    <3>2. part.rec.valid = FALSE
      BY <2>1 DEF NoPart
    <3>3. told = <<>>
      BY <3>2 DEF PartSays
    <3>4. <<>> \in Seq({}) /\ Len(<<>>) \in 0..2
      OBVIOUS
    <3> HIDE DEF events, told
    <3>5. QED
      BY <2>1, <3>1, <3>3, <3>4, ToldOfNone
  <2>2. CASE part # NoPart
    <3> DEFINE mapped == OpenCode!PartEvents(message, part.rec, index)
    <3>1. UsageEvents(mapped) = told /\ (\E S : mapped \in Seq(S)) /\ Len(mapped) \in {1, 2}
      BY OpenCodePartTold
    <3>2. events = mapped
      BY <2>2
    <3> DEFINE n == Len(mapped)
    <3>3. n \in {1, 2}
      BY <3>1
    <3> HIDE DEF n
    <3>4. n \in 0..2 /\ n > 0
      BY <3>3
    <3>5. Len(events) \in 0..2 /\ Len(events) > 0
      BY <3>2, <3>4 DEF n
    <3> HIDE DEF mapped, events, told
    <3>6. UsageEvents(events) = told /\ \E S : events \in Seq(S)
      BY <3>1, <3>2
    <3>7. QED
      BY <3>5, <3>6
  <2> HIDE DEF events, told
  <2>3. QED
    BY <2>1, <2>2
<1> HIDE DEF first, events, told
<1>3. PICK S : events \in Seq(S)
  BY <1>2
<1>4. UsageEvents(<<first>> \o events) = told
  <2> DEFINE T == S \cup {first}
  <2>1. events \in Seq(T) /\ first \in T
    BY <1>3
  <2> HIDE DEF T
  <2>2. QED
    BY <1>1, <1>2, <2>1, SilentFirst
<1>5. <<>> \o events = events
  BY <1>3
<1>6. QED
  BY <1>2, <1>4, <1>5 DEF first, events, told

SQLiteFields == {"partial", "malformed", "changed", "error", "pc", "rows", "message", "count", "index"}
IsSQLiteReader(r) == r = [field \in SQLiteFields |-> r[field]]

\* The version of the database that the transaction shows.
Shows == seen.before

SQLiteType ==
  /\ store \in Databases
  /\ IsSQLiteReader(reader) /\ IsSeen(seen) /\ Result
  /\ reader.pc \in {"begin", "session", "rows", "done"} /\ ~reader.changed
  /\ reader.message \in Nat /\ reader.count \in Nat /\ reader.index \in Nat
  /\ reader.pc # "done" => reader.error = "none"
  /\ reader.pc \in {"begin", "session"} => emitted = <<>> /\ reader.message = 0
  /\ reader.pc = "begin" => ~reader.partial
  /\ reader.pc \in {"session", "rows"} => Shows \in Databases
  /\ reader.pc = "session" => (reader.partial <=> Shows.schema # "full")
  /\ reader.pc = "rows" => Shows.schema = "full" /\ SortsRows(reader.rows, Joined(Shows))
  /\ emitted \in Seq(Messages) /\ Distinct(emitted)
  /\ \A p \in Positions(emitted) : p < reader.index

SQLiteQuits ==
  /\ UNCHANGED <<reader.message, reader.count, reader.index, emitted, seen, store>>
  /\ reader.pc # "done" /\ reader'.pc = "done" /\ reader'.partial = TRUE /\ reader'.malformed \in Nat
  /\ reader'.changed = FALSE /\ reader'.error \in Errors \ {"none"}

SQLiteOpens ==
  /\ UNCHANGED <<reader.changed, reader.error, reader.message, reader.count, reader.index, emitted, store>>
  /\ reader.pc = "begin" /\ reader'.pc = "session" /\ reader'.malformed \in Nat
  /\ reader'.partial \in BOOLEAN /\ (reader'.partial <=> store.schema # "full")
  /\ seen'.before = store

SQLiteFinds ==
  /\ UNCHANGED <<reader.partial, reader.malformed, reader.changed, reader.error, reader.message, reader.count,
                 reader.index, emitted, seen, store>>
  /\ reader.pc = "session" /\ reader'.pc = "rows"
  /\ Shows.schema = "full" /\ reader'.rows = Rows(Shows)

SQLiteSkips ==
  /\ UNCHANGED <<reader.changed, reader.error, reader.message, reader.count, reader.index, emitted, seen, store>>
  /\ reader.pc = "session" /\ reader'.pc = "done" /\ reader'.partial = TRUE /\ reader'.malformed \in Nat
  /\ Shows.schema # "full"

\* What reading a row leaves.
Row == Head(reader.rows)
Another == Row.message.id # reader.message
RowIndex == IF Another THEN reader.index + 1 ELSE reader.index

SQLiteTakes ==
  /\ UNCHANGED <<reader.changed, reader.error, seen, store>>
  /\ reader.pc = "rows" /\ reader'.pc = "rows" /\ reader.rows # <<>> /\ reader'.malformed \in Nat
  /\ reader'.rows = Tail(reader.rows) /\ reader'.message = Row.message.id
  /\ reader'.count = (IF Another THEN 0 ELSE reader.count) + (IF Row.part = NoPart THEN 0 ELSE 1)
  /\ reader'.partial \in BOOLEAN
  /\ reader'.partial <=> (\/ reader.partial \/ (Row.part # NoPart /\ RowLost(Row)) \/ (Another /\ Partless))
  /\ emitted' = emitted \o PartSays(Row.message.rec, Row.part.rec, RowIndex)
  /\ \E more \in 0..2 : /\ reader'.index = RowIndex + more
                        /\ Row.part = NoPart \/ more > 0

SQLiteCloses ==
  /\ UNCHANGED <<reader.changed, reader.error, reader.message, reader.count, reader.index, emitted, seen, store>>
  /\ reader.pc = "rows" /\ reader'.pc = "done" /\ reader.rows = <<>> /\ reader'.malformed \in Nat
  /\ reader'.partial \in BOOLEAN /\ (reader'.partial <=> reader.partial \/ Partless)

SQLiteMove ==
  \/ UNCHANGED <<reader, emitted, seen>> /\ store' \in Databases
  \/ SQLiteQuits \/ SQLiteOpens \/ SQLiteFinds \/ SQLiteSkips \/ SQLiteTakes \/ SQLiteCloses

LEMMA SQLiteMarked ==
  ASSUME SQLiteType, NEW lost \in BOOLEAN
  PROVE  LET marked == Marked(lost, 0)
         IN  /\ IsSQLiteReader(marked) /\ (marked.partial <=> reader.partial \/ lost) /\ marked.partial \in BOOLEAN
             /\ marked.malformed \in Nat
             /\ marked.changed = reader.changed /\ marked.error = reader.error /\ marked.pc = reader.pc
             /\ marked.rows = reader.rows /\ marked.message = reader.message
             /\ marked.count = reader.count /\ marked.index = reader.index
<1> DEFINE marked == Marked(lost, 0)
<1>1. IsSQLiteReader(reader) /\ reader.malformed \in Nat /\ reader.partial \in BOOLEAN
  BY DEF SQLiteType, Result
<1>2. /\ IsSQLiteReader(marked) /\ marked.partial = (reader.partial \/ lost)
      /\ marked.malformed = reader.malformed + 0
      /\ marked.changed = reader.changed /\ marked.error = reader.error /\ marked.pc = reader.pc
      /\ marked.rows = reader.rows /\ marked.message = reader.message
      /\ marked.count = reader.count /\ marked.index = reader.index
  BY <1>1 DEF Marked, IsSQLiteReader, SQLiteFields
<1> HIDE DEF marked
<1>3. reader.malformed \in Nat
  BY <1>1
<1>4. marked.malformed \in Nat
  BY <1>2, <1>3
<1>5. marked.partial \in BOOLEAN /\ (marked.partial <=> reader.partial \/ lost)
  BY <1>1, <1>2, Zenon
<1>6. QED
  BY <1>2, <1>4, <1>5 DEF marked

LEMMA SQLiteMoves ==
  ASSUME SQLiteType, harness = "sqlite", [Next]_vars
  PROVE  SQLiteMove /\ IsSQLiteReader(reader)' /\ IsSeen(seen)'
<1>1. /\ IsSQLiteReader(reader) /\ IsSeen(seen) /\ reader.partial \in BOOLEAN /\ ~reader.changed
      /\ reader.malformed \in Nat /\ reader.index \in Nat
      /\ store \in Databases
  BY DEF SQLiteType, Result
<1>2. ASSUME NEW code \in Errors \ {"none"}, Fail(code), reader.pc # "done", UNCHANGED <<emitted, seen, store>>
      PROVE  SQLiteMove /\ IsSQLiteReader(reader)' /\ IsSeen(seen)'
  <2>1. IsSQLiteReader(reader)' /\ SQLiteQuits
    BY <1>1, <1>2 DEF Fail, IsSQLiteReader, SQLiteFields, SQLiteQuits
  <2>2. QED
    BY <1>1, <1>2, <2>1 DEF SQLiteMove
<1>3. CASE SinkRefuses \/ ReadFails \/ NoticesCancel
  <2>1. PICK code \in Errors \ {"none"} : Fail(code) /\ UNCHANGED <<emitted, seen, store>>
    BY <1>3 DEF SinkRefuses, ReadFails, NoticesCancel, Errors
  <2>2. reader.pc # "done"
    BY <1>3 DEF SinkRefuses, ReadFails, NoticesCancel, SinkPoints, ReadPoints, CancelPoints
  <2>3. QED
    BY <1>2, <2>1, <2>2
<1>4. CASE SQLiteBegins
  <2> DEFINE lost == store.schema # "full"
             marked == Marked(lost, 0)
  <2>1. /\ reader.pc = "begin" /\ UNCHANGED <<store, emitted>>
        /\ reader' = [marked EXCEPT !.pc = "session"] /\ seen' = [seen EXCEPT !.before = store]
    BY <1>4 DEF SQLiteBegins
  <2>2. lost \in BOOLEAN
    OBVIOUS
  <2> HIDE DEF lost
  <2>3. /\ IsSQLiteReader(marked) /\ (marked.partial <=> reader.partial \/ lost) /\ marked.partial \in BOOLEAN
        /\ marked.malformed \in Nat
        /\ marked.changed = reader.changed /\ marked.error = reader.error /\ marked.pc = reader.pc
        /\ marked.rows = reader.rows /\ marked.message = reader.message
        /\ marked.count = reader.count /\ marked.index = reader.index
    BY <2>2, SQLiteMarked
  <2> HIDE DEF marked
  <2>4. ~reader.partial
    BY <2>1 DEF SQLiteType
  <2>5. /\ IsSQLiteReader(reader)' /\ reader'.pc = "session" /\ reader'.malformed \in Nat
        /\ reader'.partial = marked.partial
        /\ UNCHANGED <<reader.changed, reader.error, reader.message, reader.count, reader.index>>
    BY <2>1, <2>3 DEF IsSQLiteReader, SQLiteFields
  <2>6. IsSeen(seen)' /\ seen'.before = store
    BY <1>1, <2>1 DEF IsSeen
  <2>7. SQLiteOpens
    BY <2>1, <2>3, <2>4, <2>5, <2>6 DEF SQLiteOpens, lost
  <2>8. QED
    BY <2>5, <2>6, <2>7 DEF SQLiteMove
<1>5. CASE SQLiteReadsSession
  <2>0. reader.pc = "session" /\ UNCHANGED <<store, emitted, seen>> /\ Shows \in Databases
    BY <1>5 DEF SQLiteReadsSession, Turn, SQLiteType
  <2>1. CASE Shows.schema = "sessionless"
    <3>1. Fail("read_error")
      BY <1>5, <2>1 DEF SQLiteReadsSession, Shows
    <3>2. "read_error" \in Errors \ {"none"}
      BY DEF Errors
    <3>3. QED
      BY <1>2, <2>0, <3>1, <3>2
  <2>2. CASE Shows.schema = "partless"
    <3> DEFINE marked == Marked(TRUE, 0)
    <3>1. reader' = [marked EXCEPT !.pc = "done"]
      BY <1>5, <2>2 DEF SQLiteReadsSession, Shows
    <3>2. /\ IsSQLiteReader(marked) /\ (marked.partial <=> reader.partial \/ TRUE) /\ marked.partial \in BOOLEAN
          /\ marked.malformed \in Nat
          /\ marked.changed = reader.changed /\ marked.error = reader.error /\ marked.pc = reader.pc
          /\ marked.rows = reader.rows /\ marked.message = reader.message
          /\ marked.count = reader.count /\ marked.index = reader.index
      BY SQLiteMarked
    <3> HIDE DEF marked
    <3>3. /\ IsSQLiteReader(reader)' /\ reader'.pc = "done" /\ reader'.malformed \in Nat
          /\ reader'.partial = TRUE
          /\ UNCHANGED <<reader.changed, reader.error, reader.message, reader.count, reader.index>>
      BY <3>1, <3>2 DEF IsSQLiteReader, SQLiteFields
    <3>4. SQLiteSkips
      BY <2>0, <2>2, <3>3 DEF SQLiteSkips
    <3>5. QED
      BY <1>1, <2>0, <3>3, <3>4 DEF SQLiteMove
  <2>3. CASE Shows.schema = "full"
    <3> DEFINE all == Rows(Shows)
    <3>1. reader' = [reader EXCEPT !.pc = "rows", !.rows = all]
      BY <1>5, <2>3 DEF SQLiteReadsSession, Shows
    <3> HIDE DEF all
    <3>2. /\ IsSQLiteReader(reader)' /\ reader'.pc = "rows" /\ reader'.rows = all
          /\ UNCHANGED <<reader.partial, reader.malformed, reader.changed, reader.error, reader.message,
                         reader.count, reader.index>>
      BY <1>1, <3>1 DEF IsSQLiteReader, SQLiteFields
    <3>3. SQLiteFinds
      BY <2>0, <2>3, <3>2 DEF SQLiteFinds, all
    <3>4. QED
      BY <1>1, <2>0, <3>2, <3>3 DEF SQLiteMove
  <2>4. Shows.schema \in {"full", "partless", "sessionless"}
    BY <2>0, StoresAssumption DEF IsDatabase
  <2>5. QED
    BY <2>1, <2>2, <2>3, <2>4
<1>6. CASE SQLiteReadsRow
  <2> DEFINE warned == Row.part # NoPart /\ RowLost(Row)
             lost == warned \/ (Another /\ Partless)
             marked == Marked(lost, 0)
             events == IF Row.part = NoPart THEN <<>> ELSE OpenCode!PartEvents(Row.message.rec, Row.part.rec, RowIndex)
             metadata == <<OpenCode!MapMessageMetadata(Row.message.rec, reader.index)>>
             more == Len(events)
             tail == Tail(reader.rows)
             count == (IF Another THEN 0 ELSE reader.count) + (IF Row.part = NoPart THEN 0 ELSE 1)
             next == RowIndex + more
             id == Row.message.id
  <2>1. /\ reader.pc = "rows" /\ reader.rows # <<>> /\ UNCHANGED <<store, seen>>
        /\ reader' = [marked EXCEPT !.rows = Tail(@), !.message = id,
                         !.count = (IF Another THEN 0 ELSE @) + (IF Row.part = NoPart THEN 0 ELSE 1),
                         !.index = next]
        /\ emitted' = emitted \o UsageEvents((IF Another THEN metadata ELSE <<>>) \o events)
    BY <1>6 DEF SQLiteReadsRow, Turn, Row, Another, RowIndex, RowLost, Emit
  <2>2. lost \in BOOLEAN /\ Another \in BOOLEAN
    BY DEF Another
  <2>3. /\ UsageEvents((IF Another THEN metadata ELSE <<>>) \o events) = PartSays(Row.message.rec, Row.part.rec, RowIndex)
        /\ more \in 0..2 /\ (Row.part = NoPart \/ more > 0)
    <3>1. /\ UsageEvents(metadata \o events) = PartSays(Row.message.rec, Row.part.rec, RowIndex)
          /\ UsageEvents(<<>> \o events) = PartSays(Row.message.rec, Row.part.rec, RowIndex)
          /\ more \in 0..2 /\ (Row.part = NoPart \/ more > 0)
      BY RowTold
    <3> HIDE DEF metadata, events
    <3>2. CASE Another
      BY <3>1, <3>2
    <3>3. CASE ~Another
      BY <3>1, <3>3
    <3>4. QED
      BY <3>2, <3>3
  <2> HIDE DEF lost
  <2>4. /\ IsSQLiteReader(marked) /\ (marked.partial <=> reader.partial \/ lost) /\ marked.partial \in BOOLEAN
        /\ marked.malformed \in Nat
        /\ marked.changed = reader.changed /\ marked.error = reader.error /\ marked.pc = reader.pc
        /\ marked.rows = reader.rows /\ marked.message = reader.message
        /\ marked.count = reader.count /\ marked.index = reader.index
    BY <2>2, SQLiteMarked
  <2>5. reader' = [marked EXCEPT !.rows = tail, !.message = id, !.count = count, !.index = next]
    <3> HIDE DEF marked, id, next, Row, Another
    <3>1. marked.rows = reader.rows /\ marked.count = reader.count
      BY <2>4
    <3>2. QED
      BY <2>1, <3>1
  <2> HIDE DEF marked, tail, id, count, next
  <2>6. /\ IsSQLiteReader(reader)' /\ reader'.pc = "rows" /\ reader'.malformed \in Nat
        /\ reader'.partial = marked.partial /\ reader'.rows = tail /\ reader'.message = id
        /\ reader'.count = count /\ reader'.index = next
        /\ UNCHANGED <<reader.changed, reader.error>>
    BY <2>1, <2>4, <2>5 DEF IsSQLiteReader, SQLiteFields
  <2>7. reader'.partial \in BOOLEAN
        /\ (reader'.partial <=> (\/ reader.partial \/ (Row.part # NoPart /\ RowLost(Row)) \/ (Another /\ Partless)))
    BY <2>4, <2>6 DEF lost
  <2>8. \E n \in 0..2 : reader'.index = RowIndex + n /\ (Row.part = NoPart \/ n > 0)
    <3>1. reader'.index = RowIndex + more
      BY <2>6 DEF next
    <3> HIDE DEF more
    <3>2. QED
      BY <2>3, <3>1
  <2>9. emitted' = emitted \o PartSays(Row.message.rec, Row.part.rec, RowIndex)
    BY <2>1, <2>3
  <2>10. SQLiteTakes
    <3>1. /\ UNCHANGED <<reader.changed, reader.error, seen, store>>
          /\ reader.pc = "rows" /\ reader'.pc = "rows" /\ reader.rows # <<>> /\ reader'.malformed \in Nat
          /\ reader'.rows = Tail(reader.rows) /\ reader'.message = Row.message.id
          /\ reader'.count = (IF Another THEN 0 ELSE reader.count) + (IF Row.part = NoPart THEN 0 ELSE 1)
      BY <2>1, <2>6 DEF tail, id, count
    <3>2. QED
      BY <2>7, <2>8, <2>9, <3>1 DEF SQLiteTakes
  <2>11. QED
    BY <1>1, <2>1, <2>6, <2>10 DEF SQLiteMove, IsSeen
<1>7. CASE SQLiteEnds
  <2> DEFINE marked == Marked(Partless, 0)
  <2>1. /\ reader.pc = "rows" /\ reader.rows = <<>> /\ UNCHANGED <<store, emitted, seen>>
        /\ reader' = [marked EXCEPT !.pc = "done"]
    BY <1>7 DEF SQLiteEnds
  <2>2. Partless \in BOOLEAN
    BY DEF Partless
  <2>3. /\ IsSQLiteReader(marked) /\ (marked.partial <=> reader.partial \/ Partless) /\ marked.partial \in BOOLEAN
        /\ marked.malformed \in Nat
        /\ marked.changed = reader.changed /\ marked.error = reader.error /\ marked.pc = reader.pc
        /\ marked.rows = reader.rows /\ marked.message = reader.message
        /\ marked.count = reader.count /\ marked.index = reader.index
    <3> HIDE DEF Partless
    <3>1. QED
      BY <2>2, SQLiteMarked
  <2> HIDE DEF marked
  <2>4. /\ IsSQLiteReader(reader)' /\ reader'.pc = "done" /\ reader'.malformed \in Nat
        /\ reader'.partial = marked.partial
        /\ UNCHANGED <<reader.changed, reader.error, reader.message, reader.count, reader.index>>
    BY <2>1, <2>3 DEF IsSQLiteReader, SQLiteFields
  <2>5. SQLiteCloses
    BY <2>1, <2>3, <2>4 DEF SQLiteCloses
  <2>6. QED
    BY <1>1, <2>1, <2>4, <2>5 DEF SQLiteMove, IsSeen
<1>8. CASE SQLiteHarnessCommits
  BY <1>1, <1>8 DEF SQLiteHarnessCommits, SQLiteMove, IsSQLiteReader, IsSeen
<1>9. CASE Cancel \/ UNCHANGED vars
  <2>1. UNCHANGED <<store, reader, emitted, seen>>
    BY <1>9 DEF Cancel, vars
  <2>2. QED
    BY <1>1, <2>1 DEF SQLiteMove, IsSQLiteReader, IsSeen
<1>10. CASE \/ StatsBefore \/ Opens \/ FindsNothing \/ Fills \/ StatsAfter
            \/ ClaudeReadsLine \/ CodexReadsLine \/ EndOfFile
            \/ PiIndexesLine \/ PiAnalyzes \/ PiEmits \/ PiEnds
            \/ LegacyStats \/ LegacyReadsSession \/ LegacyListsMessages
            \/ LegacyReadsMessage \/ LegacyListsParts \/ LegacyReadsPart \/ LegacyStatsAfter
            \/ Discovers \/ WalkFails \/ Writes
            \/ LegacyHarnessWrites \/ WalkHarnessCreates \/ WalkHarnessRemoves
  BY <1>10 DEF StatsBefore, Opens, FindsNothing, Fills, StatsAfter, ClaudeReadsLine, CodexReadsLine, EndOfFile,
     PiIndexesLine, PiAnalyzes, PiEmits, PiEnds, LegacyStats, LegacyReadsSession, LegacyListsMessages,
     LegacyReadsMessage, LegacyListsParts, LegacyReadsPart, LegacyStatsAfter,
     Discovers, WalkDetects, WalkOpensBase, WalkEntersDirectory, WalkVisits, WalkEndsBase, WalkFails, Writes,
     HarnessAppends, HarnessCompletes, HarnessRewrites, HarnessReplaces, HarnessRemoves,
     LegacyHarnessWrites, WalkHarnessCreates, WalkHarnessRemoves, Turn, Walking, ReadsLines, LineHarnesses
<1>11. QED
  BY <1>3, <1>4, <1>5, <1>6, <1>7, <1>8, <1>9, <1>10 DEF Next, Parses, Fails, Harness, Writes

LEMMA SQLiteStarting == Init /\ harness = "sqlite" => SQLiteType /\ reader.pc = "begin"
<1> SUFFICES ASSUME Init, harness = "sqlite" PROVE SQLiteType /\ reader.pc = "begin"
  OBVIOUS
<1>1. store \in Databases
  BY StoresAssumption DEF Init
<1>2. reader = With(NoResult, [pc |-> "begin", rows |-> <<>>, message |-> 0, count |-> 0, index |-> 1])
  BY DEF Init, Start, LineHarnesses
<1>3. /\ IsSQLiteReader(reader) /\ reader.pc = "begin" /\ reader.message = 0 /\ reader.count = 0
      /\ reader.index = 1 /\ reader.partial = FALSE /\ reader.changed = FALSE /\ reader.malformed = 0
      /\ reader.error = "none"
  BY <1>2, ZenonT(60) DEF With, NoResult, IsSQLiteReader, SQLiteFields
<1>4. IsSeen(seen) /\ emitted = <<>>
  BY DEF Init, IsSeen
<1>5. Result
  <2>1. reader.error \in Errors /\ reader.malformed \in Nat
    BY <1>3 DEF Errors
  <2>2. QED
    BY <1>3, <2>1, Zenon DEF Result
<1>6. <<>> \in Seq(Messages) /\ Distinct(<<>>) /\ Positions(<<>>) = {}
  BY DEF Distinct, Positions
<1>7. QED
  BY <1>1, <1>3, <1>4, <1>5, <1>6 DEF SQLiteType

LEMMA SQLiteTypeStep ==
  ASSUME SQLiteType, SQLiteMove, IsSQLiteReader(reader)', IsSeen(seen)'
  PROVE  SQLiteType'
<1>1. /\ store \in Databases /\ reader.index \in Nat /\ reader.message \in Nat /\ reader.count \in Nat
      /\ reader.partial \in BOOLEAN /\ reader.changed \in BOOLEAN /\ ~reader.changed /\ reader.malformed \in Nat
      /\ reader.error \in Errors
      /\ emitted \in Seq(Messages) /\ Distinct(emitted)
      /\ \A p \in Positions(emitted) : p < reader.index
      /\ Positions(emitted) \in SUBSET Nat
  <2>1. \A i \in DOMAIN emitted : emitted[i] \in Messages
    BY DEF SQLiteType
  <2>2. Positions(emitted) \in SUBSET Nat
    BY <2>1 DEF Positions, Messages
  <2>3. QED
    BY <2>2 DEF SQLiteType, Result
<1>2. CASE UNCHANGED <<reader, emitted, seen>> /\ store' \in Databases
  BY <1>2 DEF SQLiteType, Result, Distinct, Positions, IsSQLiteReader, IsSeen, Shows
<1>3. CASE SQLiteQuits
  <2>1. Result'
    <3>1. /\ reader'.partial = TRUE /\ reader'.changed = FALSE /\ reader'.malformed \in Nat /\ reader'.error \in Errors
      BY <1>3 DEF SQLiteQuits
    <3>2. QED
      BY <3>1 DEF Result
  <2>2. UNCHANGED <<reader.message, reader.count, reader.index, emitted, seen, store>> /\ reader'.pc = "done"
        /\ ~reader'.changed
    BY <1>3 DEF SQLiteQuits
  <2>3. QED
    BY <1>1, <2>1, <2>2 DEF SQLiteType, Distinct, Positions
<1>4. CASE SQLiteOpens
  BY <1>1, <1>4 DEF SQLiteOpens, SQLiteType, Result, Distinct, Positions, Shows
<1>5. CASE SQLiteFinds
  <2>1. Shows \in Databases /\ UNCHANGED seen
    BY <1>5 DEF SQLiteFinds, SQLiteType
  <2>2. SortsRows(Rows(Shows), Joined(Shows))
    BY <2>1, StoresAssumption, RowsStart
  <2>3. Shows' = Shows
    BY <2>1 DEF Shows
  <2>4. /\ UNCHANGED <<reader.partial, reader.malformed, reader.changed, reader.error, reader.message, reader.count,
                       reader.index, emitted, seen, store>>
        /\ reader'.pc = "rows" /\ Shows.schema = "full" /\ reader'.rows = Rows(Shows) /\ reader.pc # "done"
    BY <1>5 DEF SQLiteFinds
  <2>5. SortsRows(reader'.rows, Joined(Shows'))
    BY <2>2, <2>3, <2>4
  <2>6. QED
    BY <1>1, <2>1, <2>3, <2>4, <2>5 DEF SQLiteType, Result, Distinct, Positions
<1>6. CASE SQLiteSkips
  BY <1>1, <1>6 DEF SQLiteSkips, SQLiteType, Result, Distinct, Positions, Shows
<1>7. CASE SQLiteTakes
  <2> DEFINE said == PartSays(Row.message.rec, Row.part.rec, RowIndex)
             at == RowIndex
  <2>1. /\ UNCHANGED <<reader.changed, reader.error, seen, store>>
        /\ reader.pc = "rows" /\ reader'.pc = "rows" /\ reader.rows # <<>> /\ reader'.malformed \in Nat
        /\ reader'.rows = Tail(reader.rows) /\ reader'.partial \in BOOLEAN
        /\ reader'.message = Row.message.id
        /\ reader'.count = (IF Another THEN 0 ELSE reader.count) + (IF Row.part = NoPart THEN 0 ELSE 1)
        /\ emitted' = emitted \o said
    BY <1>7 DEF SQLiteTakes
  <2>2. Shows \in Databases /\ IsDatabase(Shows) /\ Shows' = Shows /\ Shows.schema = "full"
        /\ SortsRows(reader.rows, Joined(Shows))
    BY <2>1, StoresAssumption DEF SQLiteType, Shows
  <2>3. Row \in Joined(Shows) /\ SortsRows(Tail(reader.rows), Joined(Shows))
    BY <2>1, <2>2, RowsTail DEF Row
  <2>4. Row.message.id \in Nat
    BY <2>2, <2>3, JoinedRows
  <2>5. reader'.count \in Nat
    BY <1>1, <2>1
  <2>6. at \in Nat /\ at >= reader.index
    BY <1>1 DEF RowIndex
  <2>7. PICK more \in 0..2 : reader'.index = at + more /\ (Row.part = NoPart \/ more > 0)
    BY <1>7 DEF SQLiteTakes
  <2>8. OneAt(said, at) /\ (Row.part = NoPart => said = <<>>)
    <3>1. OneAt(said, at)
      BY <2>6, PartSaysOne
    <3>2. NoPart.rec.valid = FALSE
      BY DEF NoPart
    <3>3. Row.part = NoPart => said = <<>>
      BY <3>2 DEF PartSays
    <3>4. QED
      BY <3>1, <3>3
  <2> HIDE DEF said, at
  <2>9. reader'.index \in Nat /\ reader'.index >= at /\ (Row.part # NoPart => reader'.index > at)
    BY <2>6, <2>7
  <2>10. \A p \in Positions(emitted) : p < at
    BY <1>1, <2>6
  <2>11. at \notin Positions(emitted)
    BY <2>6, <2>10
  <2>12. /\ emitted \o said \in Seq(Messages) /\ Distinct(emitted \o said)
         /\ Positions(emitted \o said) \in SUBSET (Positions(emitted) \cup {at})
    BY <1>1, <2>8, <2>11, Joins
  <2>13. emitted' \in Seq(Messages) /\ Distinct(emitted)'
    BY <2>1, <2>12 DEF Distinct
  <2>14. \A p \in Positions(emitted') : p < reader'.index
    <3>1. \A p \in Positions(emitted) : p < reader'.index
      BY <1>1, <2>6, <2>9, <2>10
    <3>2. CASE Row.part = NoPart
      <4>1. emitted' = emitted
        <5>1. emitted' = emitted \o <<>>
          BY <2>1, <2>8, <3>2
        <5>2. QED
          BY <1>1, <5>1
      <4>2. QED
        BY <3>1, <4>1
    <3>3. CASE Row.part # NoPart
      BY <2>1, <2>9, <2>12, <3>1, <3>3
    <3>4. QED
      BY <3>2, <3>3
  <2>15. Result'
    BY <1>1, <2>1 DEF Result
  <2>16. SortsRows(reader'.rows, Joined(Shows'))
    BY <2>1, <2>2, <2>3
  <2>17. reader.error = "none"
    BY <2>1 DEF SQLiteType
  <2>18. QED
    BY <1>1, <2>1, <2>2, <2>4, <2>5, <2>9, <2>13, <2>14, <2>15, <2>16, <2>17 DEF SQLiteType, Positions
<1>8. CASE SQLiteCloses
  BY <1>1, <1>8 DEF SQLiteCloses, SQLiteType, Result, Distinct, Positions, Shows
<1>9. QED
  BY <1>2, <1>3, <1>4, <1>5, <1>6, <1>7, <1>8 DEF SQLiteMove

(***************************************************************************)
(* What is told of the rows, and what is still to be told.                 *)
(***************************************************************************)

\* A message without parts has one row; once that is read, no other is its.
RowsStand ==
  \A r \in ToSet(reader.rows) :
    r.part = NoPart \/ Partless => r.message.id # reader.message

RowsToTell ==
  /\ reader.pc = "rows" =>
       /\ Spoken \o AllOf(RowsTell(Joined(Shows)), reader.rows) = DatabaseSays(Shows)
       /\ (reader.partial \/ Partless \/ \E r \in ToSet(reader.rows) : RowLost(r)) <=> DatabaseUnread(Shows)
       /\ RowsStand
  /\ reader.pc = "done" /\ reader.error = "none" =>
       Spoken = DatabaseSays(Shows) /\ (reader.partial <=> DatabaseUnread(Shows))

LEMMA SQLiteFindsAll ==
  ASSUME SQLiteType, SQLiteFinds \/ SQLiteSkips
  PROVE  RowsToTell'
<1>1. /\ reader.pc = "session" /\ UNCHANGED <<emitted, seen, reader.message, reader.error>>
      /\ emitted = <<>> /\ reader.message = 0
      /\ Shows \in Databases /\ IsDatabase(Shows) /\ Shows' = Shows
      /\ (reader.partial <=> Shows.schema # "full")
  BY StoresAssumption DEF SQLiteFinds, SQLiteSkips, SQLiteType, Shows
<1>2. Spoken' = <<>>
  BY <1>1 DEF Spoken
<1>3. CASE SQLiteFinds
  <2> DEFINE J == Joined(Shows)
             all == AllOf(RowsTell(J), Rows(Shows))
  <2>1. reader'.pc = "rows" /\ reader'.rows = Rows(Shows) /\ Shows.schema = "full" /\ reader'.partial = reader.partial
    BY <1>3 DEF SQLiteFinds
  <2>2. all = DatabaseSays(Shows) /\ ToSet(Rows(Shows)) = J /\ SortsRows(Rows(Shows), J)
    BY <1>1, <2>1, RowsSayAll, RowsStart
  <2>3. DatabaseUnread(Shows) <=> \E r \in J : RowLost(r)
    BY <1>1, <2>1, RowsLost
  <2>4. \A r \in J : r.message.id # 0
    BY <1>1, JoinedRows
  <2>5. all \in Seq(Sayings)
    <3>1. Tells(RowsTell(J), J, Sayings)
      BY RowsTellType
    <3>2. Rows(Shows) \in Seq(J)
      BY <1>1, RowsInSeq
    <3> HIDE DEF J
    <3>3. QED
      BY <3>1, <3>2, AllOfType
  <2> HIDE DEF all, J
  <2>6. <<>> \o all = all
    BY <2>5
  <2>7. ~Partless'
    BY <1>1 DEF Partless
  <2>8. Spoken' \o AllOf(RowsTell(Joined(Shows')), reader'.rows) = DatabaseSays(Shows')
    BY <1>1, <1>2, <2>1, <2>2, <2>6 DEF all, J
  <2>9. (reader'.partial \/ Partless' \/ \E r \in ToSet(reader'.rows) : RowLost(r)) <=> DatabaseUnread(Shows')
    BY <1>1, <2>1, <2>2, <2>3, <2>7
  <2>10. RowsStand'
    BY <1>1, <2>1, <2>2, <2>4 DEF RowsStand
  <2>11. QED
    BY <2>1, <2>8, <2>9, <2>10 DEF RowsToTell
<1>4. CASE SQLiteSkips
  <2>1. reader'.pc = "done" /\ Shows.schema # "full" /\ reader'.partial = TRUE
    BY <1>4 DEF SQLiteSkips
  <2>2. DatabaseSays(Shows) = <<>> /\ DatabaseUnread(Shows)
    BY <2>1 DEF DatabaseSays, DatabaseUnread
  <2>3. QED
    BY <1>1, <1>2, <2>1, <2>2 DEF RowsToTell
<1>5. QED
  BY <1>3, <1>4

LEMMA SQLiteTakesAll ==
  ASSUME SQLiteType, RowsToTell, SQLiteTakes
  PROVE  RowsToTell'
<1> DEFINE J == Joined(Shows)
           F == RowsTell(J)
           X == ToSet(reader.rows)
           Y == ToSet(Tail(reader.rows))
           one == Said(Row.message.rec, Row.part.rec)
           rest == AllOf(F, Tail(reader.rows))
           now == Spoken
<1>1. /\ reader.pc = "rows" /\ reader'.pc = "rows" /\ reader.rows # <<>> /\ UNCHANGED seen
      /\ reader'.rows = Tail(reader.rows) /\ reader'.message = Row.message.id
      /\ reader'.count = (IF Another THEN 0 ELSE reader.count) + (IF Row.part = NoPart THEN 0 ELSE 1)
      /\ emitted \in Seq(Messages) /\ reader.index \in Nat /\ reader.count \in Nat
  BY DEF SQLiteTakes, SQLiteType
<1>2. /\ Shows \in Databases /\ IsDatabase(Shows) /\ Shows' = Shows
      /\ SortsRows(reader.rows, J)
  BY <1>1, StoresAssumption DEF SQLiteType, Shows
<1>3. /\ Row \in X /\ Row \in J /\ Y = X \ {Row} /\ AllOf(F, reader.rows) = one \o rest /\ rest \in Seq(Sayings)
  BY <1>1, <1>2, RowsTail DEF Row
<1>4. X \in SUBSET J
  BY <1>2 DEF SortsRows
<1>5. /\ now \o AllOf(F, reader.rows) = DatabaseSays(Shows)
      /\ (reader.partial \/ Partless \/ \E r \in X : RowLost(r)) <=> DatabaseUnread(Shows)
      /\ RowsStand
  BY <1>1 DEF RowsToTell
<1>6. now \in Seq(Sayings) /\ one \in Seq(Sayings)
  BY <1>1, SpokenIs, VoicesJoin, SaidType
<1>7. Spoken' = now \o one
  <2>1. emitted' = emitted \o PartSays(Row.message.rec, Row.part.rec, RowIndex)
    BY DEF SQLiteTakes
  <2>2. RowIndex \in Nat
    BY <1>1 DEF RowIndex
  <2>3. Voices(emitted') = Voices(emitted) \o one
    BY <1>1, <2>1, <2>2, VoicesSaid
  <2>4. Spoken' = Voices(emitted')
    BY DEF Spoken, Voices
  <2>5. QED
    BY <2>3, <2>4, SpokenIs
<1>8. Spoken' \o AllOf(RowsTell(Joined(Shows')), reader'.rows) = DatabaseSays(Shows')
  <2>1. AllOf(RowsTell(Joined(Shows')), reader'.rows) = rest
    BY <1>1, <1>2
  <2>2. now \o (one \o rest) = DatabaseSays(Shows)
    BY <1>3, <1>5
  <2> HIDE DEF now, one, rest
  <2>3. (now \o one) \o rest = now \o (one \o rest)
    BY <1>3, <1>6, ConcatAssociative
  <2>4. QED
    BY <1>2, <1>7, <2>1, <2>2, <2>3
<1>9. Row.message.id # 0
  BY <1>2, <1>3, JoinedRows
<1>10. Partless' <=> Row.part = NoPart /\ (Another \/ reader.count = 0)
  BY <1>1, <1>9 DEF Partless
<1>11. RowLost(Row) <=> Row.part = NoPart \/ (Row.part # NoPart /\ RowLost(Row))
  BY NoPartLost DEF RowLost
<1>12. Row.part = NoPart \/ Partless => Another
  BY <1>3, <1>5 DEF RowsStand, Another
<1>13. (reader'.partial \/ Partless' \/ \E r \in Y : RowLost(r)) <=> DatabaseUnread(Shows)
  <2>1. (\E r \in X : RowLost(r)) <=> RowLost(Row) \/ \E r \in Y : RowLost(r)
    BY <1>3
  <2>2. reader'.partial <=> (\/ reader.partial \/ (Row.part # NoPart /\ RowLost(Row)) \/ (Another /\ Partless))
    BY DEF SQLiteTakes
  <2>3. QED
    BY <1>5, <1>10, <1>11, <1>12, <2>1, <2>2
<1>14. RowsStand'
  <2> SUFFICES ASSUME NEW r \in Y, r.part = NoPart \/ Partless' PROVE r.message.id # Row.message.id
    BY <1>1 DEF RowsStand
  <2>1. r \in J /\ r # Row
    BY <1>3, <1>4
  <2>2. Row.part = NoPart \/ r.part = NoPart
    BY <1>10
  <2>3. QED
    BY <1>2, <1>3, <2>1, <2>2, AloneRow
<1>15. QED
  BY <1>1, <1>2, <1>8, <1>13, <1>14 DEF RowsToTell

LEMMA SQLiteClosesAll ==
  ASSUME SQLiteType, RowsToTell, SQLiteCloses
  PROVE  RowsToTell'
<1>1. /\ reader.pc = "rows" /\ reader'.pc = "done" /\ reader.rows = <<>> /\ UNCHANGED <<emitted, seen>>
      /\ (reader'.partial <=> reader.partial \/ Partless) /\ emitted \in Seq(Messages)
  BY DEF SQLiteCloses, SQLiteType
<1>2. ToSet(<<>>) = {}
  BY DEF ToSet
<1>3. Spoken \o <<>> = DatabaseSays(Shows) /\ (reader'.partial <=> DatabaseUnread(Shows))
  BY <1>1, <1>2, AllOfNone DEF RowsToTell
<1> DEFINE now == Spoken
<1>4. now \in Seq(Sayings)
  BY <1>1, SpokenIs, VoicesJoin
<1>5. Spoken = DatabaseSays(Shows)
  <2>1. now \o <<>> = DatabaseSays(Shows)
    BY <1>3
  <2> HIDE DEF now
  <2>2. now = DatabaseSays(Shows)
    BY <1>4, <2>1
  <2>3. QED
    BY <2>2 DEF now
<1>6. Spoken' = Spoken /\ Shows' = Shows
  BY <1>1 DEF Spoken, Shows
<1>7. QED
  BY <1>1, <1>3, <1>5, <1>6 DEF RowsToTell

LEMMA SQLiteToldStep ==
  ASSUME SQLiteType, RowsToTell, SQLiteMove
  PROVE  RowsToTell'
<1>1. CASE UNCHANGED <<reader, emitted, seen>>
  BY <1>1 DEF RowsToTell, RowsStand, Partless, Spoken, Shows
<1>2. CASE SQLiteQuits \/ SQLiteOpens
  BY <1>2 DEF SQLiteQuits, SQLiteOpens, RowsToTell
<1>3. QED
  BY <1>1, <1>2, SQLiteFindsAll, SQLiteTakesAll, SQLiteClosesAll DEF SQLiteMove

LEMMA SQLiteAlways == Spec => [](harness = "sqlite" => SQLiteType /\ RowsToTell)
<1> DEFINE Inv == harness = "sqlite" => SQLiteType /\ RowsToTell
<1>1. Init => Inv
  BY SQLiteStarting DEF RowsToTell
<1>2. Inv /\ [Next]_vars => Inv'
  <2> SUFFICES ASSUME Inv, [Next]_vars, harness' = "sqlite" PROVE SQLiteType' /\ RowsToTell'
    OBVIOUS
  <2>1. UNCHANGED harness
    BY HarnessStays
  <2>2. harness = "sqlite" /\ SQLiteType /\ RowsToTell
    BY <2>1
  <2>3. SQLiteMove /\ IsSQLiteReader(reader)' /\ IsSeen(seen)'
    BY <2>2, SQLiteMoves
  <2>4. QED
    BY <2>2, <2>3, SQLiteTypeStep, SQLiteToldStep
<1>3. QED
  BY <1>1, <1>2, PTL DEF Spec

(***************************************************************************)
(* What every adapter returns: the invariants of the six readers together. *)
(***************************************************************************)

\* One reader's invariant at a time, and what no reader touches.
ReadersInv ==
  /\ LineInv /\ LineResult /\ LinesTold /\ PiStage /\ PiEmitted /\ PiLossStage
  /\ harness = "legacy" => LegacyType /\ LegacyTold /\ LegacyWhole
  /\ harness = "sqlite" => SQLiteType /\ RowsToTell
  /\ WalkInv

\* Whatever the adapter, its result is well formed at every moment.
ResultInv ==
  /\ Result
  /\ emitted \in Seq(Messages) /\ Distinct(emitted)

LEMMA ReadersAlways == Spec => []ReadersInv
<1> DEFINE OfLines == LineInv /\ LineResult /\ LinesTold /\ PiStage /\ PiEmitted
           OfLegacy == harness = "legacy" => LegacyType /\ LegacyTold /\ LegacyWhole
           OfDatabase == harness = "sqlite" => SQLiteType /\ RowsToTell
<1>1. Spec => []OfLines
  BY EmittedAlways
<1>2. Spec => []OfLegacy
  BY LegacyWholeAlways
<1>3. Spec => []OfDatabase
  BY SQLiteAlways
<1>4. OfLines /\ PiLossStage /\ OfLegacy /\ OfDatabase /\ WalkInv => ReadersInv
  BY DEF ReadersInv
<1>5. QED
  BY <1>1, <1>2, <1>3, <1>4, LossStageAlways, WalkAlways, PTL

\* The bound of the harness's writes, and what is chosen once.
Surroundings == harness \in Harnesses /\ cancelled \in BOOLEAN /\ writes \in Nat

LEMMA SurroundingsStay == ASSUME Surroundings, [Next]_vars PROVE Surroundings'
<1> DEFINE Idle == UNCHANGED <<cancelled, writes>>
<1>1. harness' \in Harnesses
  BY HarnessStays DEF Surroundings
<1>2. Parses => Idle
  BY ZenonT(30) DEF Parses,
     StatsBefore, Opens, FindsNothing, Fills, StatsAfter, ClaudeReadsLine, CodexReadsLine, EndOfFile,
     PiIndexesLine, PiAnalyzes, PiEmits, PiEnds, LegacyStats, LegacyReadsSession, LegacyListsMessages,
     LegacyReadsMessage, LegacyListsParts, LegacyReadsPart, LegacyStatsAfter, SQLiteBegins,
     SQLiteReadsSession, SQLiteReadsRow, SQLiteEnds
<1>3. Discovers \/ Fails \/ UNCHANGED vars => Idle
  BY ZenonT(30) DEF Discovers, Fails, WalkDetects, WalkOpensBase, WalkEntersDirectory,
     WalkVisits, WalkEndsBase, SinkRefuses, ReadFails, NoticesCancel, WalkFails, vars
<1>4. Harness => writes > 0 /\ writes' = writes - 1 /\ UNCHANGED cancelled
  BY ZenonT(30) DEF Harness, MayWrite, HarnessAppends, HarnessCompletes, HarnessRewrites, HarnessReplaces,
     HarnessRemoves, LegacyHarnessWrites, SQLiteHarnessCommits, WalkHarnessCreates, WalkHarnessRemoves
<1>5. Cancel => cancelled' = TRUE /\ UNCHANGED writes
  BY DEF Cancel
<1>6. Idle \/ Harness \/ Cancel
  BY <1>2, <1>3 DEF Next
<1> HIDE DEF Idle
<1>7. cancelled' \in BOOLEAN
  BY <1>4, <1>5, <1>6 DEF Surroundings, Idle
<1>8. writes' \in Nat
  <2>1. writes' = writes \/ (writes > 0 /\ writes' = writes - 1)
    BY <1>4, <1>5, <1>6 DEF Idle
  <2>2. writes \in Nat
    BY DEF Surroundings
  <2>3. QED
    BY ONLY <2>1, <2>2
<1>9. QED
  BY <1>1, <1>7, <1>8 DEF Surroundings

LEMMA SurroundingsAlways == Spec => []Surroundings
<1>1. Init => Surroundings
  BY ReadingAssumption DEF Init, Surroundings
<1>2. Surroundings /\ [Next]_vars => Surroundings'
  BY SurroundingsStay
<1>3. QED
  BY <1>1, <1>2, PTL DEF Spec

\* The six readers have the same result.
LEMMA ResultOfReaders == ASSUME ReadersInv, harness \in Harnesses PROVE ResultInv
<1>1. harness \in LineHarnesses \/ harness \in {"legacy", "sqlite", "walk"}
  BY DEF Harnesses, LineHarnesses
<1>2. CASE harness \in LineHarnesses
  <2>1. Result
    BY <1>2 DEF ReadersInv, LineResult, Result
  <2>2. CASE harness = "pi"
    BY <2>1, <2>2 DEF ReadersInv, PiEmitted, ResultInv
  <2>3. CASE harness # "pi"
    BY <1>2, <2>1, <2>3 DEF ReadersInv, LinesTold, LineAfterLine, LineHarnesses, ResultInv
  <2>4. QED
    BY <2>2, <2>3
<1>3. CASE harness = "legacy"
  BY <1>3 DEF ReadersInv, LegacyType, ResultInv
<1>4. CASE harness = "sqlite"
  BY <1>4 DEF ReadersInv, SQLiteType, ResultInv
<1>5. CASE harness = "walk"
  <2>1. Result /\ emitted = <<>>
    BY <1>5 DEF ReadersInv, WalkInv, WalkType
  <2>2. <<>> \in Seq(Messages) /\ DOMAIN <<>> = {}
    OBVIOUS
  <2>3. QED
    BY <2>1, <2>2 DEF ResultInv, Distinct
<1>6. QED
  BY <1>1, <1>2, <1>3, <1>4, <1>5

\* What an adapter hands on is a user's or an assistant's message with nothing
\* in it but words and placeholders, whatever is in the records (usageEvent), and
\* its counts and its error are among those its callers know.
THEOREM AdaptersTypeOK == Spec => []TypeOK
<1>1. ReadersInv /\ Surroundings => TypeOK
  BY ResultOfReaders DEF Surroundings, ResultInv, Result, TypeOK
<1>2. QED
  BY <1>1, ReadersAlways, SurroundingsAlways, PTL

\* No two messages of a session have one position, from which the pipeline derives
\* an event's identity.
THEOREM PositionsAreDistinct == Spec => []PositionsDistinct
<1>1. ReadersInv /\ Surroundings => PositionsDistinct
  BY ResultOfReaders DEF Surroundings, ResultInv, Distinct, PositionsDistinct
<1>2. QED
  BY <1>1, ReadersAlways, SurroundingsAlways, PTL

\* The lines of the snapshot, told one by one.
LEMMA SnapshotIsTold ==
  ASSUME ReadersInv, harness \in LineAfterLine, Undisturbed
  PROVE  /\ emitted = FlattenSeq(ToldBy(harness, seen.before))
         /\ reader.partial <=> SomeUnread(harness, seen.before)
<1>1. harness \in LineHarnesses /\ reader.error = "none" /\ ~reader.changed /\ seen.stood /\ reader.pc = "done"
  BY DEF LineAfterLine, LineHarnesses, Undisturbed, Returned, Done, Running
<1>2. seen.lines = seen.before
  BY <1>1 DEF ReadersInv, LineInv, Snapshot
<1>3. QED
  BY <1>1, <1>2 DEF ReadersInv, LinesTold

\* The rows of the version the transaction showed.
LEMMA VersionIsTold ==
  ASSUME ReadersInv, harness = "sqlite", Undisturbed
  PROVE  Spoken = DatabaseSays(seen.before) /\ (reader.partial <=> DatabaseUnread(seen.before))
<1>1. reader.error = "none" /\ reader.pc = "done"
  BY DEF Undisturbed, Returned, Done, Running
<1>2. QED
  BY <1>1 DEF ReadersInv, RowsToTell, Shows

\* Of an undisturbed history every message comes out once, in order, with all
\* that may be shown of it and nothing else.
THEOREM ConversationsAreWhole == Spec => []ConversationWhole
<1>1. ReadersInv /\ Surroundings => ConversationWhole
  <2> SUFFICES ASSUME ReadersInv, harness \in Harnesses, Undisturbed
               PROVE  CASE harness \in {"claude", "codex"} ->
                             emitted = FlattenSeq([i \in DOMAIN seen.before |-> LineSays(harness, seen.before, i)])
                        [] harness = "pi" ->
                             emitted = FlattenSeq([i \in DOMAIN seen.passed |->
                                                     LineSays("pi", seen.before, seen.passed[i])])
                        [] harness = "legacy" -> Spoken = LegacySays(store)
                        [] harness = "sqlite" -> Spoken = DatabaseSays(seen.before)
                        [] harness = "walk"   -> TRUE
    BY DEF Surroundings, ConversationWhole
  <2>1. CASE harness \in {"claude", "codex"}
    BY <2>1, SnapshotIsTold DEF LineAfterLine, ToldBy
  <2>2. CASE harness = "pi"
    BY <2>2, PassedIsWhole DEF ReadersInv, PassedTold
  <2>3. CASE harness = "legacy"
    BY <2>3, LegacyIsWhole DEF ReadersInv
  <2>4. CASE harness = "sqlite"
    BY <2>4, VersionIsTold
  <2>5. CASE harness = "walk"
    BY <2>5
  <2>6. QED
    BY <2>1, <2>2, <2>3, <2>4, <2>5 DEF Harnesses
<1>2. QED
  BY <1>1, ReadersAlways, SurroundingsAlways, PTL

\* The result is partial exactly when something of an undisturbed history could
\* not be read, for files, trees, stores and databases of any size; what was read
\* and not understood is not in it (UnknownIsReported is false of the code).
THEOREM UnreadPartsAreMarked == Spec => []UnreadIsMarked
<1>1. ReadersInv /\ Surroundings => UnreadIsMarked
  <2> SUFFICES ASSUME ReadersInv, harness \in Harnesses, Undisturbed
               PROVE  CASE harness \in {"claude", "codex"} ->
                             reader.partial <=> \E i \in DOMAIN seen.before : LineUnread(harness, seen.before[i])
                        [] harness = "pi"     -> reader.partial <=> PiUnread(seen.before)
                        [] harness = "legacy" -> reader.partial <=> LegacyUnread(store)
                        [] harness = "sqlite" -> reader.partial <=> DatabaseUnread(seen.before)
                        [] harness = "walk"   -> TRUE
    BY DEF Surroundings, UnreadIsMarked
  <2>1. CASE harness \in {"claude", "codex"}
    BY <2>1, SnapshotIsTold DEF LineAfterLine, SomeUnread
  <2>2. CASE harness = "pi"
    BY <2>2, PiMarksLosses DEF ReadersInv
  <2>3. CASE harness = "legacy"
    BY <2>3, LegacyIsWhole DEF ReadersInv
  <2>4. CASE harness = "sqlite"
    BY <2>4, VersionIsTold
  <2>5. CASE harness = "walk"
    BY <2>5
  <2>6. QED
    BY <2>1, <2>2, <2>3, <2>4, <2>5 DEF Harnesses
<1>2. QED
  BY <1>1, ReadersAlways, SurroundingsAlways, PTL

===============================================================================
