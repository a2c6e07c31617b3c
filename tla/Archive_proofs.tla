---------------------------- MODULE Archive_proofs ----------------------------
(***************************************************************************)
(* Proofs about Archive, for every input that Build may be called with and *)
(* any number of damaged files: that what was built is what was planned, that *)
(* a published archive tells the input, and that no input gets into one that *)
(* does not add up.                                                        *)
(***************************************************************************)
EXTENDS Archive, FiniteTheorems, SequenceTheorems

(***************************************************************************)
(* Sorting keeps every session.                                             *)
(***************************************************************************)

LEMMA InputTypes ==
  ASSUME input \in Inputs
  PROVE  /\ input.sessions \in Seq(Sessions) /\ Len(input.sessions) \in Nat
         /\ DOMAIN input.sessions = 1..Len(input.sessions)
         /\ \A s \in 1..Len(input.sessions) : input.sessions[s] \in Sessions
<1>1. input.sessions \in Seq(Sessions)
  BY ArchiveAssumption
<1>2. QED
  BY <1>1

LEMMA SessionTypes ==
  ASSUME NEW session \in Sessions
  PROVE  /\ session.order \in Nat /\ session.integrity \in Integrities
         /\ session.events \in Seq(Events) /\ Len(session.events) \in Nat
         /\ DOMAIN session.events = 1..Len(session.events)
<1>1. session.order \in Nat /\ session.integrity \in Integrities /\ session.events \in Seq(Events)
  BY DEF Sessions
<1>2. QED
  BY <1>1

\* place sends each place in the archive to the session's place in the input.
Sorting(place) ==
  /\ place \in [1..Len(input.sessions) -> 1..Len(input.sessions)]
  /\ \A n \in 1..Len(input.sessions) : Sorted[n] = input.sessions[place[n]]
  /\ \A s \in 1..Len(input.sessions) : \E n \in 1..Len(input.sessions) : place[n] = s
  /\ \A m, n \in 1..Len(input.sessions) : place[m] = place[n] => m = n

LEMMA SortingExists == input \in Inputs => \E place : Sorting(place)
<1> SUFFICES ASSUME input \in Inputs PROVE \E place : Sorting(place)
  OBVIOUS
<1> DEFINE N == Len(input.sessions)
           S == 1..N
           Before(s) == {t \in S : Precedes(t, s)}
           below == [s \in S |-> Before(s)]
           Nth(n) == CHOOSE s \in S : Cardinality(Before(s)) = n - 1
           place == [n \in S |-> Nth(n)]
<1>1. N \in Nat /\ DOMAIN input.sessions = S
  BY InputTypes
<1>2. \A s \in S : input.sessions[s].order \in Nat
  BY InputTypes, SessionTypes
<1>3. IsFiniteSet(S) /\ Cardinality(S) = N
  BY <1>1, NumbersTo
<1> HIDE DEF N
<1>4. \A s, t \in S : Precedes(s, t) <=>
        \/ input.sessions[s].order < input.sessions[t].order
        \/ ~(input.sessions[t].order < input.sessions[s].order) /\ s < t
  BY DEF Precedes, SessionLess
<1>5. TotalOrder(below, S)
  <2>1. \A s \in S : ~Precedes(s, s)
    BY <1>1, <1>2, <1>4
  <2>2. \A s, t \in S : s # t => Precedes(s, t) \/ Precedes(t, s)
    BY <1>1, <1>2, <1>4
  <2>3. \A r, s, t \in S : Precedes(r, s) /\ Precedes(s, t) => Precedes(r, t)
    BY <1>1, <1>2, <1>4, SMTT(30)
  <2>4. \A s \in S : below[s] = Before(s)
    OBVIOUS
  <2> HIDE DEF below, S
  <2>5. QED
    BY <2>1, <2>2, <2>3, <2>4 DEF TotalOrder
<1>6. Placed(place, below, S)
  <2>1. \A s \in S : below[s] = Before(s)
    OBVIOUS
  <2>2. ASSUME NEW n \in S, \E s \in S : Cardinality(below[s]) = n - 1
        PROVE  place[n] \in S /\ Cardinality(below[place[n]]) = n - 1
    <3>1. place[n] = CHOOSE s \in S : Cardinality(Before(s)) = n - 1
      OBVIOUS
    <3> HIDE DEF place, Before, below
    <3>2. \E s \in S : Cardinality(Before(s)) = n - 1
      BY <2>1, <2>2
    <3>3. place[n] \in S /\ Cardinality(Before(place[n])) = n - 1
      BY <3>1, <3>2
    <3>4. QED
      BY <2>1, <3>3
  <2> HIDE DEF place, below, S
  <2>3. QED
    BY <1>3, <2>2 DEF Placed, S
<1>7. /\ \A n \in S : place[n] \in S
      /\ \A m, n \in S : place[m] = place[n] => m = n
      /\ \A s \in S : \E n \in S : place[n] = s
  <2> HIDE DEF place, below
  <2>1. /\ \A n \in 1..Cardinality(S) : place[n] \in S
        /\ \A m, n \in 1..Cardinality(S) : place[m] = place[n] => m = n
        /\ \A s \in S : \E n \in 1..Cardinality(S) : place[n] = s
    <3> HIDE DEF S
    <3>1. QED
      BY <1>3, <1>5, <1>6, Ranked
  <2>2. QED
    BY <1>3, <2>1
<1>8. \A n \in S : Sorted[n] = input.sessions[place[n]]
  BY <1>1 DEF Sorted
<1>9. place \in [S -> S]
  <2>1. ASSUME NEW n \in S PROVE Nth(n) \in S
    <3>1. place[n] = Nth(n)
      OBVIOUS
    <3> HIDE DEF place, Nth
    <3>2. QED
      BY <1>7, <3>1
  <2> HIDE DEF Nth
  <2>2. QED
    BY <2>1
<1> HIDE DEF place
<1>10. Sorting(place)
  BY <1>7, <1>8, <1>9 DEF Sorting, N
<1>11. QED
  BY <1>10

\* What the proofs use of it.
LEMMA SortedTypes ==
  ASSUME input \in Inputs
  PROVE  /\ DOMAIN Sorted = 1..Len(input.sessions)
         /\ \A n \in 1..Len(input.sessions) : Sorted[n] \in Sessions
         /\ \A n \in 1..Len(input.sessions) : \E s \in DOMAIN input.sessions : Sorted[n] = input.sessions[s]
         /\ \A s \in DOMAIN input.sessions : \E n \in 1..Len(input.sessions) : Sorted[n] = input.sessions[s]
<1>1. PICK place : Sorting(place)
  BY SortingExists
<1>2. DOMAIN Sorted = DOMAIN input.sessions
  BY DEF Sorted
<1>3. /\ Len(input.sessions) \in Nat /\ DOMAIN input.sessions = 1..Len(input.sessions)
      /\ \A s \in 1..Len(input.sessions) : input.sessions[s] \in Sessions
  BY InputTypes
<1>4. /\ \A n \in 1..Len(input.sessions) :
           place[n] \in 1..Len(input.sessions) /\ Sorted[n] = input.sessions[place[n]]
      /\ \A s \in 1..Len(input.sessions) : \E n \in 1..Len(input.sessions) : place[n] = s
  BY <1>1 DEF Sorting
<1> DEFINE S == 1..Len(input.sessions)
<1>5. DOMAIN Sorted = S /\ DOMAIN input.sessions = S
  BY <1>2, <1>3
<1>6. ASSUME NEW s \in S PROVE \E n \in S : Sorted[n] = input.sessions[s]
  <2>1. PICK n \in S : place[n] = s
    BY <1>4
  <2>2. Sorted[n] = input.sessions[s]
    BY <1>4, <2>1
  <2>3. QED
    BY <2>2
<1>7. ASSUME NEW n \in S
      PROVE  Sorted[n] \in Sessions /\ \E s \in S : Sorted[n] = input.sessions[s]
  BY <1>3, <1>4
<1> HIDE DEF S
<1>8. /\ DOMAIN Sorted = S
      /\ \A n \in S : Sorted[n] \in Sessions
      /\ \A n \in S : \E s \in DOMAIN input.sessions : Sorted[n] = input.sessions[s]
      /\ \A s \in DOMAIN input.sessions : \E n \in S : Sorted[n] = input.sessions[s]
  BY <1>5, <1>6, <1>7
<1>9. QED
  BY <1>8 DEF S

(***************************************************************************)
(* Strict mode.                                                             *)
(***************************************************************************)

\* Where the coverage is in the manifest, and where strict mode has looked at it.
Covered == {"combined", "manifest", "checksums", "strict", "zip", "validate", "published"}
Passed == {"zip", "validate", "published"}

\* The manifest says what the input lost from the step that says it on, and nothing
\* that lost anything gets past the strict check.
Strictness ==
  /\ input \in Inputs /\ "incomplete" \in DOMAIN manifest
  /\ pc \in Covered => manifest.incomplete = Incomplete
  /\ pc \in Passed => ~(input.strict /\ manifest.incomplete)

\* The steps that leave the manifest as it is, by where they lead.
LEMMA ManifestStays ==
  [Next]_vars =>
    \/ StageReports \/ OmitCombined \/ StageManifest
    \/ /\ UNCHANGED <<input, manifest>>
       /\ \/ pc' = pc \/ pc' \in {"failed", "incomplete", "sessions"}
          \/ pc = "combined" /\ pc' = "manifest"
          \/ pc = "checksums" /\ pc' = "strict"
          \/ pc = "strict" /\ pc' = "zip" /\ ~(input.strict /\ manifest.incomplete)
          \/ pc = "zip" /\ pc' = "validate"
          \/ pc = "validate" /\ pc' = "published"
<1> SUFFICES ASSUME [Next]_vars, ~StageReports, ~OmitCombined, ~StageManifest
             PROVE  /\ UNCHANGED <<input, manifest>>
                    /\ \/ pc' = pc \/ pc' \in {"failed", "incomplete", "sessions"}
                       \/ pc = "combined" /\ pc' = "manifest"
                       \/ pc = "checksums" /\ pc' = "strict"
                       \/ pc = "strict" /\ pc' = "zip" /\ ~(input.strict /\ manifest.incomplete)
                       \/ pc = "zip" /\ pc' = "validate"
                       \/ pc = "validate" /\ pc' = "published"
  OBVIOUS
<1>1. CASE StageSchemas \/ StageSession \/ StageSessionRefused
  BY <1>1 DEF StageSchemas, StageSession, StageSessionRefused, Goto
<1>2. CASE StageCombined \/ SkipCombined \/ StageChecksums
  BY <1>2 DEF StageCombined, SkipCombined, StageChecksums, Goto
<1>3. CASE CheckStrict \/ WriteZIP \/ Validate
  BY <1>3 DEF CheckStrict, WriteZIP, Validate, Goto
<1>4. CASE Fails \/ Cancel \/ StopsCancelled
  BY <1>4 DEF Fails, Cancel, StopsCancelled, Goto
<1>5. ASSUME NEW name \in DOMAIN staged, Damage(name)
      PROVE  UNCHANGED <<input, manifest>> /\ pc' = pc
  BY <1>5 DEF Damage
<1>6. CASE UNCHANGED vars
  BY <1>6 DEF vars
<1>7. QED
  BY <1>1, <1>2, <1>3, <1>4, <1>5, <1>6 DEF Next, Stage

LEMMA NextStrictness == Strictness /\ [Next]_vars => Strictness'
<1> SUFFICES ASSUME Strictness, [Next]_vars PROVE Strictness'
  OBVIOUS
<1>0. input' = input => Incomplete' = Incomplete
  BY DEF Incomplete, AdapterIncomplete, SessionIncomplete
<1>1. CASE StageReports
  <2>1. input' = input /\ pc' = "combined"
    BY <1>1 DEF StageReports, Goto
  <2>2. manifest'.incomplete = Incomplete /\ "incomplete" \in DOMAIN manifest'
    BY <1>1 DEF StageReports
  <2>3. QED
    BY <1>0, <2>1, <2>2 DEF Strictness, Passed
<1>2. CASE OmitCombined
  <2>1. /\ input' = input /\ pc = "combined" /\ pc' = "manifest"
        /\ manifest' = manifest ++ [combined |-> FALSE,
                                    exclusions |-> {"combined_markdown_size_limit"}]
    BY <1>2 DEF OmitCombined, Goto
  <2>2. manifest'.incomplete = manifest.incomplete /\ "incomplete" \in DOMAIN manifest'
    BY <2>1 DEF ++, Strictness
  <2>3. QED
    BY <1>0, <2>1, <2>2 DEF Strictness, Covered, Passed
<1>3. CASE StageManifest
  <2>1. /\ input' = input /\ pc = "manifest" /\ pc' = "checksums"
        /\ \E f : manifest' = [manifest EXCEPT !.files = f]
    BY <1>3 DEF StageManifest, Goto
  <2>2. manifest'.incomplete = manifest.incomplete /\ "incomplete" \in DOMAIN manifest'
    BY <2>1 DEF Strictness
  <2>3. QED
    BY <1>0, <2>1, <2>2 DEF Strictness, Covered, Passed
<1>4. CASE /\ UNCHANGED <<input, manifest>>
           /\ \/ pc' = pc \/ pc' \in {"failed", "incomplete", "sessions"}
              \/ pc = "combined" /\ pc' = "manifest"
              \/ pc = "checksums" /\ pc' = "strict"
              \/ pc = "strict" /\ pc' = "zip" /\ ~(input.strict /\ manifest.incomplete)
              \/ pc = "zip" /\ pc' = "validate"
              \/ pc = "validate" /\ pc' = "published"
  BY <1>0, <1>4 DEF Strictness, Covered, Passed
<1>5. QED
  BY <1>1, <1>2, <1>3, <1>4, ManifestStays

\* Complete coverage is coverage in which each count is zero.
LEMMA WholeSessions ==
  ASSUME NEW session \in Sessions, ~SessionIncomplete(session)
  PROVE  session.integrity = [complete |-> TRUE, concurrentlyModified |-> FALSE,
                              warnings |-> 0, malformed |-> 0, truncated |-> 0]
<1>1. session.integrity \in Integrities
  BY SessionTypes
<1> DEFINE integrity == session.integrity
<1>2. integrity = [complete |-> integrity.complete,
                   concurrentlyModified |-> integrity.concurrentlyModified,
                   warnings |-> integrity.warnings, malformed |-> integrity.malformed,
                   truncated |-> integrity.truncated]
  BY <1>1 DEF Integrities
<1>3. /\ integrity.complete = TRUE /\ integrity.concurrentlyModified = FALSE
      /\ integrity.warnings = 0 /\ integrity.malformed = 0 /\ integrity.truncated = 0
  BY <1>1 DEF SessionIncomplete, Integrities
<1>4. QED
  BY <1>2, <1>3

\* Under --strict an archive is published only if no session lost anything, no
\* adapter was degraded or warned, and no error was recorded.
THEOREM StrictArchivesAreWhole == Spec => []StrictIsWhole
<1>1. Init => Strictness
  BY DEF Init, NoManifest, Strictness, Covered, Passed
<1>2. Init /\ [][Next]_vars => []Strictness
  BY <1>1, NextStrictness, PTL
<1>3. Strictness => StrictIsWhole
  <2>1. SUFFICES ASSUME Strictness, pc = "published", input.strict
                 PROVE  /\ input.errors = <<>>
                        /\ \A a \in DOMAIN input.adapters :
                             ~input.adapters[a].degraded /\ input.adapters[a].warnings = 0
                        /\ \A s \in DOMAIN input.sessions :
                             input.sessions[s].integrity =
                               [complete |-> TRUE, concurrentlyModified |-> FALSE,
                                warnings |-> 0, malformed |-> 0, truncated |-> 0]
    BY DEF StrictIsWhole
  <2>2. ~Incomplete
    BY <2>1 DEF Strictness, Covered, Passed
  <2>3. input \in Inputs
    BY <2>1 DEF Strictness
  <2>4. ASSUME NEW a \in DOMAIN input.adapters
        PROVE  ~input.adapters[a].degraded /\ input.adapters[a].warnings = 0
    <3>1. input.adapters \in Seq(Adapters)
      BY <2>3, ArchiveAssumption
    <3>2. input.adapters[a].warnings \in Nat
      <4>1. input.adapters[a] \in Adapters
        BY <3>1
      <4>2. QED
        BY <4>1 DEF Adapters
    <3>3. ~AdapterIncomplete(input.adapters[a])
      BY <2>2 DEF Incomplete
    <3>4. QED
      BY <3>2, <3>3 DEF AdapterIncomplete
  <2>5. ASSUME NEW s \in DOMAIN input.sessions
        PROVE  input.sessions[s].integrity =
                 [complete |-> TRUE, concurrentlyModified |-> FALSE,
                  warnings |-> 0, malformed |-> 0, truncated |-> 0]
    <3>1. input.sessions[s] \in Sessions
      BY <2>3, InputTypes
    <3>2. ~SessionIncomplete(input.sessions[s])
      BY <2>2 DEF Incomplete
    <3>3. QED
      BY <3>1, <3>2, WholeSessions
  <2>6. input.errors = <<>>
    BY <2>2 DEF Incomplete
  <2>7. QED
    BY <2>4, <2>5, <2>6
<1>4. QED
  BY <1>2, <1>3, PTL DEF Spec

(***************************************************************************)
(* sessions.jsonl: the blocks of the sessions, in their order.              *)
(***************************************************************************)

Lines == {usageSession(session) : session \in Sessions} \cup {usageEvent(event) : event \in Events}

\* start[n] is where the block of the nth session starts in the text, if it has
\* the first k of the sorted sessions: a session's line, then its events'.
Blocks(text, sorted, k, start) ==
  /\ start \in [1..(k + 1) -> Nat]
  /\ start[1] = 1 /\ start[k + 1] = Len(text) + 1
  /\ \A n \in 1..k :
       /\ start[n + 1] = start[n] + Len(sorted[n].events) + 1
       /\ text[start[n]] = usageSession(sorted[n])
       /\ \A e \in 1..Len(sorted[n].events) :
            text[start[n] + e] = usageEvent(sorted[n].events[e])
  /\ \A m, n \in 1..(k + 1) : m < n => start[m] < start[n]
  /\ SessionLines(text) = {start[n] : n \in 1..k}

LEMMA LineKinds ==
  /\ \A session \in Sessions : usageSession(session) \in Lines /\ IsSession(usageSession(session))
  /\ \A event \in Events : usageEvent(event) \in Lines /\ ~IsSession(usageEvent(event))
BY DEF Lines, usageSession, usageEvent, IsSession

LEMMA Joined ==
  ASSUME NEW S, NEW s \in Seq(S), NEW t \in Seq(S)
  PROVE  /\ s \o t \in Seq(S) /\ Len(s \o t) = Len(s) + Len(t)
         /\ \A i \in 1..Len(s) : (s \o t)[i] = s[i]
         /\ \A i \in 1..Len(t) : (s \o t)[Len(s) + i] = t[i]
<1> DEFINE m == Len(s)
           n == Len(t)
<1>1. m \in Nat /\ n \in Nat
  OBVIOUS
<1>2. /\ s \o t \in Seq(S) /\ Len(s \o t) = m + n
      /\ \A i \in 1..(m + n) : (s \o t)[i] = IF i <= m THEN s[i] ELSE t[i - m]
  BY ConcatProperties
<1> HIDE DEF m, n
<1>3. \A i \in 1..m : (s \o t)[i] = s[i]
  <2>1. \A i \in 1..m : i \in 1..(m + n) /\ i <= m
    BY <1>1
  <2>2. QED
    BY <1>2, <2>1
<1>4. ASSUME NEW i \in 1..n PROVE (s \o t)[m + i] = t[i]
  <2>1. m + i \in 1..(m + n) /\ ~(m + i <= m) /\ (m + i) - m = i
    BY <1>1
  <2>2. QED
    BY <1>2, <2>1
<1>5. QED
  BY <1>2, <1>3, <1>4 DEF m, n

\* The text of one more session.
EventsText(session) == [e \in DOMAIN session.events |-> usageEvent(session.events[e])]
WithSession(text, session) == text \o <<usageSession(session)>> \o EventsText(session)

LEMMA EventsTextIs ==
  ASSUME NEW session \in Sessions
  PROVE  /\ EventsText(session) \in Seq(Lines) /\ Len(EventsText(session)) = Len(session.events)
         /\ \A e \in 1..Len(session.events) :
              /\ EventsText(session)[e] = usageEvent(session.events[e])
              /\ ~IsSession(EventsText(session)[e])
<1> DEFINE N == Len(session.events)
<1>1. N \in Nat /\ DOMAIN session.events = 1..N /\ session.events \in Seq(Events)
  BY SessionTypes
<1>2. \A e \in 1..N : session.events[e] \in Events
  BY <1>1
<1> HIDE DEF N
<1>3. EventsText(session) = [e \in 1..N |-> usageEvent(session.events[e])]
  BY <1>1 DEF EventsText
<1>4. \A e \in 1..N : usageEvent(session.events[e]) \in Lines /\ ~IsSession(usageEvent(session.events[e]))
  BY <1>2, LineKinds
<1>5. EventsText(session) \in [1..N -> Lines]
  BY <1>3, <1>4
<1>6. EventsText(session) \in Seq(Lines) /\ Len(EventsText(session)) = N
  BY <1>1, <1>3, <1>5
<1>7. QED
  BY <1>3, <1>4, <1>6 DEF N

LEMMA WithSessionIs ==
  ASSUME NEW text \in Seq(Lines), NEW session \in Sessions
  PROVE  LET more == WithSession(text, session)
         IN  /\ more \in Seq(Lines)
             /\ Len(more) = Len(text) + 1 + Len(session.events)
             /\ \A i \in 1..Len(text) : more[i] = text[i]
             /\ more[Len(text) + 1] = usageSession(session)
             /\ \A e \in 1..Len(session.events) :
                  more[Len(text) + 1 + e] = usageEvent(session.events[e])
             /\ SessionLines(more) = SessionLines(text) \cup {Len(text) + 1}
<1> DEFINE more == WithSession(text, session)
           L == Len(text)
           N == Len(session.events)
           one == <<usageSession(session)>>
           rest == EventsText(session)
<1>1. L \in Nat /\ N \in Nat
  BY SessionTypes
<1>2. rest \in Seq(Lines) /\ Len(rest) = N
      /\ \A e \in 1..N : rest[e] = usageEvent(session.events[e]) /\ ~IsSession(rest[e])
  BY EventsTextIs
<1>3. one \in Seq(Lines) /\ Len(one) = 1 /\ one[1] = usageSession(session) /\ IsSession(one[1])
  BY LineKinds
<1> DEFINE first == text \o one
<1>4. more = first \o rest
  BY DEF WithSession
<1> HIDE DEF one, rest, N
<1>5. /\ first \in Seq(Lines) /\ Len(first) = L + 1
      /\ \A i \in 1..L : first[i] = text[i]
      /\ first[L + 1] = one[1]
  <2>1. /\ first \in Seq(Lines) /\ Len(first) = L + Len(one)
        /\ \A i \in 1..L : first[i] = text[i]
        /\ \A i \in 1..Len(one) : first[L + i] = one[i]
    <3>1. one \in Seq(Lines)
      BY <1>3
    <3>2. QED
      BY ONLY <3>1, text \in Seq(Lines), Joined
  <2> HIDE DEF first, L
  <2>2. 1 \in 1..Len(one)
    BY <1>3
  <2>3. QED
    BY <1>3, <2>1, <2>2
<1> HIDE DEF first
<1>6. /\ more \in Seq(Lines) /\ Len(more) = L + 1 + N
      /\ \A i \in 1..(L + 1) : more[i] = first[i]
  <2>1. /\ first \o rest \in Seq(Lines) /\ Len(first \o rest) = Len(first) + Len(rest)
        /\ \A i \in 1..Len(first) : (first \o rest)[i] = first[i]
    <3>1. first \in Seq(Lines) /\ rest \in Seq(Lines)
      BY <1>2, <1>5
    <3>2. QED
      BY ONLY <3>1, Joined
  <2> HIDE DEF L, more
  <2>2. QED
    BY <1>2, <1>4, <1>5, <2>1
<1>7. \A e \in 1..N : more[L + 1 + e] = rest[e]
  <2>1. \A e \in 1..Len(rest) : (first \o rest)[Len(first) + e] = rest[e]
    BY <1>2, <1>5, Joined
  <2> HIDE DEF L, more
  <2>2. QED
    BY <1>2, <1>4, <1>5, <2>1
<1> HIDE DEF L, more
<1>8. \A i \in 1..L : more[i] = text[i]
  <2>1. \A i \in 1..L : i \in 1..(L + 1)
    BY <1>1
  <2>2. QED
    BY <1>5, <1>6, <2>1
<1>9. more[L + 1] = usageSession(session) /\ IsSession(more[L + 1])
  <2>1. L + 1 \in 1..(L + 1)
    BY <1>1
  <2>2. QED
    BY <1>3, <1>5, <1>6, <2>1
<1>10. SessionLines(more) = SessionLines(text) \cup {L + 1}
  <2>1. DOMAIN more = 1..(L + 1 + N) /\ DOMAIN text = 1..L
    BY <1>6 DEF L
  <2>2. ASSUME NEW i \in 1..(L + 1 + N), i > L + 1 PROVE ~IsSession(more[i])
    <3>1. i - (L + 1) \in 1..N /\ i = L + 1 + (i - (L + 1))
      BY <1>1, <2>2
    <3>2. QED
      BY <1>2, <1>7, <3>1
  <2>3. ASSUME NEW i PROVE i \in SessionLines(more) <=> i \in SessionLines(text) \cup {L + 1}
    <3>1. CASE i \in 1..L
      BY <1>1, <1>8, <2>1, <3>1 DEF SessionLines
    <3>2. CASE i = L + 1
      BY <1>1, <1>9, <2>1, <3>2 DEF SessionLines
    <3>3. CASE i \in 1..(L + 1 + N) /\ i > L + 1
      BY <1>1, <2>1, <2>2, <3>3 DEF SessionLines
    <3>4. CASE i \notin 1..(L + 1 + N)
      BY <1>1, <2>1, <3>4 DEF SessionLines
    <3>5. QED
      BY <1>1, <3>1, <3>2, <3>3, <3>4
  <2>4. QED
    BY <2>3
<1>11. QED
  BY <1>2, <1>6, <1>7, <1>8, <1>9, <1>10 DEF N, L, more

\* A block lies within the text.
LEMMA BlocksWithin ==
  ASSUME NEW text \in Seq(Lines), NEW sorted, NEW k \in Nat, NEW start,
         Blocks(text, sorted, k, start), NEW n \in 1..k, sorted[n] \in Sessions
  PROVE  /\ start[n] \in 1..Len(text) /\ start[n + 1] \in Nat
         /\ \A e \in 1..Len(sorted[n].events) : start[n] + e \in 1..Len(text)
<1>1. Len(sorted[n].events) \in Nat /\ Len(text) \in Nat
  BY SessionTypes
<1>2. n \in 1..(k + 1) /\ n + 1 \in 1..(k + 1) /\ 1 \in 1..(k + 1) /\ k + 1 \in 1..(k + 1)
  OBVIOUS
<1>3. start[n] \in Nat /\ start[n + 1] \in Nat /\ start[1] = 1 /\ start[k + 1] = Len(text) + 1
  BY <1>2 DEF Blocks
<1>4. 1 <= start[n]
  <2>1. n = 1 \/ 1 < n
    OBVIOUS
  <2>2. QED
    BY <1>2, <1>3, <2>1 DEF Blocks
<1>5. start[n + 1] <= Len(text) + 1
  <2>1. n + 1 = k + 1 \/ n + 1 < k + 1
    OBVIOUS
  <2>2. n + 1 < k + 1 => start[n + 1] < start[k + 1]
    BY <1>2 DEF Blocks
  <2>3. QED
    BY <1>1, <1>3, <2>1, <2>2
<1>6. start[n + 1] = start[n] + Len(sorted[n].events) + 1
  BY DEF Blocks
<1>7. start[n] \in 1..Len(text)
  BY <1>1, <1>3, <1>4, <1>5, <1>6, SMTT(30)
<1>8. ASSUME NEW e \in 1..Len(sorted[n].events) PROVE start[n] + e \in 1..Len(text)
  <2> DEFINE N == Len(sorted[n].events)
             L == Len(text)
  <2>1. N \in Nat /\ L \in Nat /\ e \in 1..N /\ start[n + 1] = start[n] + N + 1
        /\ start[n + 1] <= L + 1
    BY <1>1, <1>5, <1>6
  <2>2. start[n] \in Nat /\ 1 <= start[n]
    BY <1>3, <1>4
  <2> DEFINE b == start[n]
             d == start[n + 1]
  <2> HIDE DEF N, L, b, d
  <2>3. b \in Nat /\ 1 <= b /\ d = b + N + 1 /\ d <= L + 1
    BY <2>1, <2>2 DEF b, d
  <2>4. b + e \in 1..L
    BY <2>1, <2>3
  <2>5. QED
    BY <2>4 DEF L, b
<1>9. QED
  BY <1>3, <1>7, <1>8

LEMMA BlocksGrow ==
  ASSUME NEW text \in Seq(Lines), NEW sorted, NEW k \in Nat, NEW start,
         Blocks(text, sorted, k, start), \A n \in 1..(k + 1) : sorted[n] \in Sessions
  PROVE  \E more : Blocks(WithSession(text, sorted[k + 1]), sorted, k + 1, more)
<1> DEFINE new == WithSession(text, sorted[k + 1])
           last == start[k + 1] + Len(sorted[k + 1].events) + 1
           more == [n \in 1..(k + 2) |-> IF n = k + 2 THEN last ELSE start[n]]
<1>1. Len(sorted[k + 1].events) \in Nat /\ Len(text) \in Nat
  BY SessionTypes
<1>2. /\ start \in [1..(k + 1) -> Nat]
      /\ start[1] = 1 /\ start[k + 1] = Len(text) + 1
      /\ \A m, n \in 1..(k + 1) : m < n => start[m] < start[n]
      /\ SessionLines(text) = {start[n] : n \in 1..k}
  BY DEF Blocks
<1>3. /\ Len(new) = Len(text) + 1 + Len(sorted[k + 1].events)
      /\ \A i \in 1..Len(text) : new[i] = text[i]
      /\ new[Len(text) + 1] = usageSession(sorted[k + 1])
      /\ \A e \in 1..Len(sorted[k + 1].events) :
           new[Len(text) + 1 + e] = usageEvent(sorted[k + 1].events[e])
      /\ SessionLines(new) = SessionLines(text) \cup {Len(text) + 1}
  <2>1. sorted[k + 1] \in Sessions
    OBVIOUS
  <2>2. QED
    BY <2>1, WithSessionIs
<1> HIDE DEF new
<1>4. /\ last \in Nat /\ last = Len(new) + 1 /\ last > start[k + 1]
      /\ last = Len(text) + 1 + Len(sorted[k + 1].events) + 1
  <2> DEFINE N == Len(sorted[k + 1].events)
             L == Len(text)
             m == Len(new)
  <2>1. /\ N \in Nat /\ L \in Nat /\ m = L + 1 + N /\ start[k + 1] = L + 1
        /\ last = start[k + 1] + N + 1
    BY <1>1, <1>2, <1>3
  <2> HIDE DEF N, L, m, last
  <2>2. last \in Nat /\ last = m + 1 /\ last > start[k + 1] /\ last = L + 1 + N + 1
    BY <2>1
  <2>3. QED
    BY <2>2 DEF N, L, m
<1> HIDE DEF last
<1>5. /\ more \in [1..(k + 2) -> Nat] /\ more[k + 2] = last
      /\ \A n \in 1..(k + 1) : more[n] = start[n]
  BY <1>2, <1>4
<1> HIDE DEF more
<1>6. more[1] = 1 /\ more[k + 1] = Len(text) + 1
  BY <1>2, <1>5
<1>7. \A m, n \in 1..(k + 2) : m < n => more[m] < more[n]
  <2> SUFFICES ASSUME NEW m \in 1..(k + 2), NEW n \in 1..(k + 2), m < n PROVE more[m] < more[n]
    OBVIOUS
  <2>1. m \in 1..(k + 1)
    OBVIOUS
  <2>2. CASE n \in 1..(k + 1)
    BY <1>2, <1>5, <2>1, <2>2
  <2>3. CASE n = k + 2
    <3>1. more[m] = start[m] /\ more[n] = last /\ start[m] \in Nat /\ start[k + 1] \in Nat
      BY <1>2, <1>5, <2>1, <2>3
    <3>2. start[m] <= start[k + 1]
      <4>1. m = k + 1 \/ m < k + 1
        BY <2>1
      <4>2. k + 1 \in 1..(k + 1)
        OBVIOUS
      <4>3. QED
        BY <1>2, <2>1, <3>1, <4>1, <4>2
    <3>3. last \in Nat /\ start[k + 1] < last
      BY <1>4, <3>1
    <3>4. QED
      BY <3>1, <3>2, <3>3
  <2>4. QED
    BY <2>2, <2>3
<1>8. ASSUME NEW n \in 1..(k + 1)
      PROVE  /\ more[n + 1] = more[n] + Len(sorted[n].events) + 1
             /\ new[more[n]] = usageSession(sorted[n])
             /\ \A e \in 1..Len(sorted[n].events) :
                  new[more[n] + e] = usageEvent(sorted[n].events[e])
  <2>1. CASE n = k + 1
    <3>1. more[n] = Len(text) + 1 /\ more[n + 1] = last
      BY <1>5, <1>6, <2>1
    <3>2. QED
      BY <1>1, <1>3, <1>4, <2>1, <3>1
  <2>2. CASE n \in 1..k
    <3>1. n + 1 \in 1..(k + 1) /\ n \in 1..(k + 1)
      BY <2>2
    <3>2. more[n] = start[n] /\ more[n + 1] = start[n + 1] /\ start[n] \in Nat
      BY <1>2, <1>5, <3>1
    <3>3. /\ start[n + 1] = start[n] + Len(sorted[n].events) + 1
          /\ text[start[n]] = usageSession(sorted[n])
          /\ \A e \in 1..Len(sorted[n].events) :
               text[start[n] + e] = usageEvent(sorted[n].events[e])
      BY <2>2 DEF Blocks
    <3>4. start[n] \in 1..Len(text)
      BY <2>2, BlocksWithin
    <3>5. \A e \in 1..Len(sorted[n].events) : start[n] + e \in 1..Len(text)
      BY <2>2, BlocksWithin
    <3>6. QED
      BY <1>3, <3>2, <3>3, <3>4, <3>5
  <2>3. QED
    BY <2>1, <2>2
<1>9. SessionLines(new) = {more[n] : n \in 1..(k + 1)}
  <2>1. {more[n] : n \in 1..(k + 1)} = {start[n] : n \in 1..k} \cup {start[k + 1]}
    <3>1. {more[n] : n \in 1..(k + 1)} = {start[n] : n \in 1..(k + 1)}
      BY <1>5
    <3>2. 1..(k + 1) = 1..k \cup {k + 1}
      OBVIOUS
    <3>3. QED
      BY <3>1, <3>2
  <2>2. QED
    BY <1>2, <1>3, <2>1
<1>10. Blocks(new, sorted, k + 1, more)
  <2>1. k + 1 + 1 = k + 2
    OBVIOUS
  <2>2. QED
    BY <1>4, <1>5, <1>6, <1>7, <1>8, <1>9, <2>1 DEF Blocks
<1>11. QED
  BY <1>10 DEF new

Recorded == Cardinality(SessionLines(lines))

\* What is in sessions.jsonl: the first of the sorted sessions, in the end all.
Layout ==
  /\ input \in Inputs
  /\ lines \in Seq(Lines)
  /\ Recorded \in 0..Len(input.sessions)
  /\ pc \in Covered => Recorded = Len(input.sessions)
  /\ \E start : Blocks(lines, Sorted, Recorded, start)
  /\ \A n \in 1..Recorded : ~Strays(Sorted[n])

LEMMA InitLayout == Init => Layout
<1> SUFFICES ASSUME Init PROVE Layout
  OBVIOUS
<1>1. input \in Inputs /\ lines = <<>> /\ pc = "schemas"
  BY DEF Init
<1>2. SessionLines(lines) = {} /\ lines \in Seq(Lines) /\ Len(lines) = 0
  BY <1>1 DEF SessionLines
<1>3. Recorded = 0
  BY <1>2, FS_EmptySet DEF Recorded
<1>4. Blocks(lines, Sorted, 0, [n \in 1..1 |-> 1])
  BY <1>2 DEF Blocks
<1>5. Len(input.sessions) \in Nat
  BY <1>1, InputTypes
<1>6. QED
  BY <1>1, <1>2, <1>3, <1>4, <1>5 DEF Layout, Covered

\* The steps that write nothing into sessions.jsonl.
LEMMA LinesStay ==
  [Next]_vars =>
    \/ StageSession
    \/ /\ UNCHANGED <<input, lines>>
       /\ pc' \in Covered => pc \in Covered \/ (pc = "sessions" /\ ~MoreSessions)
<1> SUFFICES ASSUME [Next]_vars, ~StageSession
             PROVE  /\ UNCHANGED <<input, lines>>
                    /\ pc' \in Covered => pc \in Covered \/ (pc = "sessions" /\ ~MoreSessions)
  OBVIOUS
<1>1. CASE StageSchemas \/ StageSessionRefused \/ StageReports
  BY <1>1 DEF StageSchemas, StageSessionRefused, StageReports, Goto, Covered
<1>2. CASE StageCombined \/ OmitCombined \/ SkipCombined \/ StageManifest \/ StageChecksums
  BY <1>2 DEF StageCombined, OmitCombined, SkipCombined, StageManifest, StageChecksums, Goto, Covered
<1>3. CASE CheckStrict \/ WriteZIP \/ Validate
  BY <1>3 DEF CheckStrict, WriteZIP, Validate, Goto, Covered
<1>4. CASE Fails \/ Cancel \/ StopsCancelled
  BY <1>4 DEF Fails, Cancel, StopsCancelled, Goto, Covered
<1>5. ASSUME NEW name \in DOMAIN staged, Damage(name)
      PROVE  UNCHANGED <<input, lines, pc>>
  BY <1>5 DEF Damage
<1>6. CASE UNCHANGED vars
  BY <1>6 DEF vars
<1>7. QED
  BY <1>1, <1>2, <1>3, <1>4, <1>5, <1>6 DEF Next, Stage

LEMMA SortedStays == input' = input => Sorted' = Sorted
BY DEF Sorted, Precedes, SessionLess

\* The session that is next, while there is one.
LEMMA NextIsSession ==
  ASSUME Layout, MoreSessions
  PROVE  /\ Recorded + 1 \in 1..Len(input.sessions)
         /\ NextSession = Sorted[Recorded + 1] /\ NextSession \in Sessions
<1>1. Len(input.sessions) \in Nat /\ Recorded \in Nat
  BY InputTypes DEF Layout
<1>2. Recorded < Len(input.sessions) /\ NextSession = Sorted[Recorded + 1]
  BY DEF MoreSessions, NextSession, Recorded
<1>3. Recorded + 1 \in 1..Len(input.sessions)
  BY <1>1, <1>2
<1>4. QED
  BY <1>2, <1>3, SortedTypes DEF Layout

LEMMA SessionRecorded ==
  ASSUME Layout, StageSession
  PROVE  /\ lines' = WithSession(lines, NextSession) /\ lines' \in Seq(Lines)
         /\ Recorded' = Recorded + 1
         /\ \E start : Blocks(lines', Sorted, Recorded + 1, start)
<1>1. MoreSessions /\ lines' = WithSession(lines, NextSession)
  BY DEF StageSession, WithSession, EventsText
<1>2. /\ Recorded + 1 \in 1..Len(input.sessions)
      /\ NextSession = Sorted[Recorded + 1] /\ NextSession \in Sessions
  BY <1>1, NextIsSession
<1>3. lines \in Seq(Lines) /\ Len(lines) \in Nat /\ DOMAIN lines = 1..Len(lines)
  BY DEF Layout
<1>4. lines' \in Seq(Lines) /\ SessionLines(lines') = SessionLines(lines) \cup {Len(lines) + 1}
  BY <1>1, <1>2, <1>3, WithSessionIs
<1>5. Recorded' = Recorded + 1
  <2>1. SessionLines(lines) \in SUBSET (1..Len(lines)) /\ Len(lines) + 1 \notin SessionLines(lines)
    BY <1>3 DEF SessionLines
  <2>2. IsFiniteSet(SessionLines(lines))
    BY <1>3, <2>1, NumbersTo, FS_Subset
  <2>3. Cardinality(SessionLines(lines) \cup {Len(lines) + 1}) =
          IF Len(lines) + 1 \in SessionLines(lines) THEN Cardinality(SessionLines(lines))
          ELSE Cardinality(SessionLines(lines)) + 1
    BY <2>2, FS_AddElement
  <2>4. QED
    BY <1>4, <2>1, <2>3 DEF Recorded
<1>6. \E start : Blocks(lines', Sorted, Recorded + 1, start)
  <2>1. PICK start : Blocks(lines, Sorted, Recorded, start)
    BY DEF Layout
  <2>2. Recorded \in Nat /\ \A n \in 1..(Recorded + 1) : Sorted[n] \in Sessions
    <3>1. Recorded \in Nat /\ Len(input.sessions) \in Nat
      BY InputTypes DEF Layout
    <3>2. \A n \in 1..(Recorded + 1) : n \in 1..Len(input.sessions)
      BY <1>2, <3>1
    <3>3. QED
      BY <3>1, <3>2, SortedTypes DEF Layout
  <2>3. \E more : Blocks(WithSession(lines, Sorted[Recorded + 1]), Sorted, Recorded + 1, more)
    BY <1>3, <2>1, <2>2, BlocksGrow
  <2>4. QED
    BY <1>1, <1>2, <2>3
<1>7. QED
  BY <1>1, <1>4, <1>5, <1>6

LEMMA NextLayout == Layout /\ [Next]_vars => Layout'
<1> SUFFICES ASSUME Layout, [Next]_vars PROVE Layout'
  OBVIOUS
<1>1. CASE StageSession
  <2>1. /\ lines' \in Seq(Lines) /\ Recorded' = Recorded + 1
        /\ \E start : Blocks(lines', Sorted, Recorded + 1, start)
    BY <1>1, SessionRecorded
  <2>2. input' = input /\ pc' = "sessions" /\ MoreSessions /\ ~Strays(NextSession)
    BY <1>1 DEF StageSession, Goto
  <2>3. Sorted' = Sorted
    BY <2>2, SortedStays
  <2>4. /\ Recorded + 1 \in 1..Len(input.sessions) /\ NextSession = Sorted[Recorded + 1]
        /\ Len(input.sessions) \in Nat /\ Recorded \in Nat
    BY <2>2, NextIsSession, InputTypes DEF Layout
  <2>5. \A n \in 1..Recorded' : ~Strays(Sorted[n])
    <3>1. \A n \in 1..(Recorded + 1) : n \in 1..Recorded \/ n = Recorded + 1
      BY <2>4
    <3>2. QED
      BY <2>1, <2>2, <2>4, <3>1 DEF Layout
  <2>6. (\A n \in 1..Recorded : ~Strays(Sorted[n]))'
    BY <2>3, <2>5 DEF Strays
  <2>7. (\E start : Blocks(lines, Sorted, Recorded, start))'
    BY <2>1, <2>3
  <2>8. Recorded' \in 0..Len(input'.sessions)
    BY <2>1, <2>2, <2>4
  <2>9. QED
    BY <2>1, <2>2, <2>6, <2>7, <2>8 DEF Layout, Covered
<1>2. CASE /\ UNCHANGED <<input, lines>>
           /\ pc' \in Covered => pc \in Covered \/ (pc = "sessions" /\ ~MoreSessions)
  <2>1. Sorted' = Sorted /\ Recorded' = Recorded
    BY <1>2, SortedStays DEF Recorded
  <2>2. ~MoreSessions => Recorded = Len(input.sessions)
    <3>1. Recorded \in 0..Len(input.sessions) /\ Len(input.sessions) \in Nat
      BY InputTypes DEF Layout
    <3>2. ~MoreSessions => ~(Recorded < Len(input.sessions))
      BY DEF MoreSessions, Recorded
    <3>3. QED
      BY <3>1, <3>2
  <2>3. pc' \in Covered => Recorded' = Len(input'.sessions)
    BY <1>2, <2>1, <2>2 DEF Layout
  <2>4. (\A n \in 1..Recorded : ~Strays(Sorted[n]))'
    BY <2>1 DEF Layout, Strays
  <2>5. (\E start : Blocks(lines, Sorted, Recorded, start))'
    BY <1>2, <2>1 DEF Layout
  <2>6. QED
    BY <1>2, <2>1, <2>3, <2>4, <2>5 DEF Layout
<1>3. QED
  BY <1>1, <1>2, LinesStay

(***************************************************************************)
(* What is staged.                                                          *)
(***************************************************************************)

\* An entry has a size, and a digest of some bytes as they were written.
Entry(e) ==
  \E disk, body : \E size \in Nat :
    e = [disk |-> disk, digest |-> Written(body), size |-> size]

Entries(files) == \A name \in DOMAIN files : Entry(files[name])

LEMMA Merged ==
  ASSUME NEW old, NEW new
  PROVE  /\ DOMAIN (old ++ new) = DOMAIN old \cup DOMAIN new
         /\ \A name \in DOMAIN new : (old ++ new)[name] = new[name]
         /\ \A name \in DOMAIN old : name \notin DOMAIN new => (old ++ new)[name] = old[name]
BY DEF ++

LEMMA EntriesMerged ==
  ASSUME NEW old, NEW new, Entries(old), Entries(new)
  PROVE  Entries(old ++ new)
<1>1. /\ DOMAIN (old ++ new) = DOMAIN old \cup DOMAIN new
      /\ \A name \in DOMAIN new : (old ++ new)[name] = new[name]
      /\ \A name \in DOMAIN old : name \notin DOMAIN new => (old ++ new)[name] = old[name]
  BY Merged
<1> DEFINE files == old ++ new
<1> HIDE DEF files
<1>2. ASSUME NEW name \in DOMAIN files PROVE Entry(files[name])
  <2>1. CASE name \in DOMAIN new
    BY <1>1, <2>1 DEF Entries, files
  <2>2. CASE name \notin DOMAIN new
    BY <1>1, <1>2, <2>2 DEF Entries, files
  <2>3. QED
    BY <2>1, <2>2
<1>3. QED
  BY <1>2 DEF Entries, files

LEMMA Added ==
  ASSUME NEW name, NEW body, NEW size
  PROVE  /\ DOMAIN Add(name, body, size) = {name}
         /\ Add(name, body, size)[name] =
              [disk |-> Written(body), digest |-> Written(body), size |-> size]
         /\ size \in Nat => Entries(Add(name, body, size))
BY DEF Add, Entries, Entry

LEMMA AddedAll ==
  ASSUME NEW bodies
  PROVE  /\ DOMAIN AddAll(bodies) = DOMAIN bodies
         /\ \A name \in DOMAIN bodies : AddAll(bodies)[name] =
              [disk |-> Written(bodies[name]), digest |-> Written(bodies[name]), size |-> 0]
         /\ Entries(AddAll(bodies))
<1>1. DOMAIN AddAll(bodies) = DOMAIN bodies
  BY DEF AddAll
<1>2. \A name \in DOMAIN bodies : AddAll(bodies)[name] =
        [disk |-> Written(bodies[name]), digest |-> Written(bodies[name]), size |-> 0]
  BY DEF AddAll
<1>3. Entries(AddAll(bodies))
  BY <1>1, <1>2 DEF Entries, Entry
<1>4. QED
  BY <1>1, <1>2, <1>3

\* A function on 1..n is a sequence of n elements.
LEMMA CountedIsSequence ==
  ASSUME NEW n \in Nat, NEW f, f = [i \in 1..n |-> f[i]]
  PROVE  f \in Seq({f[i] : i \in 1..n}) /\ Len(f) = n
<1> DEFINE S == {f[i] : i \in 1..n}
<1>1. \A i \in 1..n : f[i] \in S
  OBVIOUS
<1> HIDE DEF S
<1>2. f \in [1..n -> S]
  BY <1>1
<1>3. f \in Seq(S)
  BY <1>2
<1>4. Len(f) = n
  BY <1>2, <1>3
<1>5. QED
  BY <1>3, <1>4 DEF S

\* The messages of a session that its conversation shows.
Shown(session) == {e \in DOMAIN session.events : session.events[e].type \in UsageTypes}

LEMMA ConversationIs ==
  ASSUME NEW session \in Sessions
  PROVE  /\ Len(WriteSession(session.events)) = Cardinality(Shown(session))
         /\ Cardinality(Shown(session)) \in Nat
<1> DEFINE N == Len(session.events)
           C == Cardinality(Shown(session))
           text == WriteSession(session.events)
           shown == At(session.events, Shown(session))
<1>1. N \in Nat /\ DOMAIN session.events = 1..N
  BY SessionTypes
<1>2. IsFiniteSet(1..N) /\ Shown(session) \in SUBSET (1..N)
  BY <1>1, NumbersTo DEF Shown
<1>3. C \in Nat
  BY <1>2, SubsetSizes
<1>4. DOMAIN shown = 1..C
  BY DEF At
<1>5. text = [i \in DOMAIN shown |-> <<shown[i].type, shown[i].text>>]
  BY DEF WriteSession, Shown
<1> HIDE DEF C, text, shown
<1>6. text = [i \in 1..C |-> text[i]]
  BY <1>4, <1>5
<1>7. Len(text) = C
  BY <1>3, <1>6, CountedIsSequence
<1>8. QED
  BY <1>3, <1>7 DEF C, text

\* What each step stages, over what was staged before it.
SchemaEntries == AddAll([name \in Schemas |-> name])
SessionEntries(session) ==
  Add(SessionPath(session), WriteSession(session.events), Len(WriteSession(session.events)))

LEMMA EntriesOfSteps ==
  /\ DOMAIN SchemaEntries = Schemas /\ Entries(SchemaEntries)
  /\ DOMAIN FixedEntries = {<<"redactions">>, <<"REVIEW_GUIDE">>} /\ Entries(FixedEntries)
  /\ \A described :
       /\ DOMAIN Reports(described) = {<<"README">>, <<"SUMMARY">>}
       /\ Entries(Reports(described))
<1>1. DOMAIN SchemaEntries = Schemas /\ Entries(SchemaEntries)
  BY AddedAll DEF SchemaEntries
<1>2. DOMAIN FixedEntries = {<<"redactions">>, <<"REVIEW_GUIDE">>} /\ Entries(FixedEntries)
  BY AddedAll DEF FixedEntries
<1>3. ASSUME NEW described
      PROVE  /\ DOMAIN Reports(described) = {<<"README">>, <<"SUMMARY">>}
             /\ Entries(Reports(described))
  <2> DEFINE readme == Add(<<"README">>, WriteREADME(Links(Sorted)), 0)
             summary == Add(<<"SUMMARY">>, WriteSummary(described, Links(Sorted)), 0)
  <2>1. /\ DOMAIN readme = {<<"README">>} /\ Entries(readme)
        /\ DOMAIN summary = {<<"SUMMARY">>} /\ Entries(summary)
    BY Added
  <2>2. Reports(described) = readme ++ summary
    BY DEF Reports
  <2> HIDE DEF readme, summary
  <2>3. DOMAIN (readme ++ summary) = DOMAIN readme \cup DOMAIN summary
    BY Merged
  <2>4. Entries(readme ++ summary)
    BY <2>1, EntriesMerged
  <2>5. QED
    BY <2>1, <2>2, <2>3, <2>4
<1>4. QED
  BY <1>1, <1>2, <1>3

\* The names and the sizes that a step stages.
LEMMA SessionStaged ==
  ASSUME Layout, Entries(staged), StageSession
  PROVE  /\ Entries(staged') /\ DOMAIN staged' = DOMAIN staged \cup {SessionPath(NextSession)}
         /\ SessionPath(NextSession) \in Paths
<1>1. NextSession \in Sessions /\ \E s \in DOMAIN input.sessions : NextSession = input.sessions[s]
  <2>1. MoreSessions
    BY DEF StageSession
  <2>2. QED
    BY <2>1, NextIsSession, SortedTypes DEF Layout
<1>2. staged' = staged ++ SessionEntries(NextSession)
  BY DEF StageSession, SessionEntries
<1>3. DOMAIN SessionEntries(NextSession) = {SessionPath(NextSession)} /\ Entries(SessionEntries(NextSession))
  <2>1. Len(WriteSession(NextSession.events)) \in Nat
    BY <1>1, ConversationIs
  <2>2. QED
    BY <2>1, Added DEF SessionEntries
<1>4. SessionPath(NextSession) \in Paths
  BY <1>1 DEF Paths
<1>5. QED
  BY <1>2, <1>3, <1>4, Merged, EntriesMerged

LEMMA ReportsStaged ==
  ASSUME Entries(staged), StageReports
  PROVE  /\ Entries(staged')
         /\ DOMAIN staged' = DOMAIN staged \cup ReportNames \cup RecordNames
<1> DEFINE sessions == Add(<<"sessions">>, lines, 0)
           errors == Add(<<"errors">>, input.errors, 0)
           first == staged ++ sessions
           second == first ++ errors
           third == second ++ FixedEntries
<1>1. staged' = third ++ Reports(manifest')
  BY DEF StageReports
<1>2. /\ DOMAIN sessions = {<<"sessions">>} /\ Entries(sessions)
      /\ DOMAIN errors = {<<"errors">>} /\ Entries(errors)
  BY Added
<1> HIDE DEF sessions, errors
<1>3. Entries(first) /\ DOMAIN first = DOMAIN staged \cup {<<"sessions">>}
  BY <1>2, Merged, EntriesMerged
<1> HIDE DEF first
<1>4. Entries(second) /\ DOMAIN second = DOMAIN staged \cup {<<"sessions">>, <<"errors">>}
  <2>1. DOMAIN second = DOMAIN first \cup DOMAIN errors
    BY Merged
  <2>2. Entries(second)
    BY <1>2, <1>3, EntriesMerged
  <2>3. QED
    BY <1>2, <1>3, <2>1, <2>2
<1> HIDE DEF second
<1>5. /\ Entries(third)
      /\ DOMAIN third = DOMAIN staged \cup {<<"sessions">>, <<"errors">>, <<"redactions">>, <<"REVIEW_GUIDE">>}
  <2>1. Entries(third)
    BY <1>4, EntriesOfSteps, EntriesMerged
  <2>2. DOMAIN third = DOMAIN second \cup {<<"redactions">>, <<"REVIEW_GUIDE">>}
    BY EntriesOfSteps, Merged, ZenonT(60)
  <2>3. QED
    BY <1>4, <2>1, <2>2
<1> HIDE DEF third
<1>6. Entries(staged') /\ DOMAIN staged' = DOMAIN third \cup {<<"README">>, <<"SUMMARY">>}
  <2>1. Entries(Reports(manifest')) /\ DOMAIN Reports(manifest') = {<<"README">>, <<"SUMMARY">>}
    BY EntriesOfSteps
  <2>2. QED
    BY <1>1, <1>5, <2>1, Merged, EntriesMerged
<1>7. ReportNames \cup RecordNames =
        {<<"sessions">>, <<"errors">>, <<"redactions">>, <<"REVIEW_GUIDE">>, <<"README">>, <<"SUMMARY">>}
  BY DEF ReportNames, RecordNames
<1>8. QED
  BY <1>5, <1>6, <1>7

\* A step that stages one entry more.
LEMMA OneStaged ==
  ASSUME Entries(staged), NEW name, NEW body, staged' = staged ++ Add(name, body, 0)
  PROVE  Entries(staged') /\ DOMAIN staged' = DOMAIN staged \cup {name}
<1>1. DOMAIN Add(name, body, 0) = {name} /\ Entries(Add(name, body, 0))
  BY Added
<1>2. QED
  BY <1>1, Merged, EntriesMerged

\* A damaged file has its digest and its size as before.
LEMMA Damaged ==
  ASSUME Entries(staged), NEW name \in DOMAIN staged, Damage(name)
  PROVE  /\ DOMAIN staged' = DOMAIN staged /\ Entries(staged')
         /\ \A other \in DOMAIN staged \ {name} : staged'[other] = staged[other]
         /\ \E file \in Spoiled(name) :
              staged'[name] = [disk |-> file, digest |-> staged[name].digest,
                               size |-> staged[name].size]
<1>1. PICK file \in Spoiled(name) : staged' = [staged EXCEPT ![name].disk = file]
  BY DEF Damage
<1>2. PICK disk, body : \E size \in Nat :
        staged[name] = [disk |-> disk, digest |-> Written(body), size |-> size]
  BY DEF Entries, Entry
<1>3. PICK size \in Nat : staged[name] = [disk |-> disk, digest |-> Written(body), size |-> size]
  BY <1>2
<1>4. DOMAIN staged' = DOMAIN staged
  BY <1>1
<1>5. \A other \in DOMAIN staged \ {name} : staged'[other] = staged[other]
  BY <1>1
<1>6. staged'[name] = [staged[name] EXCEPT !.disk = file]
  BY <1>1
<1>7. staged'[name] = [disk |-> file, digest |-> Written(body), size |-> size]
  BY <1>3, <1>6
<1>8. staged[name].digest = Written(body) /\ staged[name].size = size
  BY <1>3
<1>9. Entry(staged'[name])
  BY <1>7 DEF Entry
<1>10. Entries(staged')
  BY <1>4, <1>5, <1>9 DEF Entries
<1>11. QED
  BY <1>4, <1>5, <1>7, <1>8, <1>10

\* Types, the layout and the entries, together.
Typed == TypeOK /\ Layout /\ Entries(staged)

\* Where Build can be.
Steps == {"schemas", "sessions", "combined", "manifest", "checksums",
          "strict", "zip", "validate", "published", "failed", "incomplete"}

\* What a step can get wrong of the types; the sizes are those of the entries.
Names == DOMAIN staged \subseteq requiredEntries \cup Paths \cup {Combined}
Base ==
  /\ pc \in Steps /\ faults \subseteq {"call", "cancelled", "damage"} /\ damages \in 0..MaxDamages
  /\ Names /\ (pc # "failed" => StagedBy(pc) \subseteq DOMAIN staged)

LEMMA BaseIsEnough == Base /\ Entries(staged) => TypeOK
<1> SUFFICES ASSUME Base, Entries(staged) PROVE TypeOK
  OBVIOUS
<1>1. ASSUME NEW name \in DOMAIN staged PROVE staged[name].size \in Nat
  <2>1. PICK disk, body : \E size \in Nat :
          staged[name] = [disk |-> disk, digest |-> Written(body), size |-> size]
    BY DEF Entries, Entry
  <2>2. PICK size \in Nat :
          staged[name] = [disk |-> disk, digest |-> Written(body), size |-> size]
    BY <2>1
  <2>3. QED
    BY <2>2
<1>2. QED
  BY <1>1 DEF Base, Names, Steps, TypeOK

LEMMA StagedBySteps ==
  /\ StagedBy("sessions") = Schemas
  /\ StagedBy("combined") = Schemas \cup ReportNames \cup RecordNames
  /\ StagedBy("manifest") = Schemas \cup ReportNames \cup RecordNames
  /\ StagedBy("checksums") = requiredEntries \ {Checksums}
  /\ \A step \in {"strict", "zip", "validate", "published", "incomplete"} :
       StagedBy(step) = requiredEntries
BY DEF StagedBy

LEMMA EntryNames ==
  /\ Schemas \cup ReportNames \cup RecordNames \cup {Manifest, Checksums} = requiredEntries
  /\ Checksums \notin Schemas \cup ReportNames \cup RecordNames \cup {Manifest}
<1>1. QED
  BY DEF requiredEntries, Schemas, ReportNames, RecordNames, Manifest, Checksums

LEMMA NextTyped == Typed /\ [Next]_vars => Typed'
<1> SUFFICES ASSUME Typed, [Next]_vars PROVE Typed'
  OBVIOUS
<1>1. Layout'
  BY NextLayout DEF Typed
<1>2. Base /\ Entries(staged)
  BY DEF Typed, TypeOK, Base, Names, Steps
<1>3. (pc \in Steps /\ faults \subseteq {"call", "cancelled", "damage"} /\ damages \in 0..MaxDamages)
  BY <1>2 DEF Base
<1>4. input' = input => Paths' = Paths
  BY DEF Paths, SessionPath
<1>5. SUFFICES Base' /\ Entries(staged)'
  BY <1>1, BaseIsEnough, PTL DEF Typed
<1>6. CASE StageSchemas
  <2>1. staged' = SchemaEntries /\ pc' = "sessions" /\ UNCHANGED <<input, faults, damages>>
    BY <1>6 DEF StageSchemas, SchemaEntries, Goto
  <2>2. QED
    BY <1>3, <2>1, EntriesOfSteps, StagedBySteps, EntryNames DEF Base, Names, Steps
<1>7. CASE StageSession
  <2>1. pc = "sessions" /\ pc' = "sessions" /\ UNCHANGED <<input, faults, damages>>
    BY <1>7 DEF StageSession, Goto
  <2>2. /\ Entries(staged') /\ DOMAIN staged' = DOMAIN staged \cup {SessionPath(NextSession)}
        /\ SessionPath(NextSession) \in Paths
    BY <1>2, <1>7, SessionStaged DEF Typed
  <2>3. QED
    BY <1>2, <1>3, <1>4, <2>1, <2>2 DEF Base, Names, Steps
<1>8. CASE StageReports
  <2>1. pc = "sessions" /\ pc' = "combined" /\ UNCHANGED <<input, faults, damages>>
    BY <1>8 DEF StageReports, Goto
  <2>2. Entries(staged') /\ DOMAIN staged' = DOMAIN staged \cup ReportNames \cup RecordNames
    BY <1>2, <1>8, ReportsStaged
  <2>3. QED
    BY <1>2, <1>3, <1>4, <2>1, <2>2, StagedBySteps, EntryNames DEF Base, Names, Steps
<1>9. CASE StageCombined
  <2>1. pc = "combined" /\ pc' = "manifest" /\ UNCHANGED <<input, faults, damages>>
    BY <1>9 DEF StageCombined, Goto
  <2>2. Entries(staged') /\ DOMAIN staged' = DOMAIN staged \cup {Combined}
    <3>1. staged' = staged ++ Add(Combined, Copied, 0)
      BY <1>9 DEF StageCombined
    <3>2. QED
      BY <1>2, <3>1, OneStaged
  <2>3. QED
    BY <1>2, <1>3, <1>4, <2>1, <2>2, StagedBySteps DEF Base, Names, Steps
<1>10. CASE OmitCombined
  <2>1. pc = "combined" /\ pc' = "manifest" /\ UNCHANGED <<input, faults, damages>>
        /\ staged' = staged ++ Reports(manifest')
    BY <1>10 DEF OmitCombined, Goto
  <2>2. Entries(staged') /\ DOMAIN staged' = DOMAIN staged \cup {<<"README">>, <<"SUMMARY">>}
    <3>1. Entries(Reports(manifest')) /\ DOMAIN Reports(manifest') = {<<"README">>, <<"SUMMARY">>}
      BY EntriesOfSteps
    <3>2. DOMAIN (staged ++ Reports(manifest')) = DOMAIN staged \cup DOMAIN Reports(manifest')
      BY Merged
    <3>3. Entries(staged ++ Reports(manifest'))
      BY <1>2, <3>1, EntriesMerged
    <3>4. QED
      BY <2>1, <3>1, <3>2, <3>3
  <2>3. {<<"README">>, <<"SUMMARY">>} \subseteq ReportNames
    BY DEF ReportNames
  <2>4. QED
    BY <1>2, <1>3, <1>4, <2>1, <2>2, <2>3, StagedBySteps DEF Base, Names, Steps
<1>11. CASE SkipCombined
  <2>1. pc = "combined" /\ pc' = "manifest" /\ UNCHANGED <<input, faults, damages, staged>>
    BY <1>11 DEF SkipCombined, Goto
  <2>2. QED
    BY <1>2, <1>3, <1>4, <2>1, StagedBySteps DEF Base, Names, Steps
<1>12. CASE StageManifest
  <2>1. /\ pc = "manifest" /\ pc' = "checksums" /\ UNCHANGED <<input, faults, damages>>
        /\ staged' = staged ++ Add(Manifest, manifest', 0)
    BY <1>12 DEF StageManifest, Goto
  <2>2. Entries(staged') /\ DOMAIN staged' = DOMAIN staged \cup {Manifest}
    BY <1>2, <2>1, OneStaged
  <2>3. requiredEntries \ {Checksums} = Schemas \cup ReportNames \cup RecordNames \cup {Manifest}
        /\ Manifest \in requiredEntries
    BY EntryNames
  <2>4. QED
    BY <1>2, <1>3, <1>4, <2>1, <2>2, <2>3, StagedBySteps DEF Base, Names, Steps
<1>13. CASE StageChecksums
  <2>1. /\ pc = "checksums" /\ pc' = "strict" /\ UNCHANGED <<input, faults, damages>>
        /\ staged' = staged ++ Add(Checksums, DigestsExcept({Checksums}), 0)
    BY <1>13 DEF StageChecksums, Goto
  <2>2. Entries(staged') /\ DOMAIN staged' = DOMAIN staged \cup {Checksums}
    BY <1>2, <2>1, OneStaged
  <2>3. Checksums \in requiredEntries
    BY EntryNames
  <2>4. QED
    BY <1>2, <1>3, <1>4, <2>1, <2>2, <2>3, StagedBySteps DEF Base, Names, Steps
<1>14. CASE StageSessionRefused \/ StopsCancelled
  <2>1. pc' = "failed" /\ UNCHANGED <<input, faults, damages, staged>>
    BY <1>14 DEF StageSessionRefused, StopsCancelled, Goto
  <2>2. QED
    BY <1>2, <1>3, <1>4, <2>1 DEF Base, Names, Steps
<1>15. CASE CheckStrict \/ WriteZIP \/ Validate
  <2>1. /\ pc \in {"strict", "zip", "validate"} /\ UNCHANGED <<input, faults, damages, staged>>
        /\ pc' \in {"zip", "validate", "published", "failed", "incomplete"}
    BY <1>15 DEF CheckStrict, WriteZIP, Validate, Goto
  <2>2. QED
    BY <1>2, <1>3, <1>4, <2>1, StagedBySteps DEF Base, Names, Steps
<1>16. CASE Fails \/ Cancel
  <2>1. /\ UNCHANGED <<input, damages, staged>> /\ (pc' = pc \/ pc' = "failed")
        /\ (faults' = faults \cup {"call"} \/ faults' = faults \cup {"cancelled"})
    BY <1>16 DEF Fails, Cancel
  <2>2. QED
    BY <1>2, <1>3, <1>4, <2>1 DEF Base, Names, Steps
<1>17. ASSUME NEW name \in DOMAIN staged, Damage(name) PROVE Base' /\ Entries(staged)'
  <2>1. /\ UNCHANGED <<input, pc>> /\ faults' = faults \cup {"damage"}
        /\ damages < MaxDamages /\ damages' = damages + 1
    BY <1>17 DEF Damage
  <2>2. DOMAIN staged' = DOMAIN staged /\ Entries(staged')
    BY <1>2, <1>17, Damaged
  <2>3. damages' \in 0..MaxDamages
    BY <1>3, <2>1, ArchiveAssumption
  <2>4. QED
    BY <1>2, <1>3, <1>4, <2>1, <2>2, <2>3 DEF Base, Names, Steps
<1>18. CASE UNCHANGED vars
  BY <1>2, <1>4, <1>18 DEF vars, Base, Names, Steps
<1>19. QED
  BY <1>6, <1>7, <1>8, <1>9, <1>10, <1>11, <1>12, <1>13, <1>14, <1>15, <1>16, <1>17, <1>18
  DEF Next, Stage

LEMMA InitTyped == Init => Typed
<1> SUFFICES ASSUME Init PROVE Typed
  OBVIOUS
<1>1. /\ pc = "schemas" /\ faults = {} /\ damages = 0 /\ DOMAIN staged = {}
  BY DEF Init
<1>2. StagedBy("schemas") = {}
  BY DEF StagedBy
<1>3. TypeOK
  BY <1>1, <1>2, ArchiveAssumption DEF TypeOK
<1>4. Entries(staged)
  BY <1>1 DEF Entries
<1>5. QED
  BY <1>3, <1>4, InitLayout DEF Typed

LEMMA AlwaysTyped == Spec => []Typed
<1>1. Init /\ [][Next]_vars => []Typed
  BY InitTyped, NextTyped, PTL
<1>2. QED
  BY <1>1, PTL DEF Spec

\* Whatever Build is called with, each step finds the entries that the steps before
\* it staged, and no others than the required ones, conversations and the combined
\* file.
THEOREM StagingIsTyped == Spec => []TypeOK
<1>1. Typed => TypeOK
  BY DEF Typed
<1>2. QED
  BY <1>1, AlwaysTyped, PTL

PathOf(n) == SessionPath(Sorted[n])

OnDisk == [name \in DOMAIN staged |-> staged[name].disk]

\* Files that have the bytes that were digested: each but the checksums has its
\* body, the checksums have no line that is not a staged digest, and the combined
\* file has each conversation that is as it was written.
Faithful(files) ==
  /\ DOMAIN files = DOMAIN staged
  /\ \A name \in DOMAIN staged \ {Checksums} : files[name].body = staged[name].digest.body
  /\ Checksums \in DOMAIN staged =>
       \A name \in DOMAIN files[Checksums].body :
         name \in DOMAIN staged /\ files[Checksums].body[name] = staged[name].digest
  /\ Combined \in DOMAIN staged =>
       \A n \in 1..Recorded :
         files[PathOf(n)] = staged[PathOf(n)].digest =>
           staged[Combined].digest.body[n] = staged[PathOf(n)].digest

\* Each recorded session has its conversation, under a name of its own.
Conversations ==
  /\ \A n \in 1..Recorded :
       /\ PathOf(n) \in DOMAIN staged
       /\ staged[PathOf(n)].digest = Written(WriteSession(Sorted[n].events))
  /\ \A m, n \in 1..Recorded : PathOf(m) = PathOf(n) => m = n

Unsummed == {"schemas", "sessions", "combined", "manifest", "checksums"}
Uncombined == {"schemas", "sessions", "combined"}

Contents ==
  /\ pc = "schemas" => DOMAIN staged = {}
  /\ pc \in Unsummed => Checksums \notin DOMAIN staged
  /\ pc \in Uncombined => Combined \notin DOMAIN staged
  /\ pc \in Covered => staged[<<"sessions">>].digest = Written(lines)
  /\ Conversations
  /\ Faithful(OnDisk)
  /\ pc \in {"validate", "published"} => Faithful(zip)
  /\ pc = "published" => Accepts(zip)

LEMMA RecordsStaged == ASSUME Typed, pc \in Covered PROVE <<"sessions">> \in DOMAIN staged
<1>1. StagedBy(pc) \subseteq DOMAIN staged
  BY DEF Typed, TypeOK, Covered
<1>2. StagedBy(pc) = requiredEntries \/ StagedBy(pc) = requiredEntries \ {Checksums}
      \/ StagedBy(pc) = Schemas \cup ReportNames \cup RecordNames
  BY StagedBySteps DEF Covered
<1>3. /\ <<"sessions">> \in RecordNames /\ <<"sessions">> \in requiredEntries
      /\ <<"sessions">> # Checksums
  BY EntryNames DEF RecordNames, Checksums
<1>4. QED
  BY <1>1, <1>2, <1>3

LEMMA PathsApart ==
  \A session : SessionPath(session) \notin requiredEntries \cup {Combined}
BY DEF SessionPath, requiredEntries, Schemas, ReportNames, RecordNames, Manifest, Checksums, Combined

LEMMA NamesApart ==
  /\ Combined \notin requiredEntries
  /\ <<"sessions">> \in RecordNames /\ <<"sessions">> # Manifest /\ <<"sessions">> # Checksums
  /\ <<"sessions">> \notin {<<"README">>, <<"SUMMARY">>}
BY DEF requiredEntries, Schemas, ReportNames, RecordNames, Manifest, Checksums, Combined

\* Files stay faithful while the digests stay.
LEMMA StaysFaithful ==
  ASSUME NEW files, Faithful(files), UNCHANGED <<input, lines>>, DOMAIN staged' = DOMAIN staged,
         \A name \in DOMAIN staged : staged'[name].digest = staged[name].digest,
         \A n \in 1..Recorded : PathOf(n) \in DOMAIN staged
  PROVE  /\ DOMAIN files = DOMAIN staged'
         /\ \A name \in DOMAIN staged' \ {Checksums} : files[name].body = staged'[name].digest.body
         /\ Checksums \in DOMAIN staged' =>
              \A name \in DOMAIN files[Checksums].body :
                name \in DOMAIN staged' /\ files[Checksums].body[name] = staged'[name].digest
         /\ Combined \in DOMAIN staged' =>
              \A n \in 1..Recorded :
                files[PathOf(n)] = staged'[PathOf(n)].digest =>
                  staged'[Combined].digest.body[n] = staged'[PathOf(n)].digest
         /\ Recorded' = Recorded /\ Sorted' = Sorted
<1>1. Recorded' = Recorded /\ Sorted' = Sorted
  BY SortedStays DEF Recorded
<1>2. QED
  BY <1>1 DEF Faithful

\* New entries, or the same again, over those that were there.
Fresh(names) ==
  /\ DOMAIN staged' = DOMAIN staged \cup names
  /\ \A name \in DOMAIN staged : name \notin names => staged'[name] = staged[name]
  /\ \A name \in names : staged'[name].disk = staged'[name].digest

LEMMA AddWrites ==
  ASSUME NEW name, NEW body, NEW size
  PROVE  /\ DOMAIN Add(name, body, size) = {name}
         /\ Add(name, body, size)[name].disk = Written(body)
         /\ Add(name, body, size)[name].digest = Written(body)
         /\ Add(name, body, size)[name].size = size
BY DEF Add

LEMMA AddAllWrites ==
  ASSUME NEW bodies, NEW name \in DOMAIN bodies
  PROVE  /\ AddAll(bodies)[name].disk = Written(bodies[name])
         /\ AddAll(bodies)[name].digest = Written(bodies[name])
BY DEF AddAll

LEMMA FreshAdd ==
  ASSUME NEW name, NEW body, NEW size, staged' = staged ++ Add(name, body, size)
  PROVE  Fresh({name}) /\ staged'[name].digest = Written(body)
<1>1. /\ DOMAIN Add(name, body, size) = {name}
      /\ Add(name, body, size)[name] =
           [disk |-> Written(body), digest |-> Written(body), size |-> size]
  BY Added
<1> DEFINE new == Add(name, body, size)
<1> HIDE DEF new
<1>2. /\ DOMAIN (staged ++ new) = DOMAIN staged \cup DOMAIN new
      /\ \A other \in DOMAIN new : (staged ++ new)[other] = new[other]
      /\ \A other \in DOMAIN staged : other \notin DOMAIN new => (staged ++ new)[other] = staged[other]
  BY Merged
<1>3. QED
  BY <1>1, <1>2 DEF Fresh, new

\* What such a step leaves true, when it leaves the conversations alone.
LEMMA FreshKeeps ==
  ASSUME NEW names, Fresh(names), UNCHANGED <<input, lines>>, Conversations, Faithful(OnDisk),
         \A n \in 1..Recorded : PathOf(n) \notin names,
         Combined \notin names, Checksums \notin names, Checksums \notin DOMAIN staged
  PROVE  Conversations' /\ Faithful(OnDisk)' /\ Checksums \notin DOMAIN staged'
         /\ Recorded' = Recorded /\ Sorted' = Sorted
<1>1. Recorded' = Recorded /\ Sorted' = Sorted
  BY SortedStays DEF Recorded
<1>2. /\ DOMAIN staged' = DOMAIN staged \cup names
      /\ \A name \in DOMAIN staged : name \notin names => staged'[name] = staged[name]
      /\ \A name \in names : staged'[name].disk = staged'[name].digest
  BY DEF Fresh
<1>3. \A n \in 1..Recorded : PathOf(n) \in DOMAIN staged /\ staged'[PathOf(n)] = staged[PathOf(n)]
  BY <1>2 DEF Conversations
<1>4. Conversations'
  BY <1>1, <1>2, <1>3 DEF Conversations, PathOf
<1>5. Checksums \notin DOMAIN staged'
  BY <1>2
<1>6. \A name \in DOMAIN staged' : staged'[name].disk.body = staged'[name].digest.body
  BY <1>2 DEF Faithful, OnDisk
<1>7. Combined \in DOMAIN staged' =>
        \A n \in 1..Recorded :
          staged'[PathOf(n)].disk = staged'[PathOf(n)].digest =>
            staged'[Combined].digest.body[n] = staged'[PathOf(n)].digest
  <2>1. Combined \in DOMAIN staged' => Combined \in DOMAIN staged /\ staged'[Combined] = staged[Combined]
    BY <1>2
  <2>2. \A n \in 1..Recorded : OnDisk[PathOf(n)] = staged[PathOf(n)].disk
    BY <1>3 DEF OnDisk
  <2>3. QED
    BY <1>3, <2>1, <2>2 DEF Faithful
<1>8. Faithful(OnDisk)'
  <2>1. OnDisk' = [name \in DOMAIN staged' |-> staged'[name].disk]
    BY DEF OnDisk
  <2>2. \A n \in 1..Recorded : PathOf(n)' = PathOf(n)
    BY <1>1 DEF PathOf
  <2>3. \A n \in 1..Recorded : PathOf(n) \in DOMAIN staged'
    BY <1>2, <1>3
  <2>4. QED
    BY <1>1, <1>5, <1>6, <1>7, <2>1, <2>2, <2>3 DEF Faithful
<1>9. QED
  BY <1>1, <1>4, <1>5, <1>8

\* The steps before the checksums that stage no session.
LEMMA ReportsContents ==
  ASSUME Contents, Typed, NEW names, Fresh(names), UNCHANGED <<input, lines>>,
         names \in SUBSET requiredEntries, Checksums \notin names, pc \in Unsummed
  PROVE  /\ Conversations' /\ Faithful(OnDisk)' /\ Checksums \notin DOMAIN staged'
         /\ Combined \notin DOMAIN staged => Combined \notin DOMAIN staged'
         /\ Recorded' = Recorded /\ Sorted' = Sorted
<1>1. /\ Conversations /\ Faithful(OnDisk) /\ Checksums \notin DOMAIN staged
  BY DEF Contents
<1>2. /\ \A n \in 1..Recorded : PathOf(n) \notin names
      /\ Combined \notin names
  BY PathsApart, NamesApart DEF PathOf
<1>3. QED
  BY <1>1, <1>2, FreshKeeps DEF Fresh

LEMMA SchemasFresh ==
  ASSUME StageSchemas, DOMAIN staged = {}
  PROVE  Fresh(Schemas)
<1> DEFINE bodies == [name \in Schemas |-> name]
<1>1. DOMAIN bodies = Schemas
  OBVIOUS
<1> HIDE DEF bodies
<1>2. staged' = AddAll(bodies)
  BY DEF StageSchemas, bodies
<1>3. DOMAIN AddAll(bodies) = Schemas
  BY <1>1, AddedAll
<1>4. \A name \in Schemas : AddAll(bodies)[name].disk = AddAll(bodies)[name].digest
  BY <1>1, AddAllWrites
<1>5. QED
  BY <1>2, <1>3, <1>4 DEF Fresh

LEMMA SchemasContents == ASSUME Contents, Typed, StageSchemas PROVE Contents'
<1>1. pc = "schemas" /\ pc' = "sessions" /\ UNCHANGED <<input, lines>>
  BY DEF StageSchemas, Goto
<1>2. DOMAIN staged = {}
  BY <1>1 DEF Contents
<1>3. Fresh(Schemas)
  BY <1>2, SchemasFresh
<1>4. Schemas \in SUBSET requiredEntries /\ Checksums \notin Schemas
  BY EntryNames
<1>5. pc \in Unsummed /\ Combined \notin DOMAIN staged
  BY <1>1, <1>2 DEF Unsummed
<1>6. /\ Conversations' /\ Faithful(OnDisk)' /\ Checksums \notin DOMAIN staged'
      /\ Combined \notin DOMAIN staged'
  BY <1>1, <1>3, <1>4, <1>5, ReportsContents
<1>7. QED
  BY <1>1, <1>6 DEF Contents, Covered

\* The two reports, written from the sorted sessions and a manifest.
LEMMA ReportsAre ==
  ASSUME NEW described
  PROVE  /\ DOMAIN Reports(described) = {<<"README">>, <<"SUMMARY">>}
         /\ Reports(described)[<<"README">>].disk = Written(WriteREADME(Links(Sorted)))
         /\ Reports(described)[<<"README">>].digest = Written(WriteREADME(Links(Sorted)))
         /\ Reports(described)[<<"SUMMARY">>].disk = Written(WriteSummary(described, Links(Sorted)))
         /\ Reports(described)[<<"SUMMARY">>].digest = Written(WriteSummary(described, Links(Sorted)))
<1> DEFINE guide == WriteREADME(Links(Sorted))
           told == WriteSummary(described, Links(Sorted))
           readme == Add(<<"README">>, guide, 0)
           summary == Add(<<"SUMMARY">>, told, 0)
<1>1. Reports(described) = readme ++ summary
  BY DEF Reports
<1> HIDE DEF guide, told
<1>2. /\ DOMAIN readme = {<<"README">>} /\ DOMAIN summary = {<<"SUMMARY">>}
      /\ readme[<<"README">>].disk = Written(guide) /\ readme[<<"README">>].digest = Written(guide)
      /\ summary[<<"SUMMARY">>].disk = Written(told) /\ summary[<<"SUMMARY">>].digest = Written(told)
  BY DEF Add
<1> HIDE DEF readme, summary
<1>3. /\ DOMAIN Reports(described) = {<<"README">>, <<"SUMMARY">>}
      /\ Reports(described)[<<"README">>] = readme[<<"README">>]
      /\ Reports(described)[<<"SUMMARY">>] = summary[<<"SUMMARY">>]
  BY <1>1, <1>2 DEF ++
<1>4. QED
  BY <1>2, <1>3 DEF guide, told

LEMMA FixedAre ==
  /\ DOMAIN FixedEntries = {<<"redactions">>, <<"REVIEW_GUIDE">>}
  /\ \A name \in {<<"redactions">>, <<"REVIEW_GUIDE">>} :
       FixedEntries[name].disk = Written(<<>>) /\ FixedEntries[name].digest = Written(<<>>)
<1> DEFINE bodies == [name \in {<<"redactions">>, <<"REVIEW_GUIDE">>} |-> <<>>]
<1>1. DOMAIN bodies = {<<"redactions">>, <<"REVIEW_GUIDE">>}
      /\ \A name \in {<<"redactions">>, <<"REVIEW_GUIDE">>} : bodies[name] = <<>>
  OBVIOUS
<1> HIDE DEF bodies
<1>2. FixedEntries = AddAll(bodies)
  BY DEF FixedEntries, bodies
<1>3. QED
  BY <1>1, <1>2, AddAllWrites, EntriesOfSteps

\* What StageReports writes.
LEMMA ReportsWritten ==
  ASSUME Entries(staged), StageReports
  PROVE  /\ Fresh(ReportNames \cup RecordNames)
         /\ staged'[<<"sessions">>].digest = Written(lines)
         /\ staged'[<<"errors">>].digest = Written(input.errors)
         /\ staged'[<<"redactions">>].digest = Written(<<>>)
         /\ staged'[<<"REVIEW_GUIDE">>].digest = Written(<<>>)
         /\ staged'[<<"README">>].digest = Written(WriteREADME(Links(Sorted)))
         /\ staged'[<<"SUMMARY">>].digest = Written(WriteSummary(manifest', Links(Sorted)))
<1> DEFINE new == ReportNames \cup RecordNames
           sessions == Add(<<"sessions">>, lines, 0)
           errors == Add(<<"errors">>, input.errors, 0)
           fixed == FixedEntries
           reports == Reports(manifest')
<1>1. staged' = (((staged ++ sessions) ++ errors) ++ fixed) ++ reports
  BY DEF StageReports
<1>2. DOMAIN staged' = DOMAIN staged \cup new
  BY ReportsStaged
<1>3. /\ DOMAIN sessions = {<<"sessions">>} /\ DOMAIN errors = {<<"errors">>}
      /\ sessions[<<"sessions">>].disk = Written(lines)
      /\ sessions[<<"sessions">>].digest = Written(lines)
      /\ errors[<<"errors">>].disk = Written(input.errors)
      /\ errors[<<"errors">>].digest = Written(input.errors)
  BY DEF Add
<1>4. /\ DOMAIN fixed = {<<"redactions">>, <<"REVIEW_GUIDE">>}
      /\ \A name \in {<<"redactions">>, <<"REVIEW_GUIDE">>} :
           fixed[name].disk = Written(<<>>) /\ fixed[name].digest = Written(<<>>)
  BY FixedAre
<1> DEFINE guide == WriteREADME(Links(Sorted))
           told == WriteSummary(manifest', Links(Sorted))
<1>5. /\ DOMAIN reports = {<<"README">>, <<"SUMMARY">>}
      /\ reports[<<"README">>].disk = Written(guide) /\ reports[<<"README">>].digest = Written(guide)
      /\ reports[<<"SUMMARY">>].disk = Written(told) /\ reports[<<"SUMMARY">>].digest = Written(told)
  BY ReportsAre
<1>6. new = {<<"sessions">>, <<"errors">>, <<"redactions">>, <<"REVIEW_GUIDE">>, <<"README">>, <<"SUMMARY">>}
  BY DEF ReportNames, RecordNames
<1> DEFINE Value(name) ==
             IF name \in DOMAIN reports THEN reports[name]
             ELSE IF name \in DOMAIN fixed THEN fixed[name]
             ELSE IF name \in DOMAIN errors THEN errors[name]
             ELSE IF name \in DOMAIN sessions THEN sessions[name]
             ELSE staged[name]
<1> HIDE DEF sessions, errors, fixed, reports, guide, told
<1>7. \A name \in DOMAIN staged' : staged'[name] = Value(name)
  BY <1>1 DEF ++
<1>8. \A name \in DOMAIN staged : name \notin new => staged'[name] = staged[name]
  BY <1>2, <1>3, <1>4, <1>5, <1>6, <1>7
<1>9. /\ staged'[<<"sessions">>] = sessions[<<"sessions">>]
      /\ staged'[<<"errors">>] = errors[<<"errors">>]
      /\ staged'[<<"redactions">>] = fixed[<<"redactions">>]
      /\ staged'[<<"REVIEW_GUIDE">>] = fixed[<<"REVIEW_GUIDE">>]
      /\ staged'[<<"README">>] = reports[<<"README">>]
      /\ staged'[<<"SUMMARY">>] = reports[<<"SUMMARY">>]
  BY <1>2, <1>3, <1>4, <1>5, <1>6, <1>7
<1>10. \A name \in new : staged'[name].disk = staged'[name].digest
  BY <1>3, <1>4, <1>5, <1>6, <1>9
<1>11. Fresh(new)
  BY <1>2, <1>8, <1>10 DEF Fresh
<1>12. QED
  BY <1>3, <1>4, <1>5, <1>9, <1>11 DEF guide, told

LEMMA ReportsAreContents == ASSUME Contents, Typed, StageReports PROVE Contents'
<1> DEFINE new == ReportNames \cup RecordNames
<1>1. pc = "sessions" /\ pc' = "combined" /\ UNCHANGED <<input, lines>>
  BY DEF StageReports, Goto
<1>2. Fresh(new) /\ staged'[<<"sessions">>].digest = Written(lines)
  BY ReportsWritten DEF Typed
<1>3. new \in SUBSET requiredEntries /\ Checksums \notin new
  BY EntryNames
<1>4. pc \in Unsummed /\ Combined \notin DOMAIN staged
  BY <1>1 DEF Unsummed, Uncombined, Contents
<1>5. /\ Conversations' /\ Faithful(OnDisk)' /\ Checksums \notin DOMAIN staged'
      /\ Combined \notin DOMAIN staged'
  <2> HIDE DEF new
  <2>1. QED
    BY <1>1, <1>2, <1>3, <1>4, ReportsContents
<1>6. QED
  BY <1>1, <1>2, <1>5 DEF Contents, Covered, Unsummed, Uncombined

LEMMA SessionContents == ASSUME Contents, Typed, StageSession PROVE Contents'
<1> DEFINE new == SessionPath(NextSession)
<1>1. /\ pc = "sessions" /\ pc' = "sessions" /\ input' = input /\ MoreSessions
      /\ new \notin DOMAIN staged
      /\ staged' = staged ++ Add(new, WriteSession(NextSession.events),
                                 Len(WriteSession(NextSession.events)))
  BY DEF StageSession, Goto, Collides
<1>2. Fresh({new}) /\ staged'[new].digest = Written(WriteSession(NextSession.events))
  BY <1>1, FreshAdd
<1>3. /\ Recorded' = Recorded + 1 /\ Recorded \in Nat /\ NextSession = Sorted[Recorded + 1]
      /\ Sorted' = Sorted
  BY <1>1, SessionRecorded, NextIsSession, SortedStays DEF Typed, Layout
<1>4. /\ Combined \notin DOMAIN staged /\ Checksums \notin DOMAIN staged
      /\ Conversations /\ Faithful(OnDisk)
  BY <1>1 DEF Contents, Unsummed, Uncombined
<1>5. new # Combined /\ new # Checksums
  BY PathsApart, EntryNames
<1> HIDE DEF new
<1>6. /\ DOMAIN staged' = DOMAIN staged \cup {new}
      /\ \A name \in DOMAIN staged : staged'[name] = staged[name]
      /\ staged'[new].disk = staged'[new].digest
  BY <1>1, <1>2 DEF Fresh
<1>7. Combined \notin DOMAIN staged' /\ Checksums \notin DOMAIN staged'
  BY <1>4, <1>5, <1>6
<1>8. PathOf(Recorded + 1) = new /\ \A n : PathOf(n)' = PathOf(n)
  BY <1>3 DEF PathOf, new
<1>9. \A n \in 1..(Recorded + 1) : n \in 1..Recorded \/ n = Recorded + 1
  BY <1>3
<1>10. \A n \in 1..(Recorded + 1) :
         /\ PathOf(n) \in DOMAIN staged'
         /\ staged'[PathOf(n)].digest = Written(WriteSession(Sorted[n].events))
  <2> SUFFICES ASSUME NEW n \in 1..(Recorded + 1)
               PROVE  /\ PathOf(n) \in DOMAIN staged'
                      /\ staged'[PathOf(n)].digest = Written(WriteSession(Sorted[n].events))
    OBVIOUS
  <2>1. CASE n \in 1..Recorded
    BY <1>4, <1>6, <2>1 DEF Conversations
  <2>2. CASE n = Recorded + 1
    BY <1>2, <1>3, <1>6, <1>8, <2>2
  <2>3. QED
    BY <1>9, <2>1, <2>2
<1>11. \A m, n \in 1..(Recorded + 1) : PathOf(m) = PathOf(n) => m = n
  <2>1. \A n \in 1..Recorded : PathOf(n) # new
    BY <1>1, <1>4 DEF Conversations
  <2>2. QED
    BY <1>4, <1>8, <1>9, <2>1 DEF Conversations
<1>12. Conversations'
  BY <1>3, <1>8, <1>10, <1>11 DEF Conversations
<1>13. Faithful(OnDisk)'
  <2>1. \A name \in DOMAIN staged' : staged'[name].disk.body = staged'[name].digest.body
    BY <1>4, <1>6 DEF Faithful, OnDisk
  <2>2. QED
    BY <1>7, <2>1 DEF Faithful, OnDisk
<1>14. QED
  BY <1>1, <1>7, <1>12, <1>13 DEF Contents, Covered

\* The copies in the combined file are of the files on disk.
LEMMA CombinedContents == ASSUME Contents, Typed, StageCombined PROVE Contents'
<1>1. /\ pc = "combined" /\ pc' = "manifest" /\ UNCHANGED <<input, lines>>
      /\ staged' = staged ++ Add(Combined, Copied, 0)
  BY DEF StageCombined, Goto
<1>2. Fresh({Combined}) /\ staged'[Combined].digest = Written(Copied)
  BY <1>1, FreshAdd
<1>3. Recorded' = Recorded /\ Sorted' = Sorted /\ \A n : PathOf(n)' = PathOf(n)
  BY <1>1, SortedStays DEF Recorded, PathOf
<1>4. /\ Combined \notin DOMAIN staged /\ Checksums \notin DOMAIN staged
      /\ Conversations /\ Faithful(OnDisk) /\ staged[<<"sessions">>].digest = Written(lines)
      /\ Recorded = Len(input.sessions) /\ DOMAIN Sorted = 1..Recorded
  BY <1>1, SortedTypes DEF Contents, Unsummed, Uncombined, Typed, Layout, Covered
<1>5. /\ DOMAIN staged' = DOMAIN staged \cup {Combined}
      /\ \A name \in DOMAIN staged : staged'[name] = staged[name]
      /\ staged'[Combined].disk = staged'[Combined].digest
  BY <1>2, <1>4 DEF Fresh
<1>6. Checksums \notin DOMAIN staged'
  BY <1>4, <1>5, NamesApart, EntryNames
<1>7. <<"sessions">> \in DOMAIN staged
  BY <1>1, RecordsStaged DEF Covered
<1>8. Conversations'
  BY <1>3, <1>4, <1>5 DEF Conversations
<1>9. \A n \in 1..Recorded :
        staged'[PathOf(n)].disk = staged'[PathOf(n)].digest =>
          staged'[Combined].digest.body[n] = staged'[PathOf(n)].digest
  <2> SUFFICES ASSUME NEW n \in 1..Recorded, staged'[PathOf(n)].disk = staged'[PathOf(n)].digest
               PROVE  staged'[Combined].digest.body[n] = staged'[PathOf(n)].digest
    OBVIOUS
  <2>1. staged'[PathOf(n)] = staged[PathOf(n)]
    BY <1>4, <1>5 DEF Conversations
  <2>2. staged'[Combined].digest.body = Copied
    BY <1>2 DEF Written
  <2>3. Copied[n] = staged[PathOf(n)].disk
    BY <1>4 DEF Copied, PathOf
  <2>4. QED
    BY <2>1, <2>2, <2>3
<1>10. \A name \in DOMAIN staged' : staged'[name].disk.body = staged'[name].digest.body
  BY <1>4, <1>5 DEF Faithful, OnDisk
<1>11. \A n \in 1..Recorded : PathOf(n) \in DOMAIN staged'
  BY <1>4, <1>5 DEF Conversations
<1>12. Faithful(OnDisk)'
  BY <1>3, <1>6, <1>9, <1>10, <1>11 DEF Faithful, OnDisk
<1>13. QED
  BY <1>1, <1>4, <1>5, <1>6, <1>7, <1>8, <1>12 DEF Contents, Covered, Uncombined

\* What OmitCombined writes.
LEMMA OmittedWritten ==
  ASSUME OmitCombined
  PROVE  /\ Fresh({<<"README">>, <<"SUMMARY">>})
         /\ staged'[<<"README">>].digest = Written(WriteREADME(Links(Sorted)))
         /\ staged'[<<"SUMMARY">>].digest = Written(WriteSummary(manifest', Links(Sorted)))
<1> DEFINE new == {<<"README">>, <<"SUMMARY">>}
           guide == WriteREADME(Links(Sorted))
           told == WriteSummary(manifest', Links(Sorted))
           reports == Reports(manifest')
<1>1. staged' = staged ++ reports
  BY DEF OmitCombined
<1>2. /\ DOMAIN reports = new
      /\ reports[<<"README">>].disk = Written(guide) /\ reports[<<"README">>].digest = Written(guide)
      /\ reports[<<"SUMMARY">>].disk = Written(told) /\ reports[<<"SUMMARY">>].digest = Written(told)
  BY ReportsAre
<1> HIDE DEF reports, guide, told
<1>3. DOMAIN staged' = DOMAIN staged \cup new
  BY <1>1, <1>2 DEF ++
<1>4. \A name \in DOMAIN staged : name \notin new => staged'[name] = staged[name]
  BY <1>1, <1>2, <1>3 DEF ++
<1>5. \A name \in new : staged'[name] = reports[name]
  BY <1>1, <1>2, <1>3 DEF ++
<1>6. Fresh(new)
  BY <1>2, <1>3, <1>4, <1>5 DEF Fresh
<1>7. QED
  BY <1>2, <1>5, <1>6 DEF guide, told

LEMMA OmittedContents == ASSUME Contents, Typed, OmitCombined PROVE Contents'
<1> DEFINE new == {<<"README">>, <<"SUMMARY">>}
<1>1. pc = "combined" /\ pc' = "manifest" /\ UNCHANGED <<input, lines>>
  BY DEF OmitCombined, Goto
<1>2. Fresh(new)
  BY OmittedWritten
<1>3. new \in SUBSET requiredEntries /\ Checksums \notin new
  BY EntryNames DEF ReportNames
<1>4. /\ Combined \notin DOMAIN staged /\ pc \in Unsummed
      /\ staged[<<"sessions">>].digest = Written(lines) /\ <<"sessions">> \in DOMAIN staged
  BY <1>1, RecordsStaged DEF Contents, Unsummed, Uncombined, Covered
<1>5. staged'[<<"sessions">>].digest = Written(lines)
  BY <1>2, <1>4, NamesApart DEF Fresh
<1>6. Conversations' /\ Faithful(OnDisk)' /\ Checksums \notin DOMAIN staged'
  <2> HIDE DEF new
  <2>1. QED
    BY <1>1, <1>2, <1>3, <1>4, ReportsContents
<1>7. QED
  BY <1>1, <1>5, <1>6 DEF Contents, Covered, Uncombined

LEMMA ManifestContents == ASSUME Contents, Typed, StageManifest PROVE Contents'
<1>1. /\ pc = "manifest" /\ pc' = "checksums" /\ UNCHANGED <<input, lines>>
      /\ staged' = staged ++ Add(Manifest, manifest', 0)
  BY DEF StageManifest, Goto
<1>2. Fresh({Manifest})
  BY <1>1, FreshAdd
<1>3. Manifest \in requiredEntries /\ Checksums # Manifest
  BY EntryNames
<1>4. /\ pc \in Unsummed /\ staged[<<"sessions">>].digest = Written(lines)
      /\ <<"sessions">> \in DOMAIN staged
  BY <1>1, RecordsStaged DEF Contents, Unsummed, Covered
<1>5. staged'[<<"sessions">>].digest = Written(lines)
  BY <1>2, <1>4, NamesApart DEF Fresh
<1>6. Conversations' /\ Faithful(OnDisk)' /\ Checksums \notin DOMAIN staged'
  BY <1>1, <1>2, <1>3, <1>4, ReportsContents
<1>7. QED
  BY <1>1, <1>5, <1>6 DEF Contents, Covered, Uncombined

LEMMA ChecksumsContents == ASSUME Contents, Typed, StageChecksums PROVE Contents'
<1>1. /\ pc = "checksums" /\ pc' = "strict" /\ UNCHANGED <<input, lines>>
      /\ staged' = staged ++ Add(Checksums, DigestsExcept({Checksums}), 0)
  BY DEF StageChecksums, Goto
<1>2. Fresh({Checksums}) /\ staged'[Checksums].digest = Written(DigestsExcept({Checksums}))
  BY <1>1, FreshAdd
<1>3. Recorded' = Recorded /\ Sorted' = Sorted /\ \A n : PathOf(n)' = PathOf(n)
  BY <1>1, SortedStays DEF Recorded, PathOf
<1>4. /\ Checksums \notin DOMAIN staged
      /\ Conversations /\ Faithful(OnDisk) /\ staged[<<"sessions">>].digest = Written(lines)
  BY <1>1 DEF Contents, Unsummed, Covered
<1>5. /\ DOMAIN staged' = DOMAIN staged \cup {Checksums}
      /\ \A name \in DOMAIN staged : staged'[name] = staged[name]
      /\ staged'[Checksums].disk = staged'[Checksums].digest
  BY <1>2, <1>4 DEF Fresh
<1>6. <<"sessions">> \in DOMAIN staged
  BY <1>1, RecordsStaged DEF Covered
<1>7. \A n \in 1..Recorded : PathOf(n) \in DOMAIN staged /\ staged'[PathOf(n)] = staged[PathOf(n)]
  BY <1>4, <1>5 DEF Conversations
<1>8. Conversations'
  BY <1>3, <1>4, <1>5, <1>7 DEF Conversations
<1>9. staged'[Checksums].disk.body = [name \in DOMAIN staged \ {Checksums} |-> staged[name].digest]
  BY <1>2, <1>5 DEF Written, DigestsExcept, DigestOf
<1>10. Combined \in DOMAIN staged' => Combined \in DOMAIN staged /\ staged'[Combined] = staged[Combined]
  BY <1>5, NamesApart, EntryNames
<1>11. Faithful(OnDisk)'
  <2>1. \A name \in DOMAIN staged' \ {Checksums} : staged'[name].disk.body = staged'[name].digest.body
    BY <1>4, <1>5 DEF Faithful, OnDisk
  <2>2. \A name \in DOMAIN staged'[Checksums].disk.body :
          name \in DOMAIN staged' /\ staged'[Checksums].disk.body[name] = staged'[name].digest
    BY <1>5, <1>9
  <2>3. Combined \in DOMAIN staged' =>
          \A n \in 1..Recorded :
            staged'[PathOf(n)].disk = staged'[PathOf(n)].digest =>
              staged'[Combined].digest.body[n] = staged'[PathOf(n)].digest
    <3>1. \A n \in 1..Recorded : OnDisk[PathOf(n)] = staged[PathOf(n)].disk
      BY <1>7 DEF OnDisk
    <3>2. QED
      BY <1>4, <1>7, <1>10, <3>1 DEF Faithful
  <2>4. Checksums \in DOMAIN staged' /\ \A n \in 1..Recorded : PathOf(n) \in DOMAIN staged'
    BY <1>5, <1>7
  <2>5. QED
    BY <1>3, <2>1, <2>2, <2>3, <2>4 DEF Faithful, OnDisk
<1>12. QED
  BY <1>1, <1>4, <1>5, <1>6, <1>8, <1>11 DEF Contents, Covered, Unsummed, Uncombined

\* A step that changes neither files nor texts, and goes where their being as they
\* are is enough.
LEMMA StillContents ==
  ASSUME Contents, UNCHANGED <<input, lines, staged, zip>>,
         pc' # "schemas", pc' \in Unsummed => pc \in Unsummed,
         pc' \in Uncombined => pc \in Uncombined, pc' \in Covered => pc \in Covered,
         pc' \in {"validate", "published"} => pc \in {"validate", "published"},
         pc' = "published" => Accepts(zip)
  PROVE  Contents'
<1>1. Recorded' = Recorded /\ Sorted' = Sorted /\ OnDisk' = OnDisk /\ \A n : PathOf(n)' = PathOf(n)
  BY SortedStays DEF Recorded, OnDisk, PathOf
<1>2. Conversations'
  BY <1>1 DEF Contents, Conversations
<1>3. Faithful(OnDisk)'
  BY <1>1 DEF Contents, Faithful
<1>4. pc' \in {"validate", "published"} => Faithful(zip)'
  BY <1>1 DEF Contents, Faithful
<1>5. pc' = "published" => Accepts(zip)'
  <2>1. Accepts(zip)' <=> Accepts(zip)
    BY DEF Accepts, ChecksumsMatch, reconcile, SessionsJSONL, TotalsReconcile, ReportsMatch, FilesMatch
  <2>2. QED
    BY <2>1
<1>6. QED
  BY <1>2, <1>3, <1>4, <1>5 DEF Contents

LEMMA UnchangedContents ==
  ASSUME Contents, UNCHANGED <<input, lines, staged, zip, pc>> PROVE Contents'
<1>1. CASE pc = "schemas"
  <2>1. Recorded' = Recorded /\ Sorted' = Sorted /\ OnDisk' = OnDisk /\ \A n : PathOf(n)' = PathOf(n)
    BY SortedStays DEF Recorded, OnDisk, PathOf
  <2>2. Conversations'
    BY <2>1 DEF Contents, Conversations
  <2>3. Faithful(OnDisk)'
    BY <2>1 DEF Contents, Faithful
  <2>4. QED
    BY <1>1, <2>2, <2>3 DEF Contents, Covered
<1>2. CASE pc # "schemas"
  <2>1. pc = "published" => Accepts(zip)
    BY DEF Contents
  <2>2. QED
    BY <1>2, <2>1, StillContents
<1>3. QED
  BY <1>1, <1>2

LEMMA ZIPContents == ASSUME Contents, WriteZIP PROVE Contents'
<1>1. pc = "zip" /\ pc' = "validate" /\ UNCHANGED <<input, lines, staged>> /\ zip' = OnDisk
  BY DEF WriteZIP, OnDisk, Goto
<1>2. Recorded' = Recorded /\ Sorted' = Sorted /\ OnDisk' = OnDisk /\ \A n : PathOf(n)' = PathOf(n)
  BY <1>1, SortedStays DEF Recorded, OnDisk, PathOf
<1>3. Conversations'
  BY <1>1, <1>2 DEF Contents, Conversations
<1>4. Faithful(OnDisk)' /\ Faithful(zip)'
  BY <1>1, <1>2 DEF Contents, Faithful
<1>5. QED
  BY <1>1, <1>3, <1>4 DEF Contents, Covered, Unsummed, Uncombined

LEMMA DamageContents ==
  ASSUME Contents, Typed, NEW damaged \in DOMAIN staged, Damage(damaged)
  PROVE  Contents'
<1>1. UNCHANGED <<input, lines, pc, zip>>
  BY DEF Damage
<1>2. /\ DOMAIN staged' = DOMAIN staged
      /\ \A other \in DOMAIN staged \ {damaged} : staged'[other] = staged[other]
  BY Damaged DEF Typed
<1>3. PICK file \in Spoiled(damaged) :
        staged'[damaged] = [disk |-> file, digest |-> staged[damaged].digest,
                            size |-> staged[damaged].size]
  BY Damaged DEF Typed
<1>4. staged'[damaged].disk = file /\ staged'[damaged].digest = staged[damaged].digest
  BY <1>3
<1>5. \A name \in DOMAIN staged : staged'[name].digest = staged[name].digest
  BY <1>2, <1>4
<1>6. Recorded' = Recorded /\ Sorted' = Sorted /\ \A n : PathOf(n)' = PathOf(n)
  BY <1>1, SortedStays DEF Recorded, PathOf
<1>7. Conversations /\ Faithful(OnDisk)
  BY DEF Contents
<1>8. Conversations'
  BY <1>2, <1>5, <1>6, <1>7 DEF Conversations
<1>9. pc' \in {"validate", "published"} => Faithful(zip)'
  <2>1. pc' \in {"validate", "published"} => Faithful(zip)
    BY <1>1 DEF Contents
  <2>2. \A n \in 1..Recorded : PathOf(n) \in DOMAIN staged
    BY <1>7 DEF Conversations
  <2>3. QED
    BY <1>1, <1>2, <1>5, <1>6, <2>1, <2>2 DEF Faithful
<1>10. CASE damaged # Checksums
  <2>1. file.body = staged[damaged].disk.body /\ file.intact = FALSE
    BY <1>10 DEF Spoiled
  <2>2. \A name \in DOMAIN staged : staged'[name].disk.body = staged[name].disk.body
    BY <1>2, <1>4, <2>1
  <2>3. Checksums \in DOMAIN staged => staged'[Checksums] = staged[Checksums]
    BY <1>2, <1>10
  <2>4. file # staged[damaged].digest
    <3>1. staged[damaged].digest.intact = TRUE
      <4>1. PICK disk, body : \E size \in Nat :
              staged[damaged] = [disk |-> disk, digest |-> Written(body), size |-> size]
        BY DEF Typed, Entries, Entry
      <4>2. QED
        BY <4>1 DEF Written
    <3>2. QED
      BY <2>1, <3>1
  <2>5. \A n \in 1..Recorded : PathOf(n) \in DOMAIN staged
    BY <1>7 DEF Conversations
  <2>6. \A n \in 1..Recorded :
          staged'[PathOf(n)].disk = staged'[PathOf(n)].digest =>
            staged[PathOf(n)].disk = staged[PathOf(n)].digest
    BY <1>2, <1>4, <2>4, <2>5
  <2>7. Combined \in DOMAIN staged =>
          \A n \in 1..Recorded :
            staged[PathOf(n)].disk = staged[PathOf(n)].digest =>
              staged[Combined].digest.body[n] = staged[PathOf(n)].digest
    BY <1>7, <2>5 DEF Faithful, OnDisk
  <2>8. Faithful(OnDisk)'
    <3>1. \A name \in DOMAIN staged \ {Checksums} : staged'[name].disk.body = staged'[name].digest.body
      BY <1>5, <1>7, <2>2 DEF Faithful, OnDisk
    <3>2. Checksums \in DOMAIN staged =>
            \A name \in DOMAIN staged'[Checksums].disk.body :
              name \in DOMAIN staged /\ staged'[Checksums].disk.body[name] = staged'[name].digest
      BY <1>5, <1>7, <2>3 DEF Faithful, OnDisk
    <3>3. Combined \in DOMAIN staged =>
            \A n \in 1..Recorded :
              staged'[PathOf(n)].disk = staged'[PathOf(n)].digest =>
                staged'[Combined].digest.body[n] = staged'[PathOf(n)].digest
      BY <1>5, <2>5, <2>6, <2>7
    <3>4. QED
      BY <1>2, <1>6, <2>5, <3>1, <3>2, <3>3 DEF Faithful, OnDisk
  <2>9. QED
    BY <1>1, <1>2, <1>5, <1>8, <1>9, <2>8, RecordsStaged DEF Contents
<1>11. CASE damaged = Checksums
  <2> DEFINE body == staged[Checksums].disk.body
  <2>1. PICK line \in DOMAIN body : file = Written([n \in DOMAIN body \ {line} |-> body[n]])
    BY <1>11 DEF Spoiled
  <2>2. /\ DOMAIN file.body \subseteq DOMAIN body
        /\ \A name \in DOMAIN file.body : file.body[name] = body[name]
    BY <2>1 DEF Written
  <2>3. \A n \in 1..Recorded : PathOf(n) \in DOMAIN staged /\ PathOf(n) # Checksums
    BY <1>7, PathsApart, EntryNames DEF Conversations, PathOf
  <2>4. Faithful(OnDisk)'
    <3>1. \A name \in DOMAIN staged \ {Checksums} : staged'[name].disk.body = staged'[name].digest.body
      BY <1>2, <1>7, <1>11 DEF Faithful, OnDisk
    <3>2. \A name \in DOMAIN staged'[Checksums].disk.body :
            name \in DOMAIN staged /\ staged'[Checksums].disk.body[name] = staged'[name].digest
      <4>1. \A name \in DOMAIN body : name \in DOMAIN staged /\ body[name] = staged[name].digest
        BY <1>7, <1>11 DEF Faithful, OnDisk
      <4> HIDE DEF body
      <4>2. QED
        BY <1>4, <1>5, <1>11, <2>2, <4>1
    <3>3. Combined \in DOMAIN staged =>
            \A n \in 1..Recorded :
              staged'[PathOf(n)].disk = staged'[PathOf(n)].digest =>
                staged'[Combined].digest.body[n] = staged'[PathOf(n)].digest
      <4>1. \A n \in 1..Recorded : staged'[PathOf(n)] = staged[PathOf(n)]
        BY <1>2, <1>11, <2>3
      <4>2. QED
        BY <1>5, <1>7, <2>3, <4>1 DEF Faithful, OnDisk
    <3>4. QED
      BY <1>2, <1>6, <2>3, <3>1, <3>2, <3>3 DEF Faithful, OnDisk
  <2>5. QED
    BY <1>1, <1>2, <1>5, <1>8, <1>9, <2>4, RecordsStaged DEF Contents
<1>12. QED
  BY <1>10, <1>11

LEMMA NextContents == Typed /\ Contents /\ [Next]_vars => Contents'
<1> SUFFICES ASSUME Typed, Contents, [Next]_vars PROVE Contents'
  OBVIOUS
<1>1. CASE StageSchemas
  BY <1>1, SchemasContents
<1>2. CASE StageSession
  BY <1>2, SessionContents
<1>3. CASE StageReports
  BY <1>3, ReportsAreContents
<1>4. CASE StageCombined
  BY <1>4, CombinedContents
<1>5. CASE OmitCombined
  BY <1>5, OmittedContents
<1>6. CASE StageManifest
  BY <1>6, ManifestContents
<1>7. CASE StageChecksums
  BY <1>7, ChecksumsContents
<1>8. CASE WriteZIP
  BY <1>8, ZIPContents
<1>9. CASE StageSessionRefused \/ StopsCancelled \/ Fails \/ Cancel
  <2>1. UNCHANGED <<input, lines, staged, zip>> /\ (pc' = pc \/ pc' = "failed")
    BY <1>9 DEF StageSessionRefused, StopsCancelled, Fails, Cancel, Goto
  <2>2. CASE pc' = "failed"
    BY <2>1, <2>2, StillContents DEF Unsummed, Uncombined, Covered
  <2>3. CASE pc' = pc
    BY <2>1, <2>3, UnchangedContents
  <2>4. QED
    BY <2>1, <2>2, <2>3
<1>10. CASE SkipCombined
  <2>1. UNCHANGED <<input, lines, staged, zip>> /\ pc = "combined" /\ pc' = "manifest"
    BY <1>10 DEF SkipCombined, Goto
  <2>2. QED
    BY <2>1, StillContents DEF Unsummed, Uncombined, Covered
<1>11. CASE CheckStrict
  <2>1. /\ UNCHANGED <<input, lines, staged, zip>> /\ pc = "strict"
        /\ pc' = "zip" \/ pc' = "incomplete"
    BY <1>11 DEF CheckStrict, Goto
  <2>2. QED
    BY <2>1, StillContents DEF Unsummed, Uncombined, Covered
<1>12. CASE Validate
  <2>1. /\ UNCHANGED <<input, lines, staged, zip>> /\ pc = "validate"
        /\ pc' = "failed" \/ (pc' = "published" /\ Accepts(zip))
    BY <1>12 DEF Validate, Goto
  <2>2. QED
    BY <2>1, StillContents DEF Unsummed, Uncombined, Covered
<1>13. ASSUME NEW name \in DOMAIN staged, Damage(name) PROVE Contents'
  BY <1>13, DamageContents
<1>14. CASE UNCHANGED vars
  BY <1>14, UnchangedContents DEF vars
<1>15. QED
  BY <1>1, <1>2, <1>3, <1>4, <1>5, <1>6, <1>7, <1>8, <1>9, <1>10, <1>11, <1>12, <1>13, <1>14
  DEF Next, Stage

LEMMA InitContents == Init => Contents
<1> SUFFICES ASSUME Init PROVE Contents
  OBVIOUS
<1>1. pc = "schemas" /\ DOMAIN staged = {} /\ lines = <<>>
  BY DEF Init
<1>2. Recorded = 0
  <2>1. SessionLines(lines) = {}
    BY <1>1 DEF SessionLines
  <2>2. QED
    BY <2>1, FS_EmptySet DEF Recorded
<1>3. Conversations /\ Faithful(OnDisk)
  BY <1>1, <1>2 DEF Conversations, Faithful, OnDisk
<1>4. QED
  BY <1>1, <1>3 DEF Contents, Covered

LEMMA AlwaysContents == Spec => [](Typed /\ Contents)
<1>1. Init => Typed /\ Contents
  BY InitTyped, InitContents
<1>2. (Typed /\ Contents) /\ [Next]_vars => (Typed /\ Contents)'
  BY NextTyped, NextContents
<1>3. Init /\ [][Next]_vars => [](Typed /\ Contents)
  BY <1>1, <1>2, PTL
<1>4. QED
  BY <1>3, PTL DEF Spec

(***************************************************************************)
(* The sizes that the estimate adds up, and the copies in the combined      *)
(* file.                                                                    *)
(***************************************************************************)

Copies == staged[Combined].digest.body

Measured ==
  /\ \A n \in 1..Recorded :
       staged[PathOf(n)].size = Len(WriteSession(Sorted[n].events))
  /\ Combined \in DOMAIN staged => Copies = [n \in 1..Recorded |-> Copies[n]]

\* The steps that stage or damage no file.
LEMMA OthersStageNothing ==
  [Next]_vars =>
    \/ StageSchemas \/ StageSession \/ StageReports \/ StageCombined \/ OmitCombined
    \/ StageManifest \/ StageChecksums \/ \E name \in DOMAIN staged : Damage(name)
    \/ UNCHANGED <<input, lines, staged>>
<1> SUFFICES ASSUME [Next]_vars,
                    StageSessionRefused \/ SkipCombined \/ CheckStrict \/ WriteZIP \/ Validate
                      \/ Fails \/ Cancel \/ StopsCancelled \/ UNCHANGED vars
             PROVE  UNCHANGED <<input, lines, staged>>
  BY DEF Next, Stage
<1>1. CASE StageSessionRefused \/ SkipCombined
  BY <1>1 DEF StageSessionRefused, SkipCombined, Goto
<1>2. CASE CheckStrict \/ WriteZIP \/ Validate
  BY <1>2 DEF CheckStrict, WriteZIP, Validate, Goto
<1>3. CASE Fails \/ Cancel \/ StopsCancelled
  BY <1>3 DEF Fails, Cancel, StopsCancelled, Goto
<1>4. CASE UNCHANGED vars
  BY <1>4 DEF vars
<1>5. QED
  BY <1>1, <1>2, <1>3, <1>4

LEMMA StaysMeasured ==
  ASSUME Measured, UNCHANGED <<input, lines>>,
         \A n \in 1..Recorded : staged'[PathOf(n)].size = staged[PathOf(n)].size,
         Combined \in DOMAIN staged' =>
           Combined \in DOMAIN staged /\ staged'[Combined].digest = staged[Combined].digest
  PROVE  Measured'
<1>1. Recorded' = Recorded /\ Sorted' = Sorted /\ \A n : PathOf(n)' = PathOf(n)
  BY SortedStays DEF Recorded, PathOf
<1>2. \A n \in 1..Recorded : staged'[PathOf(n)].size = Len(WriteSession(Sorted[n].events))
  BY DEF Measured
<1>3. Combined \in DOMAIN staged' => Copies' = [n \in 1..Recorded |-> Copies'[n]]
  <2>1. Combined \in DOMAIN staged' => Copies' = Copies /\ Combined \in DOMAIN staged
    BY DEF Copies
  <2>2. QED
    BY <2>1 DEF Measured
<1>4. QED
  BY <1>1, <1>2, <1>3 DEF Measured

LEMMA FreshMeasured ==
  ASSUME Measured, Conversations, UNCHANGED <<input, lines>>, NEW names \in SUBSET requiredEntries,
         Fresh(names)
  PROVE  Measured'
<1>1. \A n \in 1..Recorded : PathOf(n) \in DOMAIN staged /\ PathOf(n) \notin names
  BY PathsApart DEF Conversations, PathOf
<1>2. Combined \notin names
  BY NamesApart
<1>3. QED
  BY <1>1, <1>2, StaysMeasured DEF Fresh

LEMMA NextMeasured == Typed /\ Contents /\ Measured /\ [Next]_vars => Measured'
<1> SUFFICES ASSUME Typed, Contents, Measured, [Next]_vars PROVE Measured'
  OBVIOUS
<1>0. Conversations
  BY DEF Contents
<1>1. CASE StageSchemas
  <2>1. Fresh(Schemas) /\ UNCHANGED <<input, lines>> /\ Schemas \in SUBSET requiredEntries
    BY <1>1, SchemasFresh, EntryNames DEF StageSchemas, Goto, Contents
  <2>2. QED
    BY <1>0, <2>1, FreshMeasured
<1>2. CASE StageSession
  <2> DEFINE new == SessionPath(NextSession)
             text == WriteSession(NextSession.events)
  <2>1. /\ pc = "sessions" /\ input' = input /\ MoreSessions /\ new \notin DOMAIN staged
        /\ staged' = staged ++ Add(new, text, Len(text))
    BY <1>2 DEF StageSession, Goto, Collides
  <2>2. /\ Recorded' = Recorded + 1 /\ Recorded \in Nat /\ NextSession = Sorted[Recorded + 1]
        /\ Sorted' = Sorted
    BY <1>2, <2>1, SessionRecorded, NextIsSession, SortedStays DEF Typed, Layout
  <2>3. /\ DOMAIN staged' = DOMAIN staged \cup {new}
        /\ \A name \in DOMAIN staged : staged'[name] = staged[name]
        /\ staged'[new].size = Len(text)
    <3>1. DOMAIN Add(new, text, Len(text)) = {new} /\ Add(new, text, Len(text))[new].size = Len(text)
      BY DEF Add
    <3> DEFINE added == Add(new, text, Len(text))
    <3> HIDE DEF added, new, text
    <3>2. /\ DOMAIN (staged ++ added) = DOMAIN staged \cup DOMAIN added
          /\ \A name \in DOMAIN added : (staged ++ added)[name] = added[name]
          /\ \A name \in DOMAIN staged : name \notin DOMAIN added => (staged ++ added)[name] = staged[name]
      BY Merged
    <3>3. staged' = staged ++ added /\ DOMAIN added = {new} /\ added[new].size = Len(text)
      BY <2>1, <3>1 DEF added
    <3>4. QED
      BY <2>1, <3>2, <3>3
  <2>4. new # Combined /\ Combined \notin DOMAIN staged
    BY <2>1, PathsApart DEF Contents, Uncombined
  <2>5. \A n \in 1..(Recorded + 1) : n \in 1..Recorded \/ n = Recorded + 1
    BY <2>2
  <2>6. \A n : PathOf(n)' = PathOf(n)
    BY <2>2 DEF PathOf
  <2>7. \A n \in 1..(Recorded + 1) : staged'[PathOf(n)].size = Len(WriteSession(Sorted[n].events))
    <3>1. \A n \in 1..Recorded : staged'[PathOf(n)].size = Len(WriteSession(Sorted[n].events))
      BY <1>0, <2>3 DEF Conversations, Measured
    <3>2. staged'[PathOf(Recorded + 1)].size = Len(WriteSession(Sorted[Recorded + 1].events))
      BY <2>2, <2>3 DEF PathOf
    <3>3. QED
      BY <2>5, <3>1, <3>2
  <2>8. Combined \notin DOMAIN staged'
    BY <2>3, <2>4
  <2>9. QED
    BY <2>2, <2>6, <2>7, <2>8 DEF Measured
<1>3. CASE StageReports
  <2>1. /\ Fresh(ReportNames \cup RecordNames) /\ UNCHANGED <<input, lines>>
        /\ ReportNames \cup RecordNames \in SUBSET requiredEntries
    BY <1>3, ReportsWritten, EntryNames DEF StageReports, Goto, Typed
  <2>2. QED
    BY <1>0, <2>1, FreshMeasured
<1>4. CASE StageCombined
  <2>1. /\ pc = "combined" /\ UNCHANGED <<input, lines>> /\ staged' = staged ++ Add(Combined, Copied, 0)
    BY <1>4 DEF StageCombined, Goto
  <2>2. Fresh({Combined}) /\ staged'[Combined].digest = Written(Copied)
    BY <2>1, FreshAdd
  <2>3. Recorded' = Recorded /\ Sorted' = Sorted /\ \A n : PathOf(n)' = PathOf(n)
    BY <2>1, SortedStays DEF Recorded, PathOf
  <2>4. DOMAIN Sorted = 1..Recorded
    BY <2>1, SortedTypes DEF Typed, Layout, Covered
  <2>5. Copied = [n \in 1..Recorded |-> Copied[n]]
    BY <2>4 DEF Copied
  <2>6. Copies' = Copied
    BY <2>2 DEF Copies, Written
  <2>7. \A n \in 1..Recorded : staged'[PathOf(n)] = staged[PathOf(n)]
    BY <1>0, <2>2, PathsApart DEF Conversations, Fresh, PathOf
  <2>8. QED
    BY <2>3, <2>5, <2>6, <2>7 DEF Measured
<1>5. CASE OmitCombined
  <2>1. Fresh({<<"README">>, <<"SUMMARY">>}) /\ UNCHANGED <<input, lines>>
    BY <1>5, OmittedWritten DEF OmitCombined, Goto
  <2>2. {<<"README">>, <<"SUMMARY">>} \in SUBSET requiredEntries
    BY EntryNames DEF ReportNames
  <2>3. QED
    BY <1>0, <2>1, <2>2, FreshMeasured
<1>6. CASE StageManifest
  <2>1. UNCHANGED <<input, lines>> /\ staged' = staged ++ Add(Manifest, manifest', 0)
    BY <1>6 DEF StageManifest, Goto
  <2>2. Fresh({Manifest}) /\ {Manifest} \in SUBSET requiredEntries
    BY <2>1, FreshAdd, EntryNames
  <2>3. QED
    BY <1>0, <2>1, <2>2, FreshMeasured
<1>7. CASE StageChecksums
  <2>1. UNCHANGED <<input, lines>> /\ staged' = staged ++ Add(Checksums, DigestsExcept({Checksums}), 0)
    BY <1>7 DEF StageChecksums, Goto
  <2>2. Fresh({Checksums}) /\ {Checksums} \in SUBSET requiredEntries
    BY <2>1, FreshAdd, EntryNames
  <2>3. QED
    BY <1>0, <2>1, <2>2, FreshMeasured
<1>8. ASSUME NEW damaged \in DOMAIN staged, Damage(damaged) PROVE Measured'
  <2>1. /\ DOMAIN staged' = DOMAIN staged /\ UNCHANGED <<input, lines>>
        /\ \A name \in DOMAIN staged :
             staged'[name].digest = staged[name].digest /\ staged'[name].size = staged[name].size
    <3>1. \A other \in DOMAIN staged \ {damaged} : staged'[other] = staged[other]
      BY <1>8, Damaged DEF Typed
    <3>2. \E file : staged'[damaged] = [disk |-> file, digest |-> staged[damaged].digest,
                                        size |-> staged[damaged].size]
      BY <1>8, Damaged DEF Typed
    <3>3. staged'[damaged].digest = staged[damaged].digest /\ staged'[damaged].size = staged[damaged].size
      BY <3>2
    <3>4. DOMAIN staged' = DOMAIN staged /\ UNCHANGED <<input, lines>>
      BY <1>8, Damaged DEF Typed, Damage
    <3>5. QED
      BY <3>1, <3>3, <3>4
  <2>2. \A n \in 1..Recorded : PathOf(n) \in DOMAIN staged
    BY <1>0 DEF Conversations
  <2>3. QED
    BY <2>1, <2>2, StaysMeasured
<1>9. CASE UNCHANGED <<input, lines, staged>>
  BY <1>9, StaysMeasured
<1>10. QED
  BY <1>1, <1>2, <1>3, <1>4, <1>5, <1>6, <1>7, <1>8, <1>9, OthersStageNothing

LEMMA InitMeasured == Init => Measured
<1> SUFFICES ASSUME Init PROVE Measured
  OBVIOUS
<1>1. SessionLines(lines) = {} /\ DOMAIN staged = {}
  BY DEF Init, SessionLines
<1>2. Recorded = 0
  BY <1>1, FS_EmptySet DEF Recorded
<1>3. QED
  BY <1>1, <1>2 DEF Measured

Kept == Typed /\ Contents /\ Measured

LEMMA AlwaysKept == Spec => []Kept
<1>1. Init => Kept
  BY InitTyped, InitContents, InitMeasured DEF Kept
<1>2. Kept /\ [Next]_vars => Kept'
  BY NextTyped, NextContents, NextMeasured DEF Kept
<1>3. Init /\ [][Next]_vars => []Kept
  BY <1>1, <1>2, PTL
<1>4. QED
  BY <1>3, PTL DEF Spec

(***************************************************************************)
(* What is in a published archive.                                          *)
(***************************************************************************)

\* The checks compare each file with its digest, so what is in the archive is what
\* was written when it was staged.
LEMMA PublishedIsStaged ==
  ASSUME Kept, pc = "published"
  PROVE  /\ DOMAIN zip = DOMAIN staged
         /\ \A name \in DOMAIN staged \ {Checksums} : zip[name] = staged[name].digest
         /\ zip[<<"sessions">>] = Written(lines)
         /\ SessionsJSONL(lines)
<1>1. Accepts(zip) /\ Faithful(zip) /\ staged[<<"sessions">>].digest = Written(lines)
  BY DEF Kept, Contents, Covered
<1>2. DOMAIN zip = DOMAIN staged
  BY <1>1 DEF Faithful
<1>3. /\ Checksums \in DOMAIN zip
      /\ DOMAIN zip[Checksums].body = DOMAIN zip \ {Checksums}
      /\ \A name \in DOMAIN zip[Checksums].body : zip[Checksums].body[name] = zip[name]
  <2>1. Checksums \in requiredEntries
    BY EntryNames
  <2>2. QED
    BY <1>1, <2>1 DEF Accepts, ChecksumsMatch
<1>4. ASSUME NEW name \in DOMAIN staged \ {Checksums} PROVE zip[name] = staged[name].digest
  <2>1. name \in DOMAIN zip[Checksums].body
    BY <1>2, <1>3
  <2>2. zip[Checksums].body[name] = staged[name].digest
    BY <1>1, <1>2, <1>3, <2>1 DEF Faithful
  <2>3. QED
    BY <1>3, <2>1, <2>2
<1>5. zip[<<"sessions">>] = Written(lines)
  <2>1. <<"sessions">> \in DOMAIN staged /\ <<"sessions">> # Checksums
    BY RecordsStaged, NamesApart DEF Kept, Covered
  <2>2. QED
    BY <1>1, <1>4, <2>1
<1>6. SessionsJSONL(lines)
  <2>1. SessionsJSONL(zip[<<"sessions">>].body)
    BY <1>1 DEF Accepts, reconcile
  <2>2. zip[<<"sessions">>].body = lines
    BY <1>5 DEF Written
  <2>3. QED
    BY <2>1, <2>2
<1>7. QED
  BY <1>2, <1>4, <1>5, <1>6

\* The lines between two sessions' are the events of the first.
LEMMA GroupIsSession ==
  ASSUME NEW text \in Seq(Lines), NEW sorted, NEW k \in Nat, NEW start,
         Blocks(text, sorted, k, start), NEW n \in 1..k, sorted[n] \in Sessions
  PROVE  /\ start[n] \in SessionLines(text) /\ text[start[n]] = usageSession(sorted[n])
         /\ Group(text, start[n]) = EventsText(sorted[n])
<1> DEFINE i == start[n]
           next == start[n + 1]
           events == sorted[n].events
           N == Len(events)
           end == {j \in SessionLines(text) : j > i} \cup {Len(text) + 1}
<1>1. /\ i \in SessionLines(text) /\ text[i] = usageSession(sorted[n])
      /\ next = i + N + 1
      /\ \A e \in 1..N : text[i + e] = usageEvent(events[e])
  BY DEF Blocks
<1>2. i \in 1..Len(text) /\ next \in Nat /\ N \in Nat /\ Len(text) \in Nat
  BY BlocksWithin, SessionTypes
<1>3. Min(end) = next
  <2>1. next \in end
    <3>1. CASE n = k
      BY <3>1 DEF Blocks
    <3>2. CASE n < k
      <4>1. n + 1 \in 1..k /\ n \in 1..(k + 1) /\ n + 1 \in 1..(k + 1) /\ n < n + 1
        BY <3>2
      <4>2. next \in SessionLines(text) /\ i < next
        BY <4>1 DEF Blocks
      <4>3. QED
        BY <1>2, <4>2
    <3>3. QED
      BY <3>1, <3>2
  <2>2. ASSUME NEW j \in end PROVE j \in Nat /\ next <= j
    <3>1. CASE j = Len(text) + 1
      <4>1. n + 1 = k + 1 \/ n + 1 < k + 1
        OBVIOUS
      <4>2. n + 1 \in 1..(k + 1) /\ k + 1 \in 1..(k + 1)
        OBVIOUS
      <4>3. next = start[k + 1] \/ next < start[k + 1]
        BY <4>1, <4>2 DEF Blocks
      <4>4. start[k + 1] = Len(text) + 1
        BY DEF Blocks
      <4>5. QED
        BY <1>2, <3>1, <4>3, <4>4
    <3>2. CASE j \in SessionLines(text) /\ j > i
      <4>1. PICK m \in 1..k : j = start[m]
        BY <3>2 DEF Blocks
      <4>2. m \in 1..(k + 1) /\ n \in 1..(k + 1) /\ n + 1 \in 1..(k + 1)
        OBVIOUS
      <4>3. j \in Nat
        BY <4>1, <4>2 DEF Blocks
      <4>4. ~(m < n) /\ m # n
        <5>1. m < n => start[m] < start[n]
          BY <4>2 DEF Blocks
        <5>2. QED
          BY <1>2, <3>2, <4>1, <4>3, <5>1
      <4>5. m = n + 1 \/ n + 1 < m
        BY <4>4
      <4>6. next = j \/ next < j
        BY <4>1, <4>2, <4>5 DEF Blocks
      <4>7. QED
        BY <1>2, <4>3, <4>6
    <3>3. QED
      BY <3>1, <3>2
  <2> HIDE DEF end, next
  <2>3. \A x \in end : (\A y \in end : x <= y) <=> x = next
    BY <1>2, <2>1, <2>2
  <2>4. QED
    BY <2>1, <2>3 DEF Min
<1>4. Group(text, i) = SubSeq(text, i + 1, next - 1)
  BY <1>3 DEF Group
<1>5. next - 1 = i + N
  BY <1>1, <1>2, SMTT(30)
<1>6. ASSUME NEW e \in 1..N PROVE i + e \in 1..Len(text)
  BY BlocksWithin
<1> HIDE DEF i, next, N, end, events
<1>7. /\ SubSeq(text, i + 1, i + N) \in Seq(Lines)
      /\ Len(SubSeq(text, i + 1, i + N)) = N
      /\ \A e \in 1..N : SubSeq(text, i + 1, i + N)[e] = text[i + e]
  <2>1. i + 1 \in Int /\ i + N \in Int /\ (i + N) - (i + 1) + 1 = N
        /\ (i + 1 <= i + N \/ N = 0)
    BY <1>2
  <2>2. \A j \in (i + 1)..(i + N) : text[j] \in Lines
    <3>1. \A j \in (i + 1)..(i + N) : j - i \in 1..N /\ i + (j - i) = j
      BY <1>2
    <3>2. \A j \in (i + 1)..(i + N) : j \in 1..Len(text)
      BY <1>6, <3>1
    <3>3. QED
      BY <3>2
  <2>3. /\ SubSeq(text, i + 1, i + N) \in Seq(Lines)
        /\ Len(SubSeq(text, i + 1, i + N)) = IF i + 1 <= i + N THEN (i + N) - (i + 1) + 1 ELSE 0
        /\ \A e \in 1..((i + N) - (i + 1) + 1) :
             SubSeq(text, i + 1, i + N)[e] = text[(i + 1) + e - 1]
    BY <2>1, <2>2, SubSeqProperties
  <2>4. \A e \in 1..N : (i + 1) + e - 1 = i + e
    BY <1>2
  <2>5. IF i + 1 <= i + N THEN N = N ELSE N = 0
    BY <1>2, <2>1
  <2>6. QED
    BY <1>2, <2>1, <2>3, <2>4, <2>5
<1>8. EventsText(sorted[n]) = [e \in 1..N |-> text[i + e]]
  <2>1. DOMAIN events = 1..N
    BY SessionTypes DEF events, N
  <2>2. QED
    BY <1>1, <2>1 DEF EventsText, events
<1>9. SubSeq(text, i + 1, i + N) = [e \in 1..N |-> text[i + e]]
  BY <1>2, <1>7
<1>10. QED
  BY <1>1, <1>4, <1>5, <1>8, <1>9 DEF i

(***************************************************************************)
(* What the checks accept adds up.                                          *)
(***************************************************************************)

LEMMA EventLineIs ==
  ASSUME NEW event
  PROVE  /\ usageEvent(event).id = event.id /\ usageEvent(event).session = event.session
         /\ usageEvent(event).sequence = event.sequence /\ usageEvent(event).type = event.type
         /\ usageEvent(event).text = event.text
         /\ usageEvent(event).truncations = event.truncations
BY DEF usageEvent

LEMMA SessionLineIs ==
  ASSUME NEW session
  PROVE  /\ usageSession(session).id = session.id
         /\ usageSession(session).harness = session.harness
         /\ usageSession(session).counts = session.counts
         /\ usageSession(session).integrity = session.integrity
BY DEF usageSession

\* The counts of a session's lines are those of its events.
LEMMA CountsOfText ==
  ASSUME NEW session \in Sessions
  PROVE  /\ \A type : OfType(EventsText(session), type) = OfType(session.events, type)
         /\ CountsOf(EventsText(session)) =
              [events |-> Len(session.events),
               user |-> Cardinality(OfType(session.events, "user")),
               assistant |-> Cardinality(OfType(session.events, "assistant"))]
<1> DEFINE text == EventsText(session)
           events == session.events
<1>1. /\ text = [e \in DOMAIN events |-> usageEvent(events[e])]
      /\ Len(text) = Len(events)
  BY EventsTextIs DEF EventsText
<1>2. \A e \in DOMAIN events : text[e].type = events[e].type
  BY <1>1, EventLineIs
<1>3. DOMAIN text = DOMAIN events
  BY <1>1
<1> HIDE DEF text, events
<1>4. ASSUME NEW type PROVE OfType(text, type) = OfType(events, type)
  BY <1>2, <1>3 DEF OfType
<1>5. CountsOf(text) = [events |-> Len(events), user |-> Cardinality(OfType(events, "user")),
                        assistant |-> Cardinality(OfType(events, "assistant"))]
  BY <1>1, <1>4 DEF CountsOf
<1>6. QED
  BY <1>4, <1>5 DEF text, events

\* A session whose lines are accepted adds up.
LEMMA AcceptedIsSound ==
  ASSUME NEW session \in Sessions, ~Strays(session),
         GroupAccepted(usageSession(session), EventsText(session)),
         session.counts = CountsOf(EventsText(session))
  PROVE  SoundSession(session)
<1> DEFINE text == EventsText(session)
           events == session.events
           N == Len(events)
<1>1. N \in Nat /\ DOMAIN events = 1..N /\ events \in Seq(Events)
  BY SessionTypes
<1>2. /\ DOMAIN text = 1..N
      /\ \A e \in 1..N : /\ text[e].id = events[e].id /\ text[e].type = events[e].type
                         /\ text[e].sequence = events[e].sequence
  BY <1>1, EventLineIs DEF EventsText
<1>3. session.counts = [events |-> N, user |-> Cardinality(OfType(events, "user")),
                        assistant |-> Cardinality(OfType(events, "assistant"))]
  BY CountsOfText
<1>4. /\ \A e \in DOMAIN text : text[e].type \in UsageTypes /\ text[e].sequence >= 0
      /\ \A d, e \in DOMAIN text :
           d < e => text[d].sequence < text[e].sequence /\ text[d].id # text[e].id
  BY DEF GroupAccepted
<1> HIDE DEF text, N
<1>5. DOMAIN events = OfType(events, "user") \cup OfType(events, "assistant")
  BY <1>1, <1>2, <1>4 DEF OfType, UsageTypes
<1>6. \A e \in DOMAIN events : events[e].session = session.id /\ events[e].sequence >= 0
  BY <1>1, <1>2, <1>4 DEF Strays
<1>7. Cardinality({events[e].id : e \in 1..N}) = N
  <2> DEFINE id == [e \in 1..N |-> events[e].id]
  <2>1. \A d, e \in 1..N : id[d] = id[e] => d = e
    <3> SUFFICES ASSUME NEW d \in 1..N, NEW e \in 1..N, id[d] = id[e], d # e PROVE FALSE
      OBVIOUS
    <3>1. d < e \/ e < d
      BY <1>1
    <3>2. text[d].id = text[e].id
      BY <1>2
    <3>3. QED
      BY <1>2, <1>4, <3>1, <3>2
  <2>2. {events[e].id : e \in 1..N} = {id[e] : e \in 1..N}
    OBVIOUS
  <2> HIDE DEF id
  <2>3. Cardinality({id[e] : e \in 1..N}) = N
    BY <1>1, <2>1, CountsDistinct
  <2>4. QED
    BY <2>2, <2>3
<1>8. \A e \in 2..N : events[e - 1].sequence < events[e].sequence
  <2> SUFFICES ASSUME NEW e \in 2..N PROVE events[e - 1].sequence < events[e].sequence
    OBVIOUS
  <2>1. e - 1 \in 1..N /\ e \in 1..N /\ e - 1 < e
    BY <1>1
  <2>2. QED
    BY <1>2, <1>4, <2>1
<1>9. QED
  BY <1>1, <1>3, <1>5, <1>6, <1>7, <1>8 DEF SoundSession, N

\* All sessions are in the text, each accepted and none twice.
LEMMA RecordsAreSound ==
  ASSUME Layout, pc \in Covered, SessionsJSONL(lines)
  PROVE  /\ \A n \in 1..Len(input.sessions) : SoundSession(Sorted[n])
         /\ \A m, n \in 1..Len(input.sessions) : Sorted[m].id = Sorted[n].id => m = n
<1> DEFINE N == Len(input.sessions)
<1>1. /\ input \in Inputs /\ N \in Nat /\ Recorded = N /\ lines \in Seq(Lines)
      /\ \A n \in 1..N : Sorted[n] \in Sessions /\ ~Strays(Sorted[n])
  BY InputTypes, SortedTypes DEF Layout
<1>2. PICK start : Blocks(lines, Sorted, N, start)
  BY <1>1 DEF Layout
<1> HIDE DEF N
<1>3. ASSUME NEW n \in 1..N PROVE SoundSession(Sorted[n])
  <2>1. /\ start[n] \in SessionLines(lines) /\ lines[start[n]] = usageSession(Sorted[n])
        /\ Group(lines, start[n]) = EventsText(Sorted[n])
    BY <1>1, <1>2, GroupIsSession
  <2>2. GroupAccepted(lines[start[n]], Group(lines, start[n])) /\ Finished(lines, start[n])
    BY <2>1 DEF SessionsJSONL
  <2>3. GroupAccepted(usageSession(Sorted[n]), EventsText(Sorted[n]))
    BY <2>1, <2>2
  <2>4. Sorted[n].counts = CountsOf(EventsText(Sorted[n]))
    BY <2>1, <2>2, SessionLineIs DEF Finished
  <2>5. QED
    BY <1>1, <2>3, <2>4, AcceptedIsSound
<1>4. ASSUME NEW m \in 1..N, NEW n \in 1..N, Sorted[m].id = Sorted[n].id PROVE m = n
  <2>1. /\ start[m] \in SessionLines(lines) /\ lines[start[m]] = usageSession(Sorted[m])
        /\ start[n] \in SessionLines(lines) /\ lines[start[n]] = usageSession(Sorted[n])
    BY <1>2 DEF Blocks
  <2>2. start[m] = start[n]
    BY <1>4, <2>1, SessionLineIs DEF SessionsJSONL
  <2>3. /\ start \in [1..(N + 1) -> Nat]
        /\ \A i, j \in 1..(N + 1) : i < j => start[i] < start[j]
    BY <1>2 DEF Blocks
  <2>4. m \in 1..(N + 1) /\ n \in 1..(N + 1) /\ (m < n \/ n < m \/ m = n)
    BY <1>1
  <2>5. QED
    BY <2>2, <2>3, <2>4
<1>5. QED
  BY <1>3, <1>4 DEF N

\* The same of the input, which has them in another order.
LEMMA SortedSound ==
  ASSUME input \in Inputs
  PROVE  SoundInput <=>
           /\ \A n \in 1..Len(input.sessions) : SoundSession(Sorted[n])
           /\ \A m, n \in 1..Len(input.sessions) : Sorted[m].id = Sorted[n].id => m = n
<1> DEFINE N == Len(input.sessions)
           id == [s \in 1..N |-> input.sessions[s].id]
<1>1. N \in Nat /\ DOMAIN input.sessions = 1..N
  BY InputTypes
<1>2. PICK place : Sorting(place)
  BY SortingExists
<1>3. /\ \A n \in 1..N : place[n] \in 1..N /\ Sorted[n] = input.sessions[place[n]]
      /\ \A s \in 1..N : \E n \in 1..N : place[n] = s
      /\ \A m, n \in 1..N : place[m] = place[n] => m = n
  BY <1>2 DEF Sorting
<1>4. Cardinality({input.sessions[s].id : s \in DOMAIN input.sessions}) = N
        <=> \A s, t \in 1..N : input.sessions[s].id = input.sessions[t].id => s = t
  <2>1. {input.sessions[s].id : s \in DOMAIN input.sessions} = {id[s] : s \in 1..N}
    BY <1>1
  <2>2. \A s \in 1..N : id[s] = input.sessions[s].id
    OBVIOUS
  <2> HIDE DEF id, N
  <2>3. Cardinality({id[s] : s \in 1..N}) = N <=> \A s, t \in 1..N : id[s] = id[t] => s = t
    BY <1>1, CountsDistinct
  <2>4. QED
    BY <2>1, <2>2, <2>3
<1> HIDE DEF N
<1>5. (\A s \in 1..N : SoundSession(input.sessions[s])) <=> \A n \in 1..N : SoundSession(Sorted[n])
  BY <1>3
<1>6. (\A s, t \in 1..N : input.sessions[s].id = input.sessions[t].id => s = t)
        <=> \A m, n \in 1..N : Sorted[m].id = Sorted[n].id => m = n
  <2>1. ASSUME \A s, t \in 1..N : input.sessions[s].id = input.sessions[t].id => s = t
        PROVE  \A m, n \in 1..N : Sorted[m].id = Sorted[n].id => m = n
    BY <1>3, <2>1, SMTT(30)
  <2>2. ASSUME \A m, n \in 1..N : Sorted[m].id = Sorted[n].id => m = n,
               NEW s \in 1..N, NEW t \in 1..N, input.sessions[s].id = input.sessions[t].id
        PROVE  s = t
    <3>1. PICK m \in 1..N : place[m] = s
      BY <1>3
    <3>2. PICK n \in 1..N : place[n] = t
      BY <1>3
    <3>3. Sorted[m].id = Sorted[n].id
      BY <1>3, <2>2, <3>1, <3>2
    <3>4. QED
      BY <2>2, <3>1, <3>2, <3>3
  <2>3. QED
    BY <2>1, <2>2
<1>7. SoundInput <=> /\ \A s \in 1..N : SoundSession(input.sessions[s])
                     /\ Cardinality({input.sessions[s].id : s \in DOMAIN input.sessions}) = N
  BY <1>1 DEF SoundInput, N
<1>8. QED
  BY <1>4, <1>5, <1>6, <1>7 DEF N

\* Whatever was staged, failed or damaged: an archive that is published is of
\* sessions that add up, each with its own events and its own ID.
THEOREM SoundIsWhatIsPublished == Spec => []OnlySoundPublished
<1>1. Kept => OnlySoundPublished
  <2> SUFFICES ASSUME Kept, pc = "published" PROVE SoundInput
    BY DEF OnlySoundPublished
  <2>1. Layout /\ pc \in Covered /\ SessionsJSONL(lines)
    BY PublishedIsStaged DEF Kept, Typed, Covered
  <2>2. input \in Inputs
    BY <2>1 DEF Layout
  <2>3. QED
    BY <2>1, <2>2, RecordsAreSound, SortedSound
<1>2. QED
  BY <1>1, AlwaysKept, PTL

\* The conversation of a session that adds up is all its messages.
LEMMA WholeConversation ==
  ASSUME NEW session \in Sessions, SoundSession(session)
  PROVE  /\ WriteSession(session.events) = Messages(session)
         /\ Messages([events |-> EventsText(session)]) = Messages(session)
<1> DEFINE events == session.events
           shown == At(events, Shown(session))
<1>1. events \in Seq(Events)
  BY SessionTypes
<1>2. Shown(session) = DOMAIN events
  <2>1. DOMAIN events = OfType(events, "user") \cup OfType(events, "assistant")
    BY DEF SoundSession
  <2>2. QED
    BY <2>1 DEF Shown, OfType, UsageTypes
<1>3. shown = events
  <2> HIDE DEF events
  <2>1. At(events, DOMAIN events) = events
    BY <1>1, AtAll
  <2>2. QED
    BY <1>2, <2>1
<1>4. WriteSession(events) = [i \in DOMAIN shown |-> <<shown[i].type, shown[i].text>>]
  BY DEF WriteSession, Shown
<1>5. Messages(session) = [e \in DOMAIN events |-> <<events[e].type, events[e].text>>]
  BY DEF Messages
<1>6. WriteSession(events) = Messages(session)
  <2> HIDE DEF shown, events
  <2>1. QED
    BY <1>3, <1>4, <1>5
<1>7. Messages([events |-> EventsText(session)]) = Messages(session)
  <2> DEFINE text == EventsText(session)
  <2>1. DOMAIN text = DOMAIN events
        /\ \A e \in DOMAIN events : text[e].type = events[e].type /\ text[e].text = events[e].text
    BY EventLineIs DEF EventsText
  <2>2. [events |-> text].events = text
    OBVIOUS
  <2>3. Messages([events |-> text]) = [e \in DOMAIN text |-> <<text[e].type, text[e].text>>]
    BY <2>2 DEF Messages
  <2> HIDE DEF text, events
  <2>4. QED
    BY <1>5, <2>1, <2>3 DEF text
<1>8. QED
  BY <1>6, <1>7

\* What an archive has of the nth of the sorted sessions.
LEMMA PublishedTellsSession ==
  ASSUME Kept, pc = "published", NEW n \in 1..Len(input.sessions)
  PROVE  /\ \E i \in SessionLines(lines) :
              /\ lines[i].id = Sorted[n].id /\ lines[i].integrity = Sorted[n].integrity
              /\ Messages([events |-> Group(lines, i)]) = Messages(Sorted[n])
         /\ zip[PathOf(n)] = Written(Messages(Sorted[n]))
         /\ Combined \in DOMAIN zip =>
              \E i \in DOMAIN zip[Combined].body :
                zip[Combined].body[i] = Written(Messages(Sorted[n]))
<1>1. /\ Layout /\ Conversations /\ Faithful(zip) /\ Measured /\ pc \in Covered
      /\ SessionsJSONL(lines)
  BY PublishedIsStaged DEF Kept, Typed, Contents, Covered
<1>2. /\ input \in Inputs /\ Recorded = Len(input.sessions) /\ lines \in Seq(Lines)
      /\ Len(input.sessions) \in Nat
      /\ \A m \in 1..Len(input.sessions) : Sorted[m] \in Sessions
  BY <1>1, InputTypes, SortedTypes DEF Layout
<1>3. SoundSession(Sorted[n])
  BY <1>1, RecordsAreSound
<1>4. /\ WriteSession(Sorted[n].events) = Messages(Sorted[n])
      /\ Messages([events |-> EventsText(Sorted[n])]) = Messages(Sorted[n])
  BY <1>2, <1>3, WholeConversation
<1>5. \E i \in SessionLines(lines) :
        /\ lines[i].id = Sorted[n].id /\ lines[i].integrity = Sorted[n].integrity
        /\ Messages([events |-> Group(lines, i)]) = Messages(Sorted[n])
  <2>1. PICK start : Blocks(lines, Sorted, Len(input.sessions), start)
    BY <1>1, <1>2 DEF Layout
  <2>2. /\ start[n] \in SessionLines(lines) /\ lines[start[n]] = usageSession(Sorted[n])
        /\ Group(lines, start[n]) = EventsText(Sorted[n])
    BY <1>2, <2>1, GroupIsSession
  <2>3. lines[start[n]].id = Sorted[n].id /\ lines[start[n]].integrity = Sorted[n].integrity
    BY <2>2, SessionLineIs
  <2>4. QED
    BY <1>4, <2>2, <2>3
<1>6. /\ PathOf(n) \in DOMAIN staged /\ PathOf(n) # Checksums
      /\ staged[PathOf(n)].digest = Written(Messages(Sorted[n]))
  BY <1>1, <1>2, <1>4, PathsApart, EntryNames DEF Conversations, PathOf
<1>7. zip[PathOf(n)] = staged[PathOf(n)].digest
  BY <1>6, PublishedIsStaged
<1>8. ASSUME Combined \in DOMAIN zip
      PROVE  \E i \in DOMAIN zip[Combined].body :
               zip[Combined].body[i] = Written(Messages(Sorted[n]))
  <2>1. Combined \in DOMAIN staged /\ Combined # Checksums
    BY <1>8, PublishedIsStaged, NamesApart, EntryNames
  <2>2. zip[Combined].body = Copies
    BY <2>1, PublishedIsStaged DEF Copies
  <2>3. n \in DOMAIN Copies
    <3>1. Copies = [m \in 1..Recorded |-> Copies[m]]
      BY <1>1, <2>1 DEF Measured
    <3>2. DOMAIN Copies = 1..Recorded
      BY <3>1
    <3>3. QED
      BY <1>2, <3>2
  <2>4. Copies[n] = staged[PathOf(n)].digest
    BY <1>1, <1>2, <1>7, <2>1 DEF Faithful, Copies
  <2>5. QED
    BY <1>6, <2>2, <2>3, <2>4
<1>9. QED
  BY <1>5, <1>6, <1>7, <1>8

\* A published archive has every session with all its messages, as they were
\* replayed, in the records, in the conversation and in the combined file.
THEOREM WhatIsPublishedTellsInput == Spec => []PublishedTellsInput
<1>1. Kept => PublishedTellsInput
  <2> SUFFICES ASSUME Kept, pc = "published", NEW s \in DOMAIN input.sessions
               PROVE  LET session == input.sessions[s]
                          recorded == zip[<<"sessions">>].body
                          told == Written(Messages(session))
                      IN  /\ \E i \in SessionLines(recorded) :
                               /\ recorded[i].id = session.id
                               /\ recorded[i].integrity = session.integrity
                               /\ Messages([events |-> Group(recorded, i)]) = told.body
                          /\ zip[SessionPath(session)] = told
                          /\ Combined \in DOMAIN zip =>
                               told \in {zip[Combined].body[i] : i \in DOMAIN zip[Combined].body}
    BY DEF PublishedTellsInput
  <2>1. PICK n \in 1..Len(input.sessions) : Sorted[n] = input.sessions[s]
    BY SortedTypes DEF Kept, Typed, Layout
  <2>2. zip[<<"sessions">>].body = lines /\ Written(Messages(Sorted[n])).body = Messages(Sorted[n])
    BY PublishedIsStaged DEF Written
  <2>3. PathOf(n) = SessionPath(input.sessions[s])
    BY <2>1 DEF PathOf
  <2>4. QED
    BY <2>1, <2>2, <2>3, PublishedTellsSession
<1>2. QED
  BY <1>1, AlwaysKept, PTL

(***************************************************************************)
(* What the validation computes again: the sums and the records.            *)
(***************************************************************************)

LEMMA SumIsTotal == ASSUME NEW f PROVE Sum(f) = Total(f, DOMAIN f)
BY DEF Sum, Total, FoldSeq, FoldFunction, FoldFunctionOnSet, MapThenSumSet

\* The records that the validation reads are the sessions, in their order.
LEMMA RecordsAre ==
  ASSUME Layout
  PROVE  /\ Stats(lines).records = [n \in 1..Recorded |-> usageSession(Sorted[n])]
         /\ Len(Stats(lines).records) = Recorded
<1> DEFINE k == Recorded
<1>1. k \in Nat
  BY InputTypes DEF Layout
<1>2. PICK start : Blocks(lines, Sorted, k, start)
  BY DEF Layout
<1> HIDE DEF k
<1>3. /\ \A n \in 1..k : start[n] \in Nat
      /\ \A m, n \in 1..k : m < n => start[m] < start[n]
      /\ SessionLines(lines) = {start[n] : n \in 1..k}
      /\ \A n \in 1..k : lines[start[n]] = usageSession(Sorted[n])
  <2>1. \A n \in 1..k : n \in 1..(k + 1)
    BY <1>1
  <2>2. QED
    BY <1>2, <2>1 DEF Blocks
<1>4. At(lines, SessionLines(lines)) = [n \in 1..k |-> lines[start[n]]]
  <2> DEFINE P == SessionLines(lines)
  <2>1. P = {start[n] : n \in 1..k}
    BY <1>3
  <2> HIDE DEF P
  <2>2. Enumerates(start, k, P)
    BY <1>3, <2>1 DEF Enumerates
  <2>3. At(lines, P) = Named(lines, start, k)
    BY <1>1, <2>2, AtEnumerated
  <2>4. QED
    BY <2>3 DEF P, Named
<1>5. At(lines, SessionLines(lines)) = [n \in 1..k |-> usageSession(Sorted[n])]
  BY <1>3, <1>4
<1>6. Stats(lines).records = At(lines, SessionLines(lines))
  BY DEF Stats
<1>7. Len([n \in 1..k |-> usageSession(Sorted[n])]) = k
  <2> DEFINE f == [n \in 1..k |-> usageSession(Sorted[n])]
  <2>1. f = [n \in 1..k |-> f[n]]
    OBVIOUS
  <2> HIDE DEF f
  <2>2. Len(f) = k
    BY <1>1, <2>1, CountedIsSequence
  <2>3. QED
    BY <2>2 DEF f
<1>8. QED
  BY <1>5, <1>6, <1>7 DEF k

(***************************************************************************)
(* What the manifest and the reports say, and what the combined file's      *)
(* limit comes to.                                                          *)
(***************************************************************************)

\* The estimate, of the input.
EstimateOf(n) ==
  HeadingLength
    + Sum([i \in 1..n |-> Len(WriteSession(Sorted[i].events)) + EstimatedLine(PathOf(i))])
TooLarge ==
  /\ CombinedMarkdownLimit > 0
  /\ \E n \in 1..Len(input.sessions) : EstimateOf(n) > CombinedMarkdownLimit
Fits == input.combined /\ ~TooLarge

Decided == {"manifest", "checksums", "strict", "zip", "validate", "published"}
Listed == {"checksums", "strict", "zip", "validate", "published"}
Summed == {"strict", "zip", "validate", "published"}

\* What was digested of the reports and the records.
Reported ==
  /\ staged[<<"errors">>].digest = Written(input.errors)
  /\ staged[<<"redactions">>].digest = Written(<<>>)
  /\ staged[<<"REVIEW_GUIDE">>].digest = Written(<<>>)
  /\ staged[<<"README">>].digest = Written(WriteREADME(Links(Sorted)))
  /\ staged[<<"SUMMARY">>].digest = Written(WriteSummary(manifest, Links(Sorted)))

\* What was handed over, before and after it is settled whether there is a combined
\* file, and which files there are.
HandedOver ==
  /\ manifest.totals = Totals /\ manifest.errors = input.errors
  /\ manifest.adapters = input.adapters
  /\ Reported

AsAsked == manifest.combined = input.combined /\ manifest.exclusions = {}

Settled ==
  /\ manifest.combined = Fits
  /\ Combined \in DOMAIN staged <=> Fits
  /\ manifest.exclusions # {} <=> (input.combined /\ TooLarge)

ListsFiles ==
  /\ staged[Manifest].digest = Written(manifest)
  /\ manifest.files = DigestsExcept({Manifest, Checksums})

SumsFiles == staged[Checksums].digest = Written(DigestsExcept({Checksums}))

\* The manifest and the checksums at each step.
Described ==
  /\ DOMAIN manifest = DOMAIN NoManifest
  /\ pc \in Covered => HandedOver
  /\ pc = "combined" => AsAsked
  /\ pc \in Decided => Settled
  /\ pc \in Listed => ListsFiles
  /\ pc \in Summed => SumsFiles

LEMMA InputStays ==
  ASSUME UNCHANGED <<input, lines>>
  PROVE  /\ Totals' = Totals /\ TooLarge' = TooLarge /\ Fits' = Fits
         /\ Recorded' = Recorded /\ Sorted' = Sorted /\ \A n : PathOf(n)' = PathOf(n)
<1>1. Sorted' = Sorted /\ Recorded' = Recorded /\ \A n : PathOf(n)' = PathOf(n)
  BY SortedStays DEF Recorded, PathOf
<1>2. Stats(lines)' = Stats(lines)
  BY DEF Stats, At, EventLines, IsEvent, SessionLines, IsSession
<1>3. Totals' = Totals
  BY <1>2 DEF Totals, WarningsOf
<1>4. \A n : EstimateOf(n)' = EstimateOf(n)
  BY <1>1 DEF EstimateOf, PathOf, SessionPath, WriteSession, At, HeadingLength, EstimatedLine,
              PathLength, IDLength, HarnessLength
<1>5. TooLarge' = TooLarge
  BY <1>4 DEF TooLarge, CombinedMarkdownLimit
<1>6. Fits' = Fits
  BY <1>5 DEF Fits
<1>7. QED
  BY <1>1, <1>3, <1>5, <1>6

\* The estimate is of the sizes that were taken when the conversations were written.
LEMMA EstimateIs ==
  ASSUME Layout, Measured, pc \in Covered
  PROVE  Exceeds <=> TooLarge
<1> DEFINE N == Len(input.sessions)
<1>1. N \in Nat /\ Recorded = N /\ DOMAIN Sorted = 1..N
  BY InputTypes, SortedTypes DEF Layout
<1>2. Len(Sorted) = N
  <2>1. Sorted = [n \in 1..N |-> Sorted[n]]
    BY <1>1 DEF Sorted
  <2> HIDE DEF N
  <2>2. QED
    BY <1>1, <2>1, CountedIsSequence
<1> HIDE DEF N
<1>3. ASSUME NEW n \in 1..N PROVE EstimateAfter(n) = EstimateOf(n)
  <2>1. \A i \in 1..n : i \in 1..Recorded
    BY <1>1
  <2>2. \A i \in 1..n : staged[SessionPath(Sorted[i])].size = Len(WriteSession(Sorted[i].events))
    BY <2>1 DEF Measured, PathOf
  <2>3. [i \in 1..n |-> staged[SessionPath(Sorted[i])].size
                          + EstimatedLine(SessionPath(Sorted[i]))] =
          [i \in 1..n |-> Len(WriteSession(Sorted[i].events)) + EstimatedLine(PathOf(i))]
    BY <2>2 DEF PathOf
  <2>4. QED
    BY <2>3 DEF EstimateAfter, EstimateOf
<1>4. QED
  BY <1>2, <1>3 DEF Exceeds, TooLarge, N

\* Digests that stay, and a manifest that stays.
LEMMA StaysDescribed ==
  ASSUME Described, UNCHANGED <<input, lines, manifest>>, DOMAIN staged' = DOMAIN staged,
         \A name \in DOMAIN staged : staged'[name].digest = staged[name].digest,
         Typed,
         pc' \in Covered => pc \in Covered, pc' = "combined" => pc = "combined",
         pc' \in Decided => pc \in Decided, pc' \in Listed => pc \in Listed,
         pc' \in Summed => pc \in Summed
  PROVE  Described'
<1>1. /\ Totals' = Totals /\ TooLarge' = TooLarge /\ Fits' = Fits /\ Sorted' = Sorted
  BY InputStays
<1>2. \A names : DigestsExcept(names)' = DigestsExcept(names)
  BY DEF DigestsExcept, DigestOf
<1>3. pc \in Covered => ReportNames \cup RecordNames \subseteq DOMAIN staged
  <2>1. pc \in Covered => StagedBy(pc) \subseteq DOMAIN staged
    BY DEF Typed, TypeOK, Covered
  <2>2. pc \in Covered => ReportNames \cup RecordNames \subseteq StagedBy(pc)
    BY StagedBySteps, EntryNames DEF Covered
  <2>3. QED
    BY <2>1, <2>2
<1>4. pc \in Covered => Reported'
  <2>1. /\ <<"errors">> \in RecordNames /\ <<"redactions">> \in RecordNames
        /\ <<"README">> \in ReportNames /\ <<"SUMMARY">> \in ReportNames
        /\ <<"REVIEW_GUIDE">> \in ReportNames
    BY DEF RecordNames, ReportNames
  <2>2. pc \in Covered => Reported
    BY DEF Described, HandedOver
  <2>3. QED
    BY <1>1, <1>3, <2>1, <2>2 DEF Reported
<1>5. pc \in Listed => Manifest \in DOMAIN staged
  <2>1. pc \in Listed => StagedBy(pc) \subseteq DOMAIN staged
    BY DEF Typed, TypeOK, Listed
  <2>2. pc \in Listed => Manifest \in StagedBy(pc)
    BY StagedBySteps, EntryNames DEF Listed
  <2>3. QED
    BY <2>1, <2>2
<1>6. pc \in Summed => Checksums \in DOMAIN staged
  <2>1. pc \in Summed => StagedBy(pc) \subseteq DOMAIN staged
    BY DEF Typed, TypeOK, Summed
  <2>2. pc \in Summed => Checksums \in StagedBy(pc)
    BY StagedBySteps, EntryNames DEF Summed
  <2>3. QED
    BY <2>1, <2>2
<1>7. pc' \in Covered => HandedOver'
  BY <1>1, <1>4 DEF Described, HandedOver
<1>8. pc' = "combined" => AsAsked'
  BY DEF Described, AsAsked
<1>9. pc' \in Decided => Settled'
  BY <1>1 DEF Described, Settled
<1>10. pc' \in Listed => ListsFiles'
  BY <1>2, <1>5 DEF Described, ListsFiles, Written
<1>11. pc' \in Summed => SumsFiles'
  BY <1>2, <1>6 DEF Described, SumsFiles, Written
<1>12. QED
  BY <1>7, <1>8, <1>9, <1>10, <1>11 DEF Described

\* What was digested of the reports, after a step that stages none of them.
LEMMA StaysReported ==
  ASSUME Typed, HandedOver, pc \in Covered, UNCHANGED <<input, lines>>,
         NEW names, Fresh(names), names \cap (ReportNames \cup RecordNames) = {},
         manifest'.totals = manifest.totals, manifest'.errors = manifest.errors,
         manifest'.adapters = manifest.adapters, manifest'.incomplete = manifest.incomplete
  PROVE  HandedOver'
<1>1. Totals' = Totals /\ Sorted' = Sorted
  BY InputStays
<1>2. ReportNames \cup RecordNames \subseteq DOMAIN staged
  <2>1. StagedBy(pc) \subseteq DOMAIN staged
    BY DEF Typed, TypeOK, Covered
  <2>2. ReportNames \cup RecordNames \subseteq StagedBy(pc)
    BY StagedBySteps, EntryNames DEF Covered
  <2>3. QED
    BY <2>1, <2>2
<1>3. \A name \in ReportNames \cup RecordNames : staged'[name] = staged[name]
  BY <1>2 DEF Fresh
<1>4. {<<"sessions">>, <<"errors">>, <<"redactions">>, <<"REVIEW_GUIDE">>, <<"README">>, <<"SUMMARY">>}
        = ReportNames \cup RecordNames
  BY DEF ReportNames, RecordNames
<1>5. WriteSummary(manifest', Links(Sorted)) = WriteSummary(manifest, Links(Sorted))
  BY DEF WriteSummary
<1>6. Reported'
  BY <1>1, <1>3, <1>4, <1>5 DEF HandedOver, Reported
<1>7. QED
  BY <1>1, <1>6 DEF HandedOver

LEMMA NamesOutside ==
  /\ {Combined} \cap (ReportNames \cup RecordNames) = {}
  /\ {Manifest} \cap (ReportNames \cup RecordNames) = {}
  /\ {Checksums} \cap (ReportNames \cup RecordNames) = {}
  /\ Combined # Manifest /\ Combined # Checksums /\ Manifest # Checksums
  /\ Combined \notin {<<"README">>, <<"SUMMARY">>}
BY DEF Combined, Manifest, Checksums, ReportNames, RecordNames

LEMMA ReportsDescribed ==
  ASSUME Typed, Described, StageReports PROVE Described'
<1>1. pc' = "combined" /\ UNCHANGED <<input, lines>>
  BY DEF StageReports, Goto
<1>2. manifest' = [totals |-> Totals, errors |-> input.errors, adapters |-> input.adapters,
                   incomplete |-> Incomplete, combined |-> input.combined,
                   exclusions |-> {}, files |-> <<>>]
  BY DEF StageReports
<1>3. DOMAIN manifest' = DOMAIN NoManifest
  BY <1>2 DEF NoManifest
<1>4. AsAsked'
  BY <1>1, <1>2 DEF AsAsked
<1>5. Totals' = Totals /\ Sorted' = Sorted
  BY <1>1, InputStays
<1>6. Reported'
  BY <1>5, <1>1, ReportsWritten DEF Reported, Typed
<1>7. HandedOver'
  BY <1>1, <1>2, <1>5, <1>6 DEF HandedOver
<1>8. QED
  BY <1>1, <1>3, <1>4, <1>7 DEF Described, Decided, Listed, Summed

LEMMA CombinedDescribed ==
  ASSUME Typed, Contents, Measured, Described, StageCombined PROVE Described'
<1>1. /\ pc = "combined" /\ pc' = "manifest" /\ UNCHANGED <<input, lines, manifest>>
      /\ input.combined /\ ~Exceeds /\ staged' = staged ++ Add(Combined, Copied, 0)
  BY DEF StageCombined, Goto
<1>2. Fresh({Combined})
  BY <1>1, FreshAdd
<1>3. Fits /\ ~TooLarge
  BY <1>1, EstimateIs DEF Typed, Fits, Covered
<1>4. HandedOver /\ AsAsked /\ pc \in Covered
  BY <1>1 DEF Described, Covered
<1>5. HandedOver'
  BY <1>1, <1>2, <1>4, NamesOutside, StaysReported
<1>6. Settled'
  <2>1. manifest.combined = input.combined /\ manifest.exclusions = {}
    BY <1>4 DEF AsAsked
  <2>2. input.combined \in BOOLEAN
    BY ArchiveAssumption DEF Typed, Layout
  <2>3. Fits' = Fits /\ TooLarge' = TooLarge
    BY <1>1, InputStays
  <2>4. Combined \in DOMAIN staged'
    BY <1>2 DEF Fresh
  <2>5. Fits = TRUE /\ TooLarge = FALSE /\ input.combined = TRUE
    BY <1>1, <1>3, <2>2 DEF Fits, TooLarge
  <2>6. QED
    BY <1>1, <2>1, <2>3, <2>4, <2>5 DEF Settled
<1>7. QED
  BY <1>1, <1>5, <1>6 DEF Described, Listed, Summed

LEMMA OmittedDescribed ==
  ASSUME Typed, Contents, Measured, Described, OmitCombined PROVE Described'
<1>1. /\ pc = "combined" /\ pc' = "manifest" /\ UNCHANGED <<input, lines>>
      /\ input.combined /\ Exceeds
      /\ manifest' = manifest ++ [combined |-> FALSE, exclusions |-> {"combined_markdown_size_limit"}]
  BY DEF OmitCombined, Goto
<1>2. /\ Fresh({<<"README">>, <<"SUMMARY">>})
      /\ staged'[<<"README">>].digest = Written(WriteREADME(Links(Sorted)))
      /\ staged'[<<"SUMMARY">>].digest = Written(WriteSummary(manifest', Links(Sorted)))
  BY OmittedWritten
<1>3. /\ HandedOver /\ DOMAIN manifest = DOMAIN NoManifest
      /\ Combined \notin DOMAIN staged
  BY <1>1 DEF Described, Covered, Contents, Uncombined
<1>4. /\ DOMAIN manifest' = DOMAIN NoManifest
      /\ manifest'.totals = manifest.totals /\ manifest'.errors = manifest.errors
      /\ manifest'.adapters = manifest.adapters
      /\ manifest'.combined = FALSE /\ manifest'.exclusions = {"combined_markdown_size_limit"}
  BY <1>1, <1>3 DEF ++, NoManifest
<1>5. Totals' = Totals /\ Sorted' = Sorted /\ Fits' = Fits /\ TooLarge' = TooLarge
  BY <1>1, InputStays
<1>6. Reported'
  <2>1. {<<"errors">>, <<"redactions">>, <<"REVIEW_GUIDE">>} \subseteq DOMAIN staged
    <3>1. StagedBy(pc) \subseteq DOMAIN staged
      BY <1>1 DEF Typed, TypeOK
    <3>2. ReportNames \cup RecordNames = StagedBy(pc) \ Schemas \/ ReportNames \cup RecordNames \subseteq StagedBy(pc)
      BY <1>1, StagedBySteps
    <3>3. QED
      BY <3>1, <3>2 DEF ReportNames, RecordNames
  <2>2. \A name \in {<<"errors">>, <<"redactions">>, <<"REVIEW_GUIDE">>} : staged'[name] = staged[name]
    BY <1>2, <2>1 DEF Fresh
  <2>3. QED
    BY <1>1, <1>2, <1>3, <1>5, <2>2 DEF HandedOver, Reported
<1>7. HandedOver'
  BY <1>1, <1>3, <1>4, <1>5, <1>6 DEF HandedOver
<1>8. Settled'
  <2>1. TooLarge
    BY <1>1, EstimateIs DEF Typed, Covered
  <2>2. Fits = FALSE
    BY <2>1 DEF Fits
  <2>3. Combined \notin DOMAIN staged'
    BY <1>2, <1>3, NamesOutside DEF Fresh
  <2>4. QED
    BY <1>1, <1>4, <1>5, <2>1, <2>2, <2>3 DEF Settled
<1>9. QED
  BY <1>1, <1>4, <1>7, <1>8 DEF Described, Listed, Summed

LEMMA SkippedDescribed ==
  ASSUME Typed, Contents, Described, SkipCombined PROVE Described'
<1>1. /\ pc = "combined" /\ pc' = "manifest" /\ UNCHANGED <<input, lines, staged, manifest>>
      /\ ~input.combined
  BY DEF SkipCombined, Goto
<1>2. /\ HandedOver /\ AsAsked /\ Combined \notin DOMAIN staged
  BY <1>1 DEF Described, Covered, Contents, Uncombined
<1>3. Totals' = Totals /\ Sorted' = Sorted /\ Fits' = Fits /\ TooLarge' = TooLarge
  BY <1>1, InputStays
<1>4. HandedOver'
  BY <1>1, <1>2, <1>3 DEF HandedOver, Reported
<1>5. Settled'
  <2>1. input.combined = FALSE /\ Fits = FALSE
    <3>1. input.combined \in BOOLEAN
      BY ArchiveAssumption DEF Typed, Layout
    <3>2. QED
      BY <1>1, <3>1 DEF Fits
  <2>2. manifest'.combined = FALSE /\ manifest'.exclusions = {}
    BY <1>1, <1>2, <2>1 DEF AsAsked
  <2>3. QED
    BY <1>1, <1>2, <1>3, <2>1, <2>2 DEF Settled
<1>6. QED
  BY <1>1, <1>4, <1>5 DEF Described, Listed, Summed

LEMMA ManifestDescribed ==
  ASSUME Typed, Contents, Described, StageManifest PROVE Described'
<1>1. /\ pc = "manifest" /\ pc' = "checksums" /\ UNCHANGED <<input, lines>>
      /\ manifest' = [manifest EXCEPT !.files = DigestsExcept({Manifest, Checksums})]
      /\ staged' = staged ++ Add(Manifest, manifest', 0)
  BY DEF StageManifest, Goto
<1>2. Fresh({Manifest}) /\ staged'[Manifest].digest = Written(manifest')
  BY <1>1, FreshAdd
<1>3. /\ HandedOver /\ Settled /\ DOMAIN manifest = DOMAIN NoManifest /\ pc \in Covered
  BY <1>1 DEF Described, Covered, Decided
<1>4. /\ DOMAIN manifest' = DOMAIN NoManifest
      /\ manifest'.totals = manifest.totals /\ manifest'.errors = manifest.errors
      /\ manifest'.adapters = manifest.adapters /\ manifest'.incomplete = manifest.incomplete
      /\ manifest'.combined = manifest.combined /\ manifest'.exclusions = manifest.exclusions
      /\ manifest'.files = DigestsExcept({Manifest, Checksums})
  BY <1>1, <1>3 DEF NoManifest
<1>5. HandedOver'
  BY <1>1, <1>2, <1>3, <1>4, NamesOutside, StaysReported
<1>6. Settled'
  <2>1. Fits' = Fits /\ TooLarge' = TooLarge
    BY <1>1, InputStays
  <2>2. Combined \in DOMAIN staged' <=> Combined \in DOMAIN staged
    BY <1>2, NamesOutside DEF Fresh
  <2>3. QED
    BY <1>1, <1>3, <1>4, <2>1, <2>2 DEF Settled
<1>7. DigestsExcept({Manifest, Checksums})' = DigestsExcept({Manifest, Checksums})
  <2>1. DOMAIN staged' \ {Manifest, Checksums} = DOMAIN staged \ {Manifest, Checksums}
    BY <1>2 DEF Fresh
  <2>2. \A name \in DOMAIN staged \ {Manifest, Checksums} : staged'[name].digest = staged[name].digest
    BY <1>2 DEF Fresh
  <2>3. QED
    BY <2>1, <2>2 DEF DigestsExcept, DigestOf
<1>8. ListsFiles'
  BY <1>2, <1>4, <1>7 DEF ListsFiles
<1>9. QED
  BY <1>1, <1>4, <1>5, <1>6, <1>8 DEF Described, Summed

LEMMA ChecksumsDescribed ==
  ASSUME Typed, Contents, Described, StageChecksums PROVE Described'
<1>1. /\ pc = "checksums" /\ pc' = "strict" /\ UNCHANGED <<input, lines, manifest>>
      /\ staged' = staged ++ Add(Checksums, DigestsExcept({Checksums}), 0)
  BY DEF StageChecksums, Goto
<1>2. Fresh({Checksums}) /\ staged'[Checksums].digest = Written(DigestsExcept({Checksums}))
  BY <1>1, FreshAdd
<1>3. /\ HandedOver /\ Settled /\ ListsFiles /\ DOMAIN manifest = DOMAIN NoManifest /\ pc \in Covered
  BY <1>1 DEF Described, Covered, Decided, Listed
<1>4. HandedOver'
  BY <1>1, <1>2, <1>3, NamesOutside, StaysReported
<1>5. Settled'
  <2>1. Fits' = Fits /\ TooLarge' = TooLarge
    BY <1>1, InputStays
  <2>2. Combined \in DOMAIN staged' <=> Combined \in DOMAIN staged
    BY <1>2, NamesOutside DEF Fresh
  <2>3. QED
    BY <1>1, <1>3, <2>1, <2>2 DEF Settled
<1>6. /\ \A names : Checksums \in names => DigestsExcept(names)' = DigestsExcept(names)
  <2> SUFFICES ASSUME NEW names, Checksums \in names
               PROVE  DigestsExcept(names)' = DigestsExcept(names)
    OBVIOUS
  <2>1. DOMAIN staged' \ names = DOMAIN staged \ names
    BY <1>2 DEF Fresh
  <2>2. \A name \in DOMAIN staged \ names : staged'[name].digest = staged[name].digest
    BY <1>2 DEF Fresh
  <2>3. QED
    BY <2>1, <2>2 DEF DigestsExcept, DigestOf
<1>7. ListsFiles'
  <2>1. Manifest \in DOMAIN staged
    BY <1>1, StagedBySteps, EntryNames, NamesOutside DEF Typed, TypeOK
  <2>2. staged'[Manifest] = staged[Manifest]
    BY <1>2, <2>1, NamesOutside DEF Fresh
  <2>3. DigestsExcept({Manifest, Checksums})' = DigestsExcept({Manifest, Checksums})
    BY <1>6
  <2>4. QED
    BY <1>1, <1>3, <2>2, <2>3 DEF ListsFiles
<1>8. SumsFiles'
  BY <1>2, <1>6 DEF SumsFiles
<1>9. QED
  BY <1>1, <1>3, <1>4, <1>5, <1>7, <1>8 DEF Described

LEMMA NextDescribed == Typed /\ Contents /\ Measured /\ Described /\ [Next]_vars => Described'
<1> SUFFICES ASSUME Typed, Contents, Measured, Described, [Next]_vars PROVE Described'
  OBVIOUS
<1>1. CASE StageSchemas \/ StageSession
  <2>1. pc' = "sessions" /\ manifest' = manifest
    BY <1>1 DEF StageSchemas, StageSession, Goto
  <2>2. QED
    BY <2>1 DEF Described, Covered, Decided, Listed, Summed
<1>2. CASE StageReports
  BY <1>2, ReportsDescribed
<1>3. CASE StageCombined
  BY <1>3, CombinedDescribed
<1>4. CASE OmitCombined
  BY <1>4, OmittedDescribed
<1>5. CASE SkipCombined
  BY <1>5, SkippedDescribed
<1>6. CASE StageManifest
  BY <1>6, ManifestDescribed
<1>7. CASE StageChecksums
  BY <1>7, ChecksumsDescribed
<1>8. CASE StageSessionRefused \/ StopsCancelled \/ Fails \/ Cancel
  <2>1. UNCHANGED <<input, lines, staged, manifest>> /\ (pc' = pc \/ pc' = "failed")
    BY <1>8 DEF StageSessionRefused, StopsCancelled, Fails, Cancel, Goto
  <2>2. QED
    BY <2>1, StaysDescribed DEF Covered, Decided, Listed, Summed
<1>9. CASE CheckStrict \/ WriteZIP \/ Validate
  <2>1. /\ UNCHANGED <<input, lines, staged, manifest>> /\ pc \in {"strict", "zip", "validate"}
        /\ pc' \in {"zip", "validate", "published", "failed", "incomplete"}
    BY <1>9 DEF CheckStrict, WriteZIP, Validate, Goto
  <2>2. QED
    BY <2>1, StaysDescribed DEF Covered, Decided, Listed, Summed
<1>10. ASSUME NEW name \in DOMAIN staged, Damage(name) PROVE Described'
  <2>1. UNCHANGED <<input, lines, manifest, pc>>
    BY <1>10 DEF Damage
  <2>2. /\ DOMAIN staged' = DOMAIN staged
        /\ \A other \in DOMAIN staged : staged'[other].digest = staged[other].digest
    <3>1. /\ DOMAIN staged' = DOMAIN staged
          /\ \A other \in DOMAIN staged \ {name} : staged'[other] = staged[other]
      BY <1>10, Damaged DEF Typed
    <3>2. PICK file : staged'[name] = [disk |-> file, digest |-> staged[name].digest,
                                       size |-> staged[name].size]
      BY <1>10, Damaged DEF Typed
    <3>3. staged'[name].digest = staged[name].digest
      BY <3>2
    <3>4. QED
      BY <3>1, <3>3
  <2>3. QED
    BY <2>1, <2>2, StaysDescribed
<1>11. CASE UNCHANGED vars
  <2>1. UNCHANGED <<input, lines, staged, manifest, pc>>
    BY <1>11 DEF vars
  <2>2. QED
    BY <2>1, StaysDescribed
<1>12. QED
  BY <1>1, <1>2, <1>3, <1>4, <1>5, <1>6, <1>7, <1>8, <1>9, <1>10, <1>11 DEF Next, Stage

LEMMA AlwaysDescribed == Spec => [](Kept /\ Described)
<1>1. Init => Kept /\ Described
  BY InitTyped, InitContents, InitMeasured
  DEF Kept, Init, Described, Covered, Decided, Listed, Summed
<1>2. (Kept /\ Described) /\ [Next]_vars => (Kept /\ Described)'
  BY NextTyped, NextContents, NextMeasured, NextDescribed DEF Kept
<1>3. Init /\ [][Next]_vars => [](Kept /\ Described)
  BY <1>1, <1>2, PTL
<1>4. QED
  BY <1>3, PTL DEF Spec

(***************************************************************************)
(* Sums over the sessions do not depend on their order.                     *)
(***************************************************************************)

\* What is counted of each of the input's sessions, and of each in their order.
SameCounts(sorted, given) ==
  /\ sorted \in [1..Len(input.sessions) -> Nat]
  /\ given \in [1..Len(input.sessions) -> Nat]
  /\ \A place : Sorting(place) => \A n \in 1..Len(input.sessions) : sorted[n] = given[place[n]]

LEMMA OrderDoesNotMatter ==
  ASSUME input \in Inputs, NEW sorted, NEW given, SameCounts(sorted, given)
  PROVE  /\ Sum(sorted) = Sum(given)
         /\ Sum(sorted) = Total(sorted, 1..Len(input.sessions)) /\ Sum(sorted) \in Nat
<1> DEFINE N == Len(input.sessions)
           S == 1..N
<1>1. N \in Nat /\ IsFiniteSet(S)
  BY InputTypes, NumbersTo
<1>2. PICK place : Sorting(place)
  BY SortingExists
<1>3. /\ place \in [S -> S] /\ \A s \in S : \E n \in S : place[n] = s
      /\ \A m, n \in S : place[m] = place[n] => m = n
  BY <1>2 DEF Sorting
<1>4. sorted \in [S -> Nat] /\ given \in [S -> Nat] /\ \A n \in S : sorted[n] = given[place[n]]
  BY <1>2 DEF SameCounts
<1>5. Renamed(sorted, given, place, S)
  BY <1>3, <1>4 DEF Renamed
<1> HIDE DEF S
<1>6. Total(sorted, S) = Total(given, S) /\ Total(sorted, S) \in Nat
  BY <1>1, <1>5, TotalOfRenamed
<1>7. Sum(sorted) = Total(sorted, S) /\ Sum(given) = Total(given, S)
  <2>1. DOMAIN sorted = S /\ DOMAIN given = S
    BY <1>4
  <2>2. QED
    BY <2>1, SumIsTotal
<1>8. QED
  BY <1>6, <1>7 DEF S

\* A session that adds up has a conversation as long as its events.
LEMMA SoundLength ==
  ASSUME NEW session \in Sessions, SoundSession(session)
  PROVE  Len(WriteSession(session.events)) = Len(session.events)
<1>1. Len(session.events) \in Nat /\ DOMAIN session.events = 1..Len(session.events)
  BY SessionTypes
<1>2. Shown(session) = DOMAIN session.events
  BY DEF SoundSession, Shown, OfType, UsageTypes
<1>3. QED
  BY <1>1, <1>2, ConversationIs, NumbersTo

\* What is written above a conversation is 14 bytes more than what is estimated.
LEMMA LinesAbove ==
  ASSUME NEW session \in Sessions
  PROVE  /\ EstimatedLine(SessionPath(session)) \in Nat
         /\ SourceLine(SessionPath(session)) = EstimatedLine(SessionPath(session)) + 14
<1>1. session.harness \in DOMAIN HarnessLength
  BY DEF Sessions
<1>2. SessionPath(session)[2] = session.harness
  BY DEF SessionPath
<1>3. HarnessLength[session.harness] \in Nat
  BY <1>1 DEF HarnessLength
<1>4. PathLength(SessionPath(session)) \in Nat
  BY <1>2, <1>3 DEF PathLength, IDLength
<1>5. QED
  BY <1>4 DEF EstimatedLine, SourceLine, IDLength

\* A conversation's part of the estimate, in the archive's order and in the input's.
EstimateParts ==
  [n \in 1..Len(input.sessions) |-> Len(Sorted[n].events) + EstimatedLine(PathOf(n))]

LEMMA EstimatedSizeIs ==
  ASSUME input \in Inputs
  PROVE  /\ EstimateParts \in [1..Len(input.sessions) -> Nat]
         /\ EstimatedSize = HeadingLength + Total(EstimateParts, 1..Len(input.sessions))
         /\ Total(EstimateParts, 1..Len(input.sessions)) \in Nat
<1> DEFINE N == Len(input.sessions)
           S == 1..N
           parts == EstimateParts
           given == [s \in S |-> Len(input.sessions[s].events)
                                   + EstimatedLine(SessionPath(input.sessions[s]))]
<1>1. N \in Nat /\ DOMAIN input.sessions = S
  BY InputTypes
<1>2. \A n \in S : /\ Sorted[n] \in Sessions /\ Len(Sorted[n].events) \in Nat
                   /\ EstimatedLine(PathOf(n)) \in Nat
  BY SortedTypes, SessionTypes, LinesAbove DEF PathOf
<1>3. \A s \in S : /\ Len(input.sessions[s].events) \in Nat
                   /\ EstimatedLine(SessionPath(input.sessions[s])) \in Nat
  BY InputTypes, SessionTypes, LinesAbove
<1>4. SameCounts(parts, given)
  <2>1. parts \in [S -> Nat]
    <3>1. \A n \in S : parts[n] \in Nat
      BY <1>2 DEF EstimateParts
    <3>2. parts = [n \in S |-> parts[n]]
      BY DEF EstimateParts
    <3> HIDE DEF parts, S
    <3>3. QED
      BY <3>1, <3>2
  <2>4. given \in [S -> Nat]
    <3>1. \A s \in S : given[s] \in Nat
      <4> SUFFICES ASSUME NEW s \in S PROVE given[s] \in Nat
        OBVIOUS
      <4> DEFINE messages == Len(input.sessions[s].events)
                 line == EstimatedLine(SessionPath(input.sessions[s]))
      <4>1. messages \in Nat /\ line \in Nat
        BY <1>3
      <4>2. given[s] = messages + line
        OBVIOUS
      <4> HIDE DEF messages, line, given
      <4>3. QED
        BY <4>1, <4>2
    <3>2. given = [s \in S |-> given[s]]
      OBVIOUS
    <3> HIDE DEF given, S
    <3>3. QED
      BY <3>1, <3>2
  <2>2. ASSUME NEW place, Sorting(place), NEW n \in S PROVE parts[n] = given[place[n]]
    <3>1. place[n] \in S /\ Sorted[n] = input.sessions[place[n]]
      BY <2>2 DEF Sorting
    <3>2. QED
      BY <3>1 DEF EstimateParts, PathOf
  <2> HIDE DEF parts, given
  <2>3. QED
    BY <2>1, <2>2, <2>4 DEF SameCounts
<1>5. EstimatedSize = HeadingLength + Sum(given)
  BY <1>1 DEF EstimatedSize
<1> HIDE DEF parts, given
<1>6. Sum(parts) = Sum(given) /\ Sum(parts) = Total(parts, S) /\ Sum(parts) \in Nat
  BY <1>4, OrderDoesNotMatter
<1>7. parts \in [S -> Nat]
  BY <1>4 DEF SameCounts
<1>8. QED
  BY <1>5, <1>6, <1>7 DEF parts

\* The estimate grows, and after the last conversation it is that of the input.
LEMMA EstimateGrows ==
  ASSUME input \in Inputs, \A n \in 1..Len(input.sessions) : SoundSession(Sorted[n])
  PROVE  /\ EstimatedSize \in Nat
         /\ Len(input.sessions) # 0 => EstimateOf(Len(input.sessions)) = EstimatedSize
         /\ \A n \in 1..Len(input.sessions) :
              EstimateOf(n) \in Nat /\ EstimateOf(n) <= EstimateOf(Len(input.sessions))
<1> DEFINE N == Len(input.sessions)
           S == 1..N
           parts == EstimateParts
<1>1. N \in Nat /\ IsFiniteSet(S) /\ HeadingLength \in Nat
  BY InputTypes, NumbersTo DEF HeadingLength
<1>2. \A n \in S : Len(WriteSession(Sorted[n].events)) = Len(Sorted[n].events)
  BY SortedTypes, SoundLength
<1>3. /\ parts \in [S -> Nat] /\ Total(parts, S) \in Nat
      /\ EstimatedSize = HeadingLength + Total(parts, S)
  BY EstimatedSizeIs
<1>4. ASSUME NEW n \in S
      PROVE  /\ EstimateOf(n) = HeadingLength + Total(parts, 1..n)
             /\ Total(parts, 1..n) \in Nat /\ Total(parts, 1..n) <= Total(parts, S)
  <2> DEFINE first == [i \in 1..n |-> Len(WriteSession(Sorted[i].events)) + EstimatedLine(PathOf(i))]
  <2>1. 1..n \in SUBSET S
    BY <1>1
  <2>2. \A i \in 1..n : first[i] = parts[i]
    BY <1>2, <2>1 DEF EstimateParts
  <2>3. EstimateOf(n) = HeadingLength + Sum(first)
    BY DEF EstimateOf
  <2>4. DOMAIN first = 1..n /\ first = [i \in 1..n |-> first[i]]
    OBVIOUS
  <2> HIDE DEF first, parts, S
  <2>5. PartOf(first, parts, 1..n, S)
    <3>1. \A i \in 1..n : first[i] \in Nat
      BY <1>3, <2>1, <2>2
    <3>2. first \in [1..n -> Nat]
      BY <2>4, <3>1
    <3>3. QED
      BY <1>3, <2>1, <2>2, <3>2 DEF PartOf
  <2>6. /\ Total(first, 1..n) = Total(parts, 1..n) /\ Total(first, 1..n) \in Nat
        /\ Total(first, 1..n) <= Total(parts, S)
    BY <1>1, <2>5, TotalOfPart
  <2>7. Sum(first) = Total(first, 1..n)
    BY <2>4, SumIsTotal
  <2>8. QED
    BY <2>3, <2>6, <2>7
<1>5. N # 0 => N \in S
  BY <1>1
<1> HIDE DEF parts
<1>6. N # 0 => EstimateOf(N) = EstimatedSize
  BY <1>3, <1>4, <1>5
<1>7. EstimatedSize \in Nat
  BY <1>1, <1>3
<1>8. ASSUME NEW n \in S PROVE EstimateOf(n) \in Nat /\ EstimateOf(n) <= EstimateOf(N)
  <2>1. N # 0
    BY <1>1
  <2>2. EstimateOf(N) = HeadingLength + Total(parts, S)
    BY <1>3, <1>6, <2>1
  <2> HIDE DEF S, N
  <2>3. QED
    BY <1>1, <1>3, <1>4, <2>2
<1>9. QED
  BY <1>6, <1>7, <1>8

\* The limit is put to the estimate of the input, the default one for 0.
LEMMA LimitIsOfEstimate ==
  ASSUME input \in Inputs, \A n \in 1..Len(input.sessions) : SoundSession(Sorted[n])
  PROVE  ~TooLarge <=> (input.sessions # <<>> => \A limit \in Limits : EstimatedSize <= limit)
<1> DEFINE N == Len(input.sessions)
           limit == CombinedMarkdownLimit
<1>1. /\ N \in Nat /\ (input.sessions = <<>> <=> N = 0) /\ input.limit \in Int
      /\ DefaultCombinedMarkdownLimit \in Nat \ {0}
  BY InputTypes, ArchiveAssumption
<1>2. /\ EstimatedSize \in Nat
      /\ N # 0 => EstimateOf(N) = EstimatedSize
      /\ \A n \in 1..N : EstimateOf(n) \in Nat /\ EstimateOf(n) <= EstimateOf(N)
  BY EstimateGrows
<1>3. TooLarge <=> limit > 0 /\ \E n \in 1..N : EstimateOf(n) > limit
  BY DEF TooLarge
<1>4. limit \in Int
  BY <1>1 DEF CombinedMarkdownLimit
<1>5. (limit > 0 => Limits = {limit}) /\ (~(limit > 0) => Limits = {})
  BY <1>1 DEF CombinedMarkdownLimit, Limits
<1> HIDE DEF N, limit
<1>6. (\E n \in 1..N : EstimateOf(n) > limit) <=> (N # 0 /\ EstimatedSize > limit)
  <2>1. ASSUME NEW n \in 1..N, EstimateOf(n) > limit PROVE N # 0 /\ EstimatedSize > limit
    <3>1. N # 0 /\ EstimateOf(N) = EstimatedSize /\ EstimateOf(n) \in Nat /\ EstimateOf(n) <= EstimatedSize
      BY <1>1, <1>2, <2>1
    <3>2. QED
      BY <1>2, <1>4, <2>1, <3>1
  <2>2. ASSUME N # 0, EstimatedSize > limit PROVE \E n \in 1..N : EstimateOf(n) > limit
    <3>1. N \in 1..N /\ EstimateOf(N) = EstimatedSize
      BY <1>1, <1>2, <2>2
    <3>2. QED
      BY <2>2, <3>1
  <2>3. QED
    BY <2>1, <2>2
<1>7. EstimatedSize > limit <=> ~(EstimatedSize <= limit)
  BY <1>2, <1>4
<1>8. CASE limit > 0
  BY <1>1, <1>3, <1>5, <1>6, <1>7, <1>8
<1>9. CASE ~(limit > 0)
  BY <1>3, <1>5, <1>9
<1>10. QED
  BY <1>8, <1>9

\* Copies of conversations come to 14 bytes each more than was estimated of them.
LEMMA CombinedSizeIs ==
  ASSUME input \in Inputs, NEW copies,
         copies = [n \in 1..Len(input.sessions) |-> copies[n]],
         \A n \in 1..Len(input.sessions) : Len(copies[n].body) = Len(Sorted[n].events)
  PROVE  /\ SizeOfCombined(copies) = EstimatedSize + 14 * Len(input.sessions)
         /\ EstimatedSize \in Nat
<1> DEFINE N == Len(input.sessions)
           S == 1..N
           parts == EstimateParts
           written == [n \in S |-> Len(copies[n].body) + SourceLine(SessionPath(Sorted[n]))]
<1>1. /\ N \in Nat /\ IsFiniteSet(S) /\ Cardinality(S) = N /\ DOMAIN copies = S
      /\ HeadingLength \in Nat
  BY InputTypes, NumbersTo DEF HeadingLength
<1>2. /\ parts \in [S -> Nat] /\ Total(parts, S) \in Nat
      /\ EstimatedSize = HeadingLength + Total(parts, S)
  BY EstimatedSizeIs
<1>3. ASSUME NEW n \in S PROVE written[n] = parts[n] + 14 /\ parts[n] \in Nat
  <2>1. /\ SourceLine(PathOf(n)) = EstimatedLine(PathOf(n)) + 14
        /\ EstimatedLine(PathOf(n)) \in Nat /\ Len(Sorted[n].events) \in Nat
    BY SortedTypes, SessionTypes, LinesAbove DEF PathOf
  <2>2. written[n] = Len(Sorted[n].events) + SourceLine(PathOf(n))
    BY DEF PathOf
  <2>3. parts[n] = Len(Sorted[n].events) + EstimatedLine(PathOf(n))
    BY DEF EstimateParts
  <2> DEFINE above == SourceLine(PathOf(n))
             estimated == EstimatedLine(PathOf(n))
             messages == Len(Sorted[n].events)
             whole == written[n]
             part == parts[n]
  <2> HIDE DEF above, estimated, messages, whole, part, written, parts, S
  <2>4. /\ above = estimated + 14 /\ estimated \in Nat /\ messages \in Nat
        /\ whole = messages + above /\ part = messages + estimated
    BY <2>1, <2>2, <2>3 DEF above, estimated, messages, whole, part
  <2>5. whole = part + 14 /\ part \in Nat
    BY <2>4
  <2>6. QED
    BY <2>5 DEF whole, part
<1>4. SizeOfCombined(copies) = HeadingLength + Sum(written) /\ DOMAIN written = S
  BY <1>1 DEF SizeOfCombined
<1>5. written = [n \in S |-> written[n]]
  OBVIOUS
<1> HIDE DEF parts, written, S, N
<1>6. More(written, parts, S, 14)
  <2>1. \A n \in S : written[n] \in Nat
    BY <1>3
  <2>2. written \in [S -> Nat]
    BY <1>5, <2>1
  <2>3. QED
    BY <1>2, <1>3, <2>2 DEF More
<1>7. Total(written, S) = Total(parts, S) + 14 * Cardinality(S)
  BY <1>1, <1>6, TotalOfMore
<1>8. Sum(written) = Total(written, S)
  BY <1>4, SumIsTotal
<1>9. SizeOfCombined(copies) = EstimatedSize + 14 * N /\ EstimatedSize \in Nat
  BY <1>1, <1>2, <1>4, <1>7, <1>8
<1>10. QED
  BY <1>9 DEF N

\* The combined file is there when asked for and estimated to be within the limit,
\* the default one for 0, and over it by no more than the 14 bytes of each
\* conversation that the estimate leaves out.  It has each conversation once and in
\* the order of the records; left out, the manifest that was checked into the
\* archive says why.
THEOREM CombinedFileIsNearLimit == Spec => []CombinedNearLimit
<1>1. Kept /\ Described => CombinedNearLimit
  <2> SUFFICES ASSUME Kept, Described, pc = "published"
               PROVE  /\ (Combined \in DOMAIN zip) =
                           (/\ input.combined
                            /\ input.sessions # <<>> =>
                                 \A limit \in Limits : EstimatedSize <= limit)
                      /\ Combined \in DOMAIN zip /\ input.sessions # <<>> =>
                           \A limit \in Limits :
                             SizeOfCombined(zip[Combined].body) - limit
                               <= 14 * Len(input.sessions)
                      /\ Combined \in DOMAIN zip =>
                           LET records == Stats(zip[<<"sessions">>].body).records
                           IN  zip[Combined].body =
                                 [i \in DOMAIN records |-> zip[SessionPath(records[i])]]
                      /\ (zip[Manifest].body.exclusions # {}) =
                           (input.combined /\ Combined \notin DOMAIN zip)
    BY DEF CombinedNearLimit
  <2> DEFINE N == Len(input.sessions)
  <2>1. /\ Layout /\ Conversations /\ Faithful(zip) /\ Measured /\ pc \in Covered
        /\ SessionsJSONL(lines) /\ Settled /\ ListsFiles
    BY PublishedIsStaged DEF Kept, Typed, Contents, Covered, Described, Decided, Listed
  <2>2. /\ input \in Inputs /\ Recorded = N /\ N \in Nat
        /\ \A n \in 1..N : Sorted[n] \in Sessions
    BY <2>1, InputTypes, SortedTypes DEF Layout
  <2>3. \A n \in 1..N : SoundSession(Sorted[n])
    BY <2>1, RecordsAreSound
  <2>4. ~TooLarge <=> (input.sessions # <<>> => \A limit \in Limits : EstimatedSize <= limit)
    BY <2>2, <2>3, LimitIsOfEstimate
  <2>5. Combined \in DOMAIN zip <=> Combined \in DOMAIN staged
    BY PublishedIsStaged
  <2>6. Combined \in DOMAIN zip <=> (input.combined /\ ~TooLarge)
    BY <2>1, <2>5 DEF Settled, Fits
  <2>7. zip[Manifest].body = manifest
    <3>1. Manifest \in DOMAIN staged /\ Manifest # Checksums
      <4>1. Manifest \in DOMAIN zip
        BY EntryNames DEF Kept, Contents, Accepts
      <4>2. QED
        BY <4>1, PublishedIsStaged, EntryNames DEF Manifest, Checksums
    <3>2. zip[Manifest] = staged[Manifest].digest
      BY <3>1, PublishedIsStaged
    <3>3. QED
      BY <2>1, <3>2 DEF ListsFiles, Written
  <2>8. zip[Manifest].body.exclusions # {} <=> (input.combined /\ Combined \notin DOMAIN zip)
    BY <2>1, <2>6, <2>7 DEF Settled
  <2>9. ASSUME Combined \in DOMAIN zip
        PROVE  LET records == Stats(zip[<<"sessions">>].body).records
               IN  /\ zip[Combined].body = [i \in DOMAIN records |-> zip[SessionPath(records[i])]]
                   /\ SizeOfCombined(zip[Combined].body) = EstimatedSize + 14 * N
                   /\ EstimatedSize \in Nat
    <3>1. Stats(zip[<<"sessions">>].body).records = [n \in 1..N |-> usageSession(Sorted[n])]
      <4>1. zip[<<"sessions">>].body = lines
        BY PublishedIsStaged DEF Written
      <4>2. Stats(lines).records = [n \in 1..Recorded |-> usageSession(Sorted[n])]
        BY <2>1, RecordsAre
      <4>3. QED
        BY <2>2, <4>1, <4>2
    <3>2. \A n \in 1..N : SessionPath(usageSession(Sorted[n])) = PathOf(n)
      BY SessionLineIs DEF SessionPath, PathOf, usageSession
    <3>3. zip[Combined].body = Copies
      <4>1. Combined \in DOMAIN staged /\ Combined # Checksums
        BY <2>5, <2>9, NamesApart, EntryNames
      <4>2. QED
        BY <4>1, PublishedIsStaged DEF Copies
    <3>4. Copies = [n \in 1..N |-> Copies[n]]
      BY <2>1, <2>2, <2>5, <2>9 DEF Measured
    <3>5. ASSUME NEW n \in 1..N
          PROVE  Copies[n] = zip[PathOf(n)] /\ Len(Copies[n].body) = Len(Sorted[n].events)
      <4>1. PathOf(n) \in DOMAIN staged /\ PathOf(n) # Checksums
        BY <2>1, <2>2, PathsApart, EntryNames DEF Conversations, PathOf
      <4>2. zip[PathOf(n)] = staged[PathOf(n)].digest
        BY <4>1, PublishedIsStaged
      <4>3. Copies[n] = staged[PathOf(n)].digest
        BY <2>1, <2>2, <2>5, <2>9, <4>2 DEF Faithful, Copies
      <4>4. Copies[n].body = WriteSession(Sorted[n].events)
        <5>1. staged[PathOf(n)].digest = Written(WriteSession(Sorted[n].events))
          BY <2>1, <2>2 DEF Conversations
        <5>2. Written(WriteSession(Sorted[n].events)).body = WriteSession(Sorted[n].events)
          BY DEF Written
        <5>3. QED
          BY <4>3, <5>1, <5>2
      <4>5. QED
        BY <2>2, <2>3, <4>2, <4>3, <4>4, SoundLength
    <3>9. SizeOfCombined(Copies) = EstimatedSize + 14 * N /\ EstimatedSize \in Nat
      <4> DEFINE copies == Copies
      <4>1. copies = [n \in 1..Len(input.sessions) |-> copies[n]]
        BY <3>4
      <4>2. \A n \in 1..Len(input.sessions) : Len(copies[n].body) = Len(Sorted[n].events)
        BY <3>5
      <4> HIDE DEF copies
      <4>3. SizeOfCombined(copies) = EstimatedSize + 14 * Len(input.sessions)
            /\ EstimatedSize \in Nat
        BY <2>2, <4>1, <4>2, CombinedSizeIs
      <4>4. QED
        BY <4>3 DEF copies
    <3> DEFINE records == Stats(zip[<<"sessions">>].body).records
    <3>6. DOMAIN records = 1..N /\ \A n \in 1..N : zip[SessionPath(records[n])] = Copies[n]
      BY <3>1, <3>2, <3>5
    <3> HIDE DEF records, N
    <3>7. zip[Combined].body = [i \in DOMAIN records |-> zip[SessionPath(records[i])]]
      BY <3>3, <3>4, <3>6
    <3>8. QED
      BY <3>3, <3>7, <3>9 DEF records
  <2> DEFINE Within == input.sessions # <<>> => \A limit \in Limits : EstimatedSize <= limit
  <2>10. (Combined \in DOMAIN zip) = (input.combined /\ Within)
    <3>1. Within <=> ~TooLarge
      BY <2>4
    <3> HIDE DEF Within
    <3>2. QED
      BY <2>6, <3>1
  <2>11. (zip[Manifest].body.exclusions # {}) = (input.combined /\ Combined \notin DOMAIN zip)
    BY <2>8
  <2>12. ASSUME Combined \in DOMAIN zip, input.sessions # <<>>, NEW limit \in Limits
         PROVE  SizeOfCombined(zip[Combined].body) - limit <= 14 * N
    <3>1. EstimatedSize <= limit
      BY <2>10, <2>12
    <3>2. limit \in Int
      BY <2>2, ArchiveAssumption DEF Limits
    <3>3. SizeOfCombined(zip[Combined].body) = EstimatedSize + 14 * N /\ EstimatedSize \in Nat
      BY <2>9, <2>12
    <3> HIDE DEF N
    <3>4. QED
      BY <2>2, <3>1, <3>2, <3>3
  <2>13. QED
    BY <2>9, <2>10, <2>11, <2>12
<1>2. QED
  BY <1>1, AlwaysDescribed, PTL

(***************************************************************************)
(* The converse: the validation accepts what was staged of sessions that    *)
(* add up.                                                                  *)
(***************************************************************************)

\* Each larger than the one before it: each larger than all before it.
LEMMA Increases ==
  ASSUME NEW n \in Nat, NEW f, \A i \in 1..n : f[i] \in Int,
         \A i \in 2..n : f[i - 1] < f[i]
  PROVE  \A i, j \in 1..n : i < j => f[i] < f[j]
<1> SUFFICES ASSUME NEW i \in 1..n PROVE \A j \in 1..n : i < j => f[i] < f[j]
  OBVIOUS
<1> DEFINE Bad == {j \in 1..n : i < j /\ ~(f[i] < f[j])}
<1>1. ASSUME Bad # {} PROVE FALSE
  <2>1. Bad \in SUBSET Nat
    OBVIOUS
  <2>2. PICK j \in Bad : \A k \in Bad : j <= k
    <3> HIDE DEF Bad
    <3>1. QED
      BY <1>1, <2>1, LeastNumber
  <2>3. /\ j \in 1..n /\ i < j /\ ~(f[i] < f[j])
        /\ j \in 2..n /\ j - 1 \in 1..n /\ (i = j - 1 \/ i < j - 1)
    OBVIOUS
  <2>4. j - 1 \notin Bad
    BY <2>2, <2>3
  <2>5. f[j - 1] < f[j] /\ f[j - 1] \in Int /\ f[j] \in Int /\ f[i] \in Int
    BY <2>3
  <2>6. i = j - 1 \/ f[i] < f[j - 1]
    BY <2>3, <2>4
  <2>7. QED
    BY <2>3, <2>5, <2>6
<1>2. QED
  BY <1>1

\* A session that adds up is accepted.
LEMMA SoundIsAccepted ==
  ASSUME NEW session \in Sessions, SoundSession(session)
  PROVE  /\ GroupAccepted(usageSession(session), EventsText(session))
         /\ session.counts = CountsOf(EventsText(session))
         /\ ~Strays(session)
<1> DEFINE text == EventsText(session)
           events == session.events
           N == Len(events)
<1>1. N \in Nat /\ DOMAIN events = 1..N /\ events \in Seq(Events)
  BY SessionTypes
<1>2. /\ DOMAIN text = 1..N
      /\ \A e \in 1..N : /\ text[e].id = events[e].id /\ text[e].type = events[e].type
                         /\ text[e].sequence = events[e].sequence
                         /\ text[e].session = events[e].session
  BY <1>1, EventLineIs DEF EventsText
<1>3. session.counts = CountsOf(text)
  BY CountsOfText DEF SoundSession
<1>4. ~Strays(session)
  BY DEF SoundSession, Strays
<1>5. usageSession(session).id = session.id
  BY SessionLineIs
<1>6. \A e \in 1..N : events[e].session = session.id /\ events[e].sequence >= 0
  BY <1>1 DEF SoundSession
<1>7. \A e \in 1..N : events[e].type \in UsageTypes
  BY <1>1 DEF SoundSession, OfType, UsageTypes
<1>8. \A d, e \in 1..N : d < e => events[d].sequence < events[e].sequence
  <2> DEFINE place == [e \in 1..N |-> events[e].sequence]
  <2>1. \A e \in 1..N : place[e] \in Int
    <3>1. \A e \in 1..N : events[e] \in Events
      BY <1>1
    <3>2. QED
      BY <3>1 DEF Events
  <2>2. \A e \in 2..N : place[e - 1] < place[e]
    <3>1. \A e \in 2..N : e - 1 \in 1..N /\ e \in 1..N
      BY <1>1
    <3>2. QED
      BY <3>1 DEF SoundSession
  <2>3. \A e \in 1..N : place[e] = events[e].sequence
    OBVIOUS
  <2> HIDE DEF place, N
  <2>4. \A d, e \in 1..N : d < e => place[d] < place[e]
    BY <1>1, <2>1, <2>2, Increases
  <2>5. QED
    BY <2>3, <2>4
<1>9. \A d, e \in 1..N : d < e => events[d].id # events[e].id
  <2> DEFINE id == [e \in 1..N |-> events[e].id]
  <2>1. {events[e].id : e \in DOMAIN events} = {id[e] : e \in 1..N}
    BY <1>1
  <2>2. Cardinality({id[e] : e \in 1..N}) = N
    BY <2>1 DEF SoundSession
  <2>3. \A e \in 1..N : id[e] = events[e].id
    OBVIOUS
  <2> HIDE DEF id, N
  <2>4. \A d, e \in 1..N : id[d] = id[e] => d = e
    BY <1>1, <2>2, CountsDistinct
  <2>5. \A d, e \in 1..N : d < e => d # e
    BY <1>1
  <2>6. QED
    BY <2>3, <2>4, <2>5
<1> HIDE DEF text, N, events
<1>10. GroupAccepted(usageSession(session), text)
  BY <1>2, <1>5, <1>6, <1>7, <1>8, <1>9 DEF GroupAccepted
<1>11. QED
  BY <1>3, <1>4, <1>10 DEF text

\* The records of an input that adds up are accepted.
LEMMA SoundRecordsAccepted ==
  ASSUME Layout, pc \in Covered, SoundInput
  PROVE  SessionsJSONL(lines)
<1> DEFINE N == Len(input.sessions)
<1>1. /\ input \in Inputs /\ N \in Nat /\ Recorded = N /\ lines \in Seq(Lines)
      /\ \A n \in 1..N : Sorted[n] \in Sessions
  BY InputTypes, SortedTypes DEF Layout
<1>2. /\ \A n \in 1..N : SoundSession(Sorted[n])
      /\ \A m, n \in 1..N : Sorted[m].id = Sorted[n].id => m = n
  BY <1>1, SortedSound
<1>3. PICK start : Blocks(lines, Sorted, N, start)
  BY <1>1 DEF Layout
<1> HIDE DEF N
<1>4. SessionLines(lines) = {start[n] : n \in 1..N}
  BY <1>3 DEF Blocks
<1>5. ASSUME NEW n \in 1..N
      PROVE  /\ lines[start[n]] = usageSession(Sorted[n])
             /\ GroupAccepted(lines[start[n]], Group(lines, start[n]))
             /\ Finished(lines, start[n])
  <2>1. /\ lines[start[n]] = usageSession(Sorted[n])
        /\ Group(lines, start[n]) = EventsText(Sorted[n])
    BY <1>1, <1>3, GroupIsSession
  <2>2. /\ GroupAccepted(usageSession(Sorted[n]), EventsText(Sorted[n]))
        /\ Sorted[n].counts = CountsOf(EventsText(Sorted[n]))
    BY <1>1, <1>2, SoundIsAccepted
  <2>3. lines[start[n]].counts = Sorted[n].counts
    BY <2>1, SessionLineIs
  <2>4. QED
    BY <2>1, <2>2, <2>3 DEF Finished
<1>6. \A i, j \in SessionLines(lines) : lines[i].id = lines[j].id => i = j
  BY <1>2, <1>4, <1>5, SessionLineIs
<1>7. lines # <<>> => IsSession(lines[1])
  <2>1. CASE N = 0
    <3>1. start[1] = 1 /\ start[N + 1] = Len(lines) + 1
      BY <1>3 DEF Blocks
    <3>2. Len(lines) = 0
      BY <1>1, <2>1, <3>1
    <3>3. QED
      BY <1>1, <3>2
  <2>2. CASE N # 0
    <3>1. 1 \in 1..N /\ start[1] = 1
      BY <1>1, <1>3, <2>2 DEF Blocks
    <3>2. lines[1] = usageSession(Sorted[1])
      BY <1>5, <3>1
    <3>3. QED
      BY <1>1, <3>1, <3>2, LineKinds
  <2>3. QED
    BY <2>1, <2>2
<1>8. QED
  BY <1>4, <1>5, <1>6, <1>7 DEF SessionsJSONL

\* How long the blocks of the first sessions are.
LEMMA BlocksAddUp ==
  ASSUME NEW N \in Nat, NEW sizes \in [1..N -> Nat], NEW start,
         start[1] = 1, \A n \in 1..N : start[n + 1] = start[n] + sizes[n]
  PROVE  start[N + 1] = 1 + Total(sizes, 1..N)
<1> DEFINE Bad == {n \in 0..N : start[n + 1] # 1 + Total(sizes, 1..n)}
<1>1. IsFiniteSet(1..N)
  BY NumbersTo
<1>2. \A V \in SUBSET (1..N) :
        /\ Total(sizes, V) \in Nat
        /\ \A x \in V : Total(sizes, V) = sizes[x] + Total(sizes, V \ {x})
  <2> HIDE DEF Bad
  <2>1. Takes(sizes, 1..N)
    BY <1>1, TotalsTake
  <2>2. QED
    BY <2>1 DEF Takes
<1>3. ASSUME Bad # {} PROVE FALSE
  <2>1. Bad \in SUBSET Nat
    OBVIOUS
  <2>2. PICK n \in Bad : \A m \in Bad : n <= m
    <3> HIDE DEF Bad
    <3>1. QED
      BY <1>3, <2>1, LeastNumber
  <2>3. n \in 0..N /\ start[n + 1] # 1 + Total(sizes, 1..n)
    OBVIOUS
  <2>4. n # 0
    <3>1. 1..0 = {}
      OBVIOUS
    <3> HIDE DEF Bad
    <3>2. Total(sizes, 1..0) = 0
      BY <3>1, TotalOfNone
    <3>3. QED
      BY <2>3, <3>2
  <2>5. n - 1 \in 0..N /\ n \in 1..N /\ (n - 1) + 1 = n
    BY <2>3, <2>4
  <2>6. n - 1 \notin Bad
    BY <2>2, <2>3, <2>5
  <2>7. start[n] = 1 + Total(sizes, 1..(n - 1))
    BY <2>5, <2>6
  <2>8. start[n + 1] = start[n] + sizes[n] /\ sizes[n] \in Nat
    BY <2>5
  <2> DEFINE U == 1..N
             T == 1..n
             Z == 1..(n - 1)
  <2>9. /\ T \in SUBSET U /\ n \in T /\ T \ {n} = Z /\ Z \in SUBSET U
        /\ IsFiniteSet(U) /\ sizes \in [U -> Nat]
    <3> HIDE DEF Bad
    <3>1. n \in Nat /\ N \in Nat /\ n \in 1..N
      BY <2>5
    <3>2. T \in SUBSET U /\ n \in T /\ Z \in SUBSET U
      BY ONLY <3>1 DEF T, U, Z
    <3>3. T \ {n} = Z
      BY ONLY <3>1 DEF T, Z
    <3>4. QED
      BY <1>1, <3>2, <3>3
  <2>10. start[n] = 1 + Total(sizes, Z) /\ start[n + 1] # 1 + Total(sizes, T)
    BY <2>3, <2>7
  <2> HIDE DEF Bad, T, U, Z
  <2>11. Total(sizes, T) = sizes[n] + Total(sizes, T \ {n}) /\ Total(sizes, Z) \in Nat
    <3>1. \A V \in SUBSET U :
            /\ Total(sizes, V) \in Nat
            /\ \A x \in V : Total(sizes, V) = sizes[x] + Total(sizes, V \ {x})
      BY <1>2 DEF U
    <3>2. QED
      BY ONLY <2>9, <3>1
  <2>12. Total(sizes, T) = sizes[n] + Total(sizes, Z)
    BY <2>9, <2>11
  <2>13. QED
    BY ONLY <2>8, <2>10, <2>11, <2>12
<1>4. N \in 0..N /\ N \notin Bad
  BY <1>3, SMTT(30)
<1>5. QED
  BY <1>4

\* All the events are in the records, each on one line.
LEMMA EventsCounted ==
  ASSUME Layout, pc \in Covered, NEW counts,
         counts = [n \in 1..Len(input.sessions) |-> Len(Sorted[n].events)]
  PROVE  Stats(lines).events = Sum(counts)
<1> DEFINE N == Len(input.sessions)
           S == 1..N
           sizes == [n \in 1..N |-> Len(Sorted[n].events) + 1]
<1>1. /\ input \in Inputs /\ N \in Nat /\ Recorded = N /\ lines \in Seq(Lines)
      /\ \A n \in S : Sorted[n] \in Sessions
  BY InputTypes, SortedTypes DEF Layout
<1>2. \A n \in S : Len(Sorted[n].events) \in Nat
  BY <1>1, SessionTypes
<1>3. PICK start : Blocks(lines, Sorted, N, start)
  BY <1>1 DEF Layout
<1>4. IsFiniteSet(S) /\ Cardinality(S) = N /\ DOMAIN counts = S
  BY <1>1, NumbersTo
<1>5. More(sizes, counts, S, 1)
  BY <1>2 DEF More
<1>6. /\ start[1] = 1 /\ start[N + 1] = Len(lines) + 1
      /\ \A n \in 1..N : start[n + 1] = start[n] + sizes[n]
  <2>1. /\ start[1] = 1 /\ start[N + 1] = Len(lines) + 1 /\ start \in [1..(N + 1) -> Nat]
        /\ \A n \in 1..N : start[n + 1] = start[n] + Len(Sorted[n].events) + 1
    BY <1>3 DEF Blocks
  <2>2. \A n \in 1..N : start[n] \in Nat
    <3>1. \A n \in 1..N : n \in 1..(N + 1)
      BY <1>1
    <3>2. QED
      BY <2>1, <3>1
  <2>3. QED
    BY <1>2, <2>1, <2>2
<1>7. sizes \in [1..N -> Nat]
  BY <1>2
<1> HIDE DEF N, sizes
<1>8. start[N + 1] = 1 + Total(sizes, 1..N)
  BY <1>1, <1>6, <1>7, BlocksAddUp
<1>9. Total(sizes, S) = Total(counts, S) + N /\ Total(counts, S) \in Nat
  <2> HIDE DEF S
  <2>1. Total(sizes, S) = Total(counts, S) + 1 * Cardinality(S) /\ Total(counts, S) \in Nat
    BY <1>4, <1>5, TotalOfMore
  <2>2. QED
    BY <1>1, <1>4, <2>1
<1>10. Sum(counts) = Total(counts, S)
  BY <1>4, SumIsTotal
<1> DEFINE M == Len(lines)
           P == SessionLines(lines)
           Q == EventLines(lines)
<1>11. M \in Nat /\ M = Total(counts, S) + N
  BY <1>1, <1>6, <1>8, <1>9
<1>12. Q = (1..M) \ P /\ P \subseteq 1..M
  <2>1. DOMAIN lines = 1..M /\ \A i \in 1..M : lines[i] \in Lines
    BY <1>1
  <2>2. \A line \in Lines : IsEvent(line) <=> ~IsSession(line)
    BY DEF Lines, IsEvent, IsSession, usageSession, usageEvent
  <2>3. QED
    BY <2>1, <2>2 DEF EventLines, SessionLines
<1>13. Cardinality(P) = N
  BY <1>1 DEF Recorded
<1> HIDE DEF M, P, Q
<1>14. Cardinality(Q) = M - N
  <2>1. IsFiniteSet(1..M) /\ Cardinality(1..M) = M
    BY <1>11, NumbersTo
  <2>2. Cardinality((1..M) \ P) = Cardinality(1..M) - Cardinality((1..M) \cap P)
    BY <2>1, FS_Difference
  <2>3. (1..M) \cap P = P
    BY <1>12
  <2>4. QED
    BY <1>12, <1>13, <2>1, <2>2, <2>3
<1>15. Stats(lines).events = Cardinality(Q)
  <2>1. Stats(lines).events = Len(At(lines, Q))
    BY DEF Stats, Q
  <2>2. Cardinality(Q) \in Nat
    BY <1>1, <1>9, <1>11, <1>14
  <2> DEFINE f == At(lines, Q)
             k == Cardinality(Q)
  <2>3. f = [n \in 1..k |-> f[n]]
    BY DEF At
  <2> HIDE DEF f, k
  <2>4. k \in Nat
    BY <2>2 DEF k
  <2>5. Len(f) = k
    BY <2>3, <2>4, CountedIsSequence
  <2>6. QED
    BY <2>1, <2>5 DEF f, k
<1>16. QED
  BY <1>1, <1>9, <1>10, <1>11, <1>14, <1>15

\* What is counted of the sessions in their order comes to what is counted of the input.
LEMMA SameSums ==
  ASSUME input \in Inputs, NEW value,
         value \in [Sessions -> Nat]
  PROVE  Sum([n \in 1..Len(input.sessions) |-> value[Sorted[n]]]) =
           Sum([s \in DOMAIN input.sessions |-> value[input.sessions[s]]])
<1> DEFINE S == 1..Len(input.sessions)
           sorted == [n \in S |-> value[Sorted[n]]]
           given == [s \in S |-> value[input.sessions[s]]]
<1>1. /\ DOMAIN input.sessions = S
      /\ \A n \in S : Sorted[n] \in Sessions /\ input.sessions[n] \in Sessions
  BY InputTypes, SortedTypes
<1>2. SameCounts(sorted, given)
  <2>1. sorted \in [S -> Nat] /\ given \in [S -> Nat]
    BY <1>1
  <2>2. ASSUME NEW place, Sorting(place), NEW n \in S PROVE sorted[n] = given[place[n]]
    <3>1. place[n] \in S /\ Sorted[n] = input.sessions[place[n]]
      BY <2>2 DEF Sorting
    <3>2. QED
      BY <3>1
  <2> HIDE DEF sorted, given
  <2>3. QED
    BY <2>1, <2>2 DEF SameCounts
<1> HIDE DEF sorted, given
<1>3. Sum(sorted) = Sum(given)
  BY <1>2, OrderDoesNotMatter
<1>4. QED
  BY <1>1, <1>3 DEF sorted, given

\* The totals that the manifest was given are those that the validation computes of
\* the records.
LEMMA TotalsAreOfRecords ==
  ASSUME Layout, pc \in Covered, SoundInput
  PROVE  /\ Totals.sessions = Len(Stats(lines).records)
         /\ Totals.events = Stats(lines).events
         /\ Totals.errors = Len(input.errors)
         /\ Totals.truncations = Stats(lines).truncation
         /\ Totals.warnings = WarningsOf(input.adapters, Stats(lines).records)
<1> DEFINE N == Len(input.sessions)
           records == [n \in 1..N |-> usageSession(Sorted[n])]
           lengths == [session \in Sessions |-> Len(session.events)]
           warnings == [session \in Sessions |-> session.integrity.warnings]
<1>1. /\ input \in Inputs /\ N \in Nat /\ Recorded = N
      /\ DOMAIN input.sessions = 1..N /\ \A n \in 1..N : input.sessions[n] \in Sessions
      /\ \A n \in 1..N : Sorted[n] \in Sessions
  BY InputTypes, SortedTypes DEF Layout
<1>2. Stats(lines).records = records /\ Len(Stats(lines).records) = N
  BY <1>1, RecordsAre
<1>3. lengths \in [Sessions -> Nat] /\ warnings \in [Sessions -> Nat]
  <2>1. \A session \in Sessions : Len(session.events) \in Nat
    BY SessionTypes
  <2>2. \A session \in Sessions : session.integrity.warnings \in Nat
    <3>1. \A session \in Sessions : session.integrity \in Integrities
      BY SessionTypes
    <3>2. QED
      BY <3>1 DEF Integrities
  <2>3. QED
    BY <2>1, <2>2
<1>4. Totals.events = Stats(lines).events
  <2> DEFINE counts == [n \in 1..N |-> Len(Sorted[n].events)]
             given == [s \in DOMAIN input.sessions |-> input.sessions[s].counts.events]
  <2>1. Stats(lines).events = Sum(counts)
    <3> DEFINE c == counts
    <3>1. c = [n \in 1..Len(input.sessions) |-> Len(Sorted[n].events)]
      OBVIOUS
    <3> HIDE DEF c
    <3>2. Stats(lines).events = Sum(c)
      BY <3>1, EventsCounted
    <3>3. QED
      BY <3>2 DEF c
  <2>2. counts = [n \in 1..N |-> lengths[Sorted[n]]]
    BY <1>1
  <2>3. given = [s \in DOMAIN input.sessions |-> lengths[input.sessions[s]]]
    <3>1. ASSUME NEW s \in 1..N
          PROVE  input.sessions[s].counts.events = Len(input.sessions[s].events)
      <4>1. SoundSession(input.sessions[s])
        BY <1>1 DEF SoundInput
      <4>2. input.sessions[s].counts =
              [events |-> Len(input.sessions[s].events),
               user |-> Cardinality(OfType(input.sessions[s].events, "user")),
               assistant |-> Cardinality(OfType(input.sessions[s].events, "assistant"))]
        BY <4>1 DEF SoundSession
      <4>3. QED
        BY <4>2
    <3>2. \A s \in 1..N : lengths[input.sessions[s]] = Len(input.sessions[s].events)
      BY <1>1
    <3>3. QED
      BY <1>1, <3>1, <3>2
  <2>4. Totals.events = Sum(given)
    BY DEF Totals
  <2> HIDE DEF lengths, counts, given
  <2>5. Sum([n \in 1..N |-> lengths[Sorted[n]]]) =
          Sum([s \in DOMAIN input.sessions |-> lengths[input.sessions[s]]])
    BY <1>1, <1>3, SameSums
  <2>6. QED
    BY <2>1, <2>2, <2>3, <2>4, <2>5
<1>5. Totals.warnings = WarningsOf(input.adapters, records)
  <2> DEFINE counts == [n \in DOMAIN records |-> records[n].integrity.warnings]
             given == [s \in DOMAIN input.sessions |-> input.sessions[s].integrity.warnings]
             adapters == Sum([a \in DOMAIN input.adapters |-> input.adapters[a].warnings])
  <2>1. counts = [n \in 1..N |-> warnings[Sorted[n]]]
    BY <1>1, SessionLineIs
  <2>2. given = [s \in DOMAIN input.sessions |-> warnings[input.sessions[s]]]
    BY <1>1
  <2>3. Totals.warnings = adapters + Sum(given)
    BY DEF Totals, WarningsOf
  <2>4. WarningsOf(input.adapters, records) = adapters + Sum(counts)
    BY DEF WarningsOf
  <2> HIDE DEF warnings, counts, given, records, adapters
  <2>5. Sum([n \in 1..N |-> warnings[Sorted[n]]]) =
          Sum([s \in DOMAIN input.sessions |-> warnings[input.sessions[s]]])
    BY <1>1, <1>3, SameSums
  <2>6. QED
    BY <2>1, <2>2, <2>3, <2>4, <2>5
<1>6. /\ Totals.sessions = N /\ Totals.errors = Len(input.errors)
      /\ Totals.truncations = Stats(lines).truncation
  BY DEF Totals
<1> HIDE DEF records
<1>7. QED
  BY <1>2, <1>4, <1>5, <1>6

\* The reports of the records are those of the sessions.
LEMMA ReportsAreOfRecords ==
  ASSUME NEW n \in Nat, NEW sessions, DOMAIN sessions = 1..n, NEW records,
         records = [i \in 1..n |-> usageSession(sessions[i])], NEW described
  PROVE  /\ DOMAIN Links(records) = 1..n
         /\ \A i \in 1..n : Links(records)[i].path = SessionPath(sessions[i])
         /\ WriteREADME(Links(records)) = WriteREADME(Links(sessions))
         /\ WriteSummary(described, Links(records)) = WriteSummary(described, Links(sessions))
<1> DEFINE L == Links(records)
           M == Links(sessions)
<1>1. /\ DOMAIN L = 1..n /\ DOMAIN M = 1..n
      /\ \A i \in 1..n : /\ L[i].path = M[i].path /\ M[i].path = SessionPath(sessions[i])
                         /\ L[i].session.counts = M[i].session.counts
                         /\ L[i].session.integrity = M[i].session.integrity
  BY SessionLineIs DEF Links, SessionPath
<1> HIDE DEF L, M
<1>2. [i \in DOMAIN L |-> <<L[i].path, L[i].session.counts.events>>] =
        [i \in DOMAIN M |-> <<M[i].path, M[i].session.counts.events>>]
  BY <1>1
<1>3. [i \in DOMAIN L |-> <<L[i].path, L[i].session.counts, L[i].session.integrity.complete>>] =
        [i \in DOMAIN M |-> <<M[i].path, M[i].session.counts, M[i].session.integrity.complete>>]
  BY <1>1
<1>4. [i \in DOMAIN L |-> <<L[i].path, L[i].session.integrity.warnings>>] =
        [i \in DOMAIN M |-> <<M[i].path, M[i].session.integrity.warnings>>]
  BY <1>1
<1>5. WriteREADME(L) = WriteREADME(M)
  BY <1>2 DEF WriteREADME
<1>6. WriteSummary(described, L) = WriteSummary(described, M)
  BY <1>3, <1>4 DEF WriteSummary
<1>7. QED
  BY <1>1, <1>5, <1>6 DEF L, M

\* Nothing failed and nothing was damaged: what was staged of an input that adds up
\* is accepted.
LEMMA StagedIsAccepted ==
  ASSUME Kept, Described, pc = "validate", SoundInput, zip = OnDisk,
         \A name \in DOMAIN staged : staged[name].disk = staged[name].digest
  PROVE  Accepts(zip)
<1> DEFINE N == Len(input.sessions)
           records == Stats(lines).records
<1>1. /\ Layout /\ Conversations /\ pc \in Covered
      /\ HandedOver /\ Settled /\ ListsFiles /\ SumsFiles
      /\ staged[<<"sessions">>].digest = Written(lines)
  BY DEF Kept, Typed, Contents, Covered, Described, Decided, Listed, Summed
<1>2. DOMAIN zip = DOMAIN staged /\ \A name \in DOMAIN staged : zip[name] = staged[name].digest
  BY DEF OnDisk
<1>3. requiredEntries \subseteq DOMAIN zip
  <2>1. StagedBy(pc) = requiredEntries
    BY StagedBySteps
  <2>2. QED
    BY <1>2, <2>1 DEF Kept, Typed, TypeOK
<1>4. /\ \A name \in ReportNames \cup RecordNames \cup {Manifest, Checksums} : name \in DOMAIN staged
      /\ <<"README">> \in ReportNames /\ <<"REVIEW_GUIDE">> \in ReportNames
      /\ <<"SUMMARY">> \in ReportNames /\ <<"sessions">> \in RecordNames
      /\ <<"errors">> \in RecordNames /\ <<"redactions">> \in RecordNames
  BY <1>2, <1>3 DEF requiredEntries, ReportNames, RecordNames
<1>5. /\ zip[<<"sessions">>].body = lines /\ zip[<<"errors">>].body = input.errors
      /\ zip[<<"redactions">>].body = <<>> /\ zip[<<"REVIEW_GUIDE">>].body = <<>>
      /\ zip[<<"README">>].body = WriteREADME(Links(Sorted))
      /\ zip[<<"SUMMARY">>].body = WriteSummary(manifest, Links(Sorted))
  BY <1>1, <1>2, <1>4 DEF HandedOver, Reported, Written
<1>6. /\ zip[Manifest].body = manifest
      /\ zip[Checksums].body = DigestsExcept({Checksums})
  <2>1. zip[Manifest] = Written(manifest) /\ zip[Checksums] = Written(DigestsExcept({Checksums}))
    BY <1>1, <1>2, <1>4 DEF ListsFiles, SumsFiles
  <2>2. \A body : Written(body).body = body
    BY DEF Written
  <2>3. QED
    BY <2>1, <2>2
<1>7. ASSUME NEW names
      PROVE  /\ DOMAIN DigestsExcept(names) = DOMAIN zip \ names
             /\ \A name \in DOMAIN zip \ names : DigestsExcept(names)[name] = zip[name]
  BY <1>2 DEF DigestsExcept, DigestOf
<1>8. ChecksumsMatch(zip)
  BY <1>6, <1>7 DEF ChecksumsMatch
<1>9. FilesMatch(zip)
  <2> DEFINE names == {Manifest, Checksums}
             files == DigestsExcept(names)
  <2>1. zip[Manifest].body.files = files
    BY <1>1, <1>6 DEF ListsFiles
  <2>2. DOMAIN files = DOMAIN zip \ names /\ \A name \in DOMAIN zip \ names : files[name] = zip[name]
    BY <1>7
  <2> HIDE DEF files
  <2>3. QED
    BY <2>1, <2>2 DEF FilesMatch
<1>10. SessionsJSONL(lines)
  BY <1>1, SoundRecordsAccepted
<1>11. /\ manifest.totals = Totals /\ manifest.errors = input.errors
       /\ manifest.adapters = input.adapters
  BY <1>1 DEF HandedOver
<1>12. TotalsReconcile(zip)
  <2>1. /\ Totals.sessions = Len(Stats(lines).records)
        /\ Totals.events = Stats(lines).events
        /\ Totals.errors = Len(input.errors)
        /\ Totals.truncations = Stats(lines).truncation
        /\ Totals.warnings = WarningsOf(input.adapters, Stats(lines).records)
    BY <1>1, TotalsAreOfRecords
  <2>2. QED
    BY <1>5, <1>6, <1>11, <2>1 DEF TotalsReconcile
<1>13. ReportsMatch(zip)
  <2>1. /\ N \in Nat /\ Recorded = N /\ DOMAIN Sorted = 1..N
        /\ records = [i \in 1..N |-> usageSession(Sorted[i])]
    BY <1>1, InputTypes, SortedTypes, RecordsAre DEF Layout
  <2> HIDE DEF N, records
  <2>2. /\ DOMAIN Links(records) = 1..N
        /\ \A i \in 1..N : Links(records)[i].path = SessionPath(Sorted[i])
        /\ WriteREADME(Links(records)) = WriteREADME(Links(Sorted))
        /\ WriteSummary(manifest, Links(records)) = WriteSummary(manifest, Links(Sorted))
    BY <2>1, ReportsAreOfRecords, SMTT(30)
  <2>3. \A i \in 1..N : SessionPath(Sorted[i]) \in DOMAIN zip
    BY <1>1, <1>2, <2>1 DEF Conversations, PathOf
  <2>4. Stats(zip[<<"sessions">>].body).records = records
    BY <1>5 DEF records
  <2>5. QED
    BY <1>5, <1>6, <2>2, <2>3, <2>4 DEF ReportsMatch
<1>14. zip[Manifest].body.combined = (Combined \in DOMAIN zip)
  <2>1. Fits = (Combined \in DOMAIN staged)
    <3>1. Combined \in DOMAIN staged <=> Fits
      BY <1>1 DEF Settled
    <3>2. QED
      BY <3>1 DEF Fits
  <2>2. manifest.combined = Fits
    BY <1>1 DEF Settled
  <2>3. QED
    BY <1>2, <1>6, <2>1, <2>2
<1>15. reconcile(zip)
  BY <1>5, <1>9, <1>10, <1>12, <1>13, <1>14 DEF reconcile
<1>16. QED
  BY <1>3, <1>8, <1>15 DEF Accepts

(***************************************************************************)
(* Without a fault, an input that adds up passes.                           *)
(***************************************************************************)

\* Before the reports there are only schemas and conversations.
OnlyConversations == DOMAIN staged \subseteq Schemas \cup {PathOf(n) : n \in 1..Recorded}

Undamaged == \A name \in DOMAIN staged : staged[name].disk = staged[name].digest

\* With no fault every file has the bytes that were digested, so has the archive made
\* of them, and none that adds up has failed.
Faultless ==
  /\ pc = "sessions" => OnlyConversations
  /\ faults = {} => Undamaged
  /\ faults = {} /\ pc \in {"validate", "published"} => zip = OnDisk
  /\ SoundInputPasses

\* No name of a session that adds up is taken.
LEMMA NoneRefused ==
  ASSUME Kept, OnlyConversations, MoreSessions, SoundInput
  PROVE  ~Collides(NextSession) /\ ~Strays(NextSession)
<1> DEFINE N == Len(input.sessions)
           k == Recorded
<1>1. Layout /\ input \in Inputs
  BY DEF Kept, Typed, Layout
<1>2. k + 1 \in 1..N /\ NextSession = Sorted[k + 1] /\ NextSession \in Sessions /\ k \in Nat /\ N \in Nat
  BY <1>1, NextIsSession, InputTypes DEF Layout
<1>3. /\ \A n \in 1..N : SoundSession(Sorted[n])
      /\ \A m, n \in 1..N : Sorted[m].id = Sorted[n].id => m = n
  BY <1>1, SortedSound
<1>4. ~Strays(NextSession)
  BY <1>2, <1>3, SoundIsAccepted
<1>5. ASSUME Collides(NextSession) PROVE FALSE
  <2>1. SessionPath(Sorted[k + 1]) \in Schemas \cup {PathOf(n) : n \in 1..k}
    BY <1>2, <1>5 DEF Collides, OnlyConversations
  <2>2. SessionPath(Sorted[k + 1]) \notin Schemas
    BY PathsApart, EntryNames
  <2>3. PICK n \in 1..k : SessionPath(Sorted[k + 1]) = SessionPath(Sorted[n])
    BY <2>1, <2>2 DEF PathOf
  <2>4. Sorted[k + 1].id = Sorted[n].id
    BY <2>3 DEF SessionPath
  <2>5. n \in 1..N /\ n # k + 1
    <3> HIDE DEF k, N
    <3>1. QED
      BY <1>2
  <2>6. QED
    BY <1>2, <1>3, <2>4, <2>5
<1>6. QED
  BY <1>4, <1>5

\* What is staged is on disk as it was digested.
LEMMA StagingIsFresh ==
  ASSUME Kept,
         \/ StageSchemas \/ StageSession \/ StageReports \/ StageCombined \/ OmitCombined
         \/ StageManifest \/ StageChecksums
  PROVE  \E names : Fresh(names)
<1>1. CASE StageSchemas
  <2>1. pc = "schemas" /\ DOMAIN staged = {}
    BY <1>1 DEF StageSchemas, Kept, Contents
  <2>2. QED
    BY <1>1, <2>1, SchemasFresh
<1>2. CASE StageSession
  <2>1. staged' = staged ++ Add(SessionPath(NextSession), WriteSession(NextSession.events),
                                Len(WriteSession(NextSession.events)))
    BY <1>2 DEF StageSession
  <2>2. Fresh({SessionPath(NextSession)})
    BY <2>1, FreshAdd
  <2>3. QED
    BY <2>2
<1>3. CASE StageReports
  BY <1>3, ReportsWritten DEF Kept, Typed
<1>4. CASE StageCombined
  <2>1. Fresh({Combined})
    BY <1>4, FreshAdd DEF StageCombined
  <2>2. QED
    BY <2>1
<1>5. CASE OmitCombined
  BY <1>5, OmittedWritten
<1>6. CASE StageManifest
  <2>1. Fresh({Manifest})
    BY <1>6, FreshAdd DEF StageManifest
  <2>2. QED
    BY <2>1
<1>7. CASE StageChecksums
  <2>1. Fresh({Checksums})
    BY <1>7, FreshAdd DEF StageChecksums
  <2>2. QED
    BY <2>1
<1>8. QED
  BY <1>1, <1>2, <1>3, <1>4, <1>5, <1>6, <1>7

\* The steps, by the faults they leave.
LEMMA FaultsGrow ==
  [Next]_vars /\ faults' = {} =>
    /\ faults = {}
    /\ \/ Stage \/ CheckStrict \/ WriteZIP \/ Validate
       \/ UNCHANGED <<input, pc, lines, staged, zip, faults>>
<1> SUFFICES ASSUME [Next]_vars, faults' = {}
             PROVE  /\ faults = {}
                    /\ \/ Stage \/ CheckStrict \/ WriteZIP \/ Validate
                       \/ UNCHANGED <<input, pc, lines, staged, zip, faults>>
  OBVIOUS
<1>1. CASE Stage
  BY <1>1 DEF Stage, StageSchemas, StageSession, StageSessionRefused, StageReports, StageCombined,
              OmitCombined, SkipCombined, StageManifest, StageChecksums, Goto
<1>2. CASE CheckStrict \/ WriteZIP \/ Validate
  BY <1>2 DEF CheckStrict, WriteZIP, Validate, Goto
<1>3. CASE Fails \/ Cancel \/ StopsCancelled \/ \E name \in DOMAIN staged : Damage(name)
  BY <1>3 DEF Fails, Cancel, StopsCancelled, Damage, Goto
<1>4. CASE UNCHANGED vars
  BY <1>4 DEF vars
<1>5. QED
  BY <1>1, <1>2, <1>3, <1>4 DEF Next

\* Whatever else happens: the schemas come first, then conversations only.
LEMMA NextOnlyConversations ==
  ASSUME Kept, pc = "sessions" => OnlyConversations, [Next]_vars, pc' = "sessions"
  PROVE  OnlyConversations'
<1>1. CASE StageSchemas
  <2>1. pc = "schemas" /\ DOMAIN staged = {}
    BY <1>1 DEF StageSchemas, Kept, Contents
  <2>2. Fresh(Schemas)
    BY <1>1, <2>1, SchemasFresh
  <2>3. QED
    BY <2>1, <2>2 DEF Fresh, OnlyConversations
<1>2. CASE StageSession
  <2>1. /\ pc = "sessions" /\ MoreSessions /\ input' = input
        /\ staged' = staged ++ Add(SessionPath(NextSession), WriteSession(NextSession.events),
                                   Len(WriteSession(NextSession.events)))
    BY <1>2 DEF StageSession, Goto
  <2>2. DOMAIN staged' = DOMAIN staged \cup {SessionPath(NextSession)}
    BY <2>1, FreshAdd DEF Fresh
  <2>3. /\ Recorded' = Recorded + 1 /\ Recorded \in Nat /\ NextSession = Sorted[Recorded + 1]
        /\ Sorted' = Sorted
    BY <1>2, <2>1, SessionRecorded, NextIsSession, SortedStays DEF Kept, Typed, Layout
  <2>4. /\ \A n : PathOf(n)' = PathOf(n)
        /\ SessionPath(NextSession) = PathOf(Recorded + 1)
    BY <2>3 DEF PathOf
  <2>5. Recorded + 1 \in 1..(Recorded + 1) /\ \A n \in 1..Recorded : n \in 1..(Recorded + 1)
    BY <2>3
  <2>6. \A name \in DOMAIN staged' :
          name \in Schemas \/ \E n \in 1..(Recorded + 1) : name = PathOf(n)
    <3>1. \A name \in DOMAIN staged : name \in Schemas \/ \E n \in 1..Recorded : name = PathOf(n)
      BY <2>1 DEF OnlyConversations
    <3>2. QED
      BY <2>2, <2>4, <2>5, <3>1
  <2>7. OnlyConversations' <=>
          \A name \in DOMAIN staged' :
            name \in Schemas \/ \E n \in 1..Recorded' : name = PathOf(n)'
    BY DEF OnlyConversations
  <2>8. QED
    BY <2>3, <2>4, <2>6, <2>7
<1>3. CASE UNCHANGED <<input, lines, pc>> /\ DOMAIN staged' = DOMAIN staged
  <2>1. Recorded' = Recorded /\ \A n : PathOf(n)' = PathOf(n)
    BY <1>3, InputStays
  <2>2. OnlyConversations
    BY <1>3
  <2>3. QED
    BY <1>3, <2>1, <2>2 DEF OnlyConversations
<1>4. ASSUME NEW name \in DOMAIN staged, Damage(name) PROVE OnlyConversations'
  <2>1. UNCHANGED <<input, lines, pc>> /\ DOMAIN staged' = DOMAIN staged
    BY <1>4, Damaged DEF Damage, Kept, Typed
  <2>2. QED
    BY <1>3, <2>1
<1>5. CASE Cancel \/ UNCHANGED vars
  <2>1. UNCHANGED <<input, lines, pc, staged>>
    BY <1>5 DEF Cancel, vars
  <2>2. QED
    BY <1>3, <2>1
<1>6. CASE \/ StageSessionRefused \/ StageReports \/ StageCombined \/ OmitCombined \/ SkipCombined
           \/ StageManifest \/ StageChecksums \/ CheckStrict \/ WriteZIP \/ Validate
           \/ Fails \/ StopsCancelled
  BY <1>6 DEF StageSessionRefused, StageReports, StageCombined, OmitCombined, SkipCombined,
              StageManifest, StageChecksums, CheckStrict, WriteZIP, Validate, Fails,
              StopsCancelled, Goto
<1>7. QED
  BY <1>1, <1>2, <1>4, <1>5, <1>6 DEF Next, Stage

LEMMA NextFaultless == Kept /\ Described /\ Faultless /\ [Next]_vars => Faultless'
<1> SUFFICES ASSUME Kept, Described, Faultless, [Next]_vars PROVE Faultless'
  OBVIOUS
<1>1. pc' = "sessions" => OnlyConversations'
  BY NextOnlyConversations DEF Faultless
<1>2. ASSUME faults' = {} PROVE Undamaged'
  <2>1. Undamaged
    BY <1>2, FaultsGrow DEF Faultless
  <2>2. CASE \E names : Fresh(names)
    BY <2>1, <2>2 DEF Fresh, Undamaged
  <2>3. CASE UNCHANGED staged
    BY <2>1, <2>3 DEF Undamaged
  <2>4. CASE StageSessionRefused \/ SkipCombined \/ CheckStrict \/ WriteZIP \/ Validate
    BY <2>3, <2>4 DEF StageSessionRefused, SkipCombined, CheckStrict, WriteZIP, Validate
  <2>5. QED
    BY <1>2, <2>2, <2>3, <2>4, FaultsGrow, StagingIsFresh DEF Stage
<1>3. ASSUME faults' = {}, pc' \in {"validate", "published"} PROVE zip' = OnDisk'
  <2>1. CASE WriteZIP
    BY <2>1 DEF WriteZIP, OnDisk
  <2>2. CASE Validate
    <3>1. pc = "validate" /\ UNCHANGED <<staged, zip>> /\ faults = {}
      BY <1>3, <2>2, FaultsGrow DEF Validate
    <3>2. QED
      BY <3>1 DEF Faultless, OnDisk
  <2>3. CASE UNCHANGED <<input, pc, lines, staged, zip, faults>>
    BY <1>3, <2>3 DEF Faultless, OnDisk
  <2>4. CASE Stage \/ CheckStrict
    BY <1>3, <2>4 DEF Stage, CheckStrict, StageSchemas, StageSession, StageSessionRefused,
      StageReports, StageCombined, OmitCombined, SkipCombined, StageManifest, StageChecksums, Goto
  <2>5. QED
    BY <1>3, <2>1, <2>2, <2>3, <2>4, FaultsGrow
<1>4. ASSUME pc' = "failed", faults' = {}, SoundInput' PROVE FALSE
  <2>1. faults = {}
    BY <1>4, FaultsGrow
  <2>2. input' = input
    BY DEF Next, Stage, StageSchemas, StageSession, StageSessionRefused, StageReports,
      StageCombined, OmitCombined, SkipCombined, StageManifest, StageChecksums, CheckStrict,
      WriteZIP, Validate, Fails, Cancel, StopsCancelled, Damage, Goto, vars
  <2>3. SoundInput' <=> SoundInput
    BY <2>2 DEF SoundInput, SoundSession, OfType
  <2>4. SoundInput
    BY <1>4, <2>3
  <2>5. CASE StageSessionRefused
    <3>1. pc = "sessions" /\ MoreSessions /\ (Collides(NextSession) \/ Strays(NextSession))
      BY <2>5 DEF StageSessionRefused
    <3>2. QED
      BY <2>4, <3>1, NoneRefused DEF Faultless
  <2>6. CASE Validate
    <3>1. pc = "validate" /\ (Accepts(zip) => pc' = "published")
      BY <2>6 DEF Validate, Goto
    <3>2. zip = OnDisk /\ Undamaged
      BY <2>1, <3>1 DEF Faultless
    <3>3. Accepts(zip)
      BY <2>4, <3>1, <3>2, StagedIsAccepted DEF Undamaged
    <3>4. QED
      BY <1>4, <3>1, <3>3
  <2>7. CASE UNCHANGED <<input, pc, lines, staged, zip, faults>>
    BY <1>4, <2>1, <2>4, <2>7 DEF Faultless, SoundInputPasses
  <2>8. CASE \/ StageSchemas \/ StageSession \/ StageReports \/ StageCombined \/ OmitCombined
             \/ SkipCombined \/ StageManifest \/ StageChecksums \/ CheckStrict \/ WriteZIP
    BY <1>4, <2>8 DEF StageSchemas, StageSession, StageReports, StageCombined, OmitCombined,
      SkipCombined, StageManifest, StageChecksums, CheckStrict, WriteZIP, Goto
  <2>9. QED
    BY <1>4, <2>5, <2>6, <2>7, <2>8, FaultsGrow DEF Stage
<1>5. QED
  BY <1>1, <1>2, <1>3, <1>4 DEF Faultless, SoundInputPasses

\* Staging and validation are two accounts of one archive: with no fault, Build
\* refuses only sessions that do not add up.
THEOREM SoundPassesWithoutFault == Spec => []SoundInputPasses
<1>1. Init => Kept /\ Described /\ Faultless
  <2> SUFFICES ASSUME Init PROVE Kept /\ Described /\ Faultless
    OBVIOUS
  <2>1. Kept /\ Described
    BY InitTyped, InitContents, InitMeasured DEF Kept, Init, Described, Covered, Decided, Listed, Summed
  <2>2. pc = "schemas" /\ DOMAIN staged = {}
    BY DEF Init
  <2>3. QED
    BY <2>1, <2>2 DEF Faultless, SoundInputPasses, Undamaged
<1>2. (Kept /\ Described /\ Faultless) /\ [Next]_vars => (Kept /\ Described /\ Faultless)'
  BY NextTyped, NextContents, NextMeasured, NextDescribed, NextFaultless DEF Kept
<1>3. Kept /\ Described /\ Faultless => SoundInputPasses
  BY DEF Faultless
<1>4. Init /\ [][Next]_vars => []SoundInputPasses
  BY <1>1, <1>2, <1>3, PTL
<1>5. QED
  BY <1>4, PTL DEF Spec

===============================================================================
