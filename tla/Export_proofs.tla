---------------------------- MODULE Export_proofs -----------------------------
(* Proofs about Export, for any number of sources, limits and options. *)
EXTENDS Export, FiniteTheorems

(***************************************************************************)
(* Deduplication drops no key and keeps no key twice.                      *)
(***************************************************************************)

LEMMA FirstsKept ==
  ASSUME NEW S \in SUBSET Nat, NEW key
  PROVE  LET kept == FirstOfEach(S, key)
         IN  /\ kept \subseteq S
             /\ \A s \in S : s \in kept \/ (key[s] # NoID /\ \E t \in kept : key[s] = key[t])
             /\ \A s, t \in kept : key[s] = key[t] /\ key[s] # NoID => s = t
<1> DEFINE kept == FirstOfEach(S, key)
<1>1. kept = {s \in S : key[s] = NoID \/ \A t \in S : t < s => key[t] # key[s]}
  BY DEF FirstOfEach
<1> HIDE DEF kept
<1>2. ASSUME NEW s \in S, s \notin kept
      PROVE  key[s] # NoID /\ \E t \in kept : key[s] = key[t]
  <2>1. {x \in S : key[x] = key[s]} \in SUBSET Nat
    OBVIOUS
  <2>2. PICK t \in S : key[t] = key[s] /\ \A y \in S : key[y] = key[s] => t <= y
    BY <2>1, LeastNumber
  <2>3. t \in kept
    BY <1>1, <2>2
  <2>4. key[s] # NoID
    BY <1>1, <1>2
  <2>5. QED
    BY <2>2, <2>3, <2>4
<1>3. ASSUME NEW s \in kept, NEW t \in kept, key[s] = key[t], key[s] # NoID
      PROVE  s = t
  <2>1. ~(s < t) /\ ~(t < s) /\ s \in Nat /\ t \in Nat
    BY <1>1, <1>3
  <2>2. QED
    BY <2>1
<1>4. QED
  BY <1>1, <1>2, <1>3 DEF kept

LEMMA SourcesAreNumbers == Sources \in SUBSET Nat /\ 0 \notin Sources
BY ExportAssumption DEF Sources

LEMMA IdentitiesKept ==
  ASSUME NEW S \in SUBSET Sources
  PROVE  LET kept == FirstOfEach(S, [s \in Sources |-> Identity(s)])
         IN  /\ kept \subseteq S
             /\ \A s \in S : s \in kept \/ \E t \in kept : Identity(s) = Identity(t)
             /\ \A s, t \in kept : Identity(s) = Identity(t) /\ Identity(s) # NoID => s = t
<1> DEFINE key == [s \in Sources |-> Identity(s)]
           kept == FirstOfEach(S, key)
<1>1. \A s \in S : key[s] = Identity(s)
  OBVIOUS
<1> HIDE DEF key
<1>2. /\ kept \subseteq S
      /\ \A s \in S : s \in kept \/ (key[s] # NoID /\ \E t \in kept : key[s] = key[t])
      /\ \A s, t \in kept : key[s] = key[t] /\ key[s] # NoID => s = t
  BY SourcesAreNumbers, FirstsKept
<1> HIDE DEF kept
<1>3. QED
  BY <1>1, <1>2 DEF key, kept

LEMMA NativeIDsKept ==
  ASSUME NEW S \in SUBSET Sources
  PROVE  LET kept == FirstOfEach(S, [s \in Sources |-> NativeID(s)])
         IN  /\ kept \subseteq S
             /\ \A s \in S : s \in kept \/ (NativeID(s) # NoID /\ \E t \in kept : NativeID(s) = NativeID(t))
             /\ \A s, t \in kept : NativeID(s) = NativeID(t) /\ NativeID(s) # NoID => s = t
<1> DEFINE key == [s \in Sources |-> NativeID(s)]
           kept == FirstOfEach(S, key)
<1>1. \A s \in S : key[s] = NativeID(s)
  OBVIOUS
<1> HIDE DEF key
<1>2. /\ kept \subseteq S
      /\ \A s \in S : s \in kept \/ (key[s] # NoID /\ \E t \in kept : key[s] = key[t])
      /\ \A s, t \in kept : key[s] = key[t] /\ key[s] # NoID => s = t
  BY SourcesAreNumbers, FirstsKept
<1> HIDE DEF kept
<1>3. QED
  BY <1>1, <1>2 DEF key, kept

(***************************************************************************)
(* Types.                                                                  *)
(***************************************************************************)

\* Where the loops are: what is left to be read, and the session being read.
Position ==
  /\ remaining \subseteq all /\ all \subseteq found /\ finalized \subseteq all
  /\ phase = "parse" => current.source \in all \ (remaining \cup finalized)
  /\ phase # "parse" => current = Idle
  /\ remaining \cap finalized = {}
  /\ phase \in {"discover", "probe", "workspace"} => finalized = {}

LEMMA InitType == Init => TypeOK /\ Position
<1> SUFFICES ASSUME Init PROVE TypeOK /\ Position
  OBVIOUS
<1>1. current \in [source : Sources \cup {0}, attempt : {0, 1}] /\ current = Idle
  BY DEF Init, Idle
<1>2. outcome \in [Sources -> Outcomes] /\ size \in [Sources -> Nat]
  BY DEF Init, Outcomes
<1>3. QED
  BY <1>1, <1>2 DEF Init, TypeOK, Position, Phases, Codes

\* What a return of export does to the fields that it sets.
LEMMA ExitType ==
  ASSUME TypeOK, NEW exit \in Codes, NEW left \in SUBSET (Sources \X {0, 1}),
         Leave(exit, left) \/ Exit(exit)
  PROVE  /\ phase' = "exited" /\ phase' \in Phases
         /\ code' = exit /\ code' \in Codes
         /\ current' = Idle /\ current' \in [source : Sources \cup {0}, attempt : {0, 1}]
         /\ spools' \in SUBSET (Sources \X {0, 1})
BY DEF TypeOK, Leave, Exit, Idle, Phases

LEMMA DiscoverType == TypeOK /\ Discover => TypeOK'
<1> SUFFICES ASSUME TypeOK, Discover PROVE TypeOK'
  OBVIOUS
<1>1. PICK detected \in BOOLEAN, degraded \in BOOLEAN, failures \in BOOLEAN, n \in 0..MaxSources :
        LET sources == 1..n
            kept == FirstOfEach(sources, [s \in Sources |-> Identity(s)])
        IN  /\ found' = sources
            /\ all' = kept /\ remaining' = kept
            /\ outcome' = [s \in Sources |-> IF s \in sources \ kept THEN "duplicate" ELSE "none"]
            /\ incomplete' = (degraded \/ failures)
            /\ warnings' = (degraded \/ failures)
            /\ IF ~detected THEN Exit("no harness")
               ELSE IF sources = {} THEN Exit(IF failures THEN "source" ELSE "no sessions")
               ELSE phase' = "probe" /\ UNCHANGED <<current, spools, code>>
  BY ZenonT(60) DEF Discover
<1>2. 1..n \subseteq Sources
  BY ExportAssumption DEF Sources
<1>3. found' \in SUBSET Sources /\ all' \in SUBSET Sources /\ remaining' \in SUBSET Sources
  BY <1>1, <1>2, IdentitiesKept
<1>4. outcome' \in [Sources -> Outcomes] /\ incomplete' \in BOOLEAN /\ warnings' \in BOOLEAN
  BY <1>1 DEF Outcomes
<1>5. /\ phase' \in Phases /\ code' \in Codes /\ spools' \in SUBSET (Sources \X {0, 1})
      /\ current' \in [source : Sources \cup {0}, attempt : {0, 1}]
  <2>1. \A exit : exit \in Codes /\ Exit(exit) =>
          /\ phase' \in Phases /\ code' \in Codes /\ spools' \in SUBSET (Sources \X {0, 1})
          /\ current' \in [source : Sources \cup {0}, attempt : {0, 1}]
    BY ExitType
  <2>2. \/ \E exit \in Codes : Exit(exit)
        \/ phase' = "probe" /\ UNCHANGED <<current, spools, code>>
    BY <1>1 DEF Codes
  <2>3. QED
    BY <2>1, <2>2 DEF TypeOK, Phases
<1>6. QED
  BY <1>3, <1>4, <1>5 DEF TypeOK, Discover

LEMMA ProbeType == ASSUME TypeOK, NEW s \in Sources, Probe(s) PROVE TypeOK'
<1>1. PICK answer \in {"supported", "probe failed", "unsupported"}, warned \in BOOLEAN :
        /\ all' = IF answer = "supported" THEN all ELSE all \ {s}
        /\ outcome' = [outcome EXCEPT ![s] = IF answer = "supported" THEN @ ELSE answer]
        /\ warnings' = (warnings \/ ProbeWarns(answer, warned))
        /\ whole' = IF warned THEN whole ELSE whole \cup {s}
  BY DEF Probe
<1>2. outcome' \in [Sources -> Outcomes]
  BY <1>1 DEF TypeOK, Outcomes
<1>3. warnings' \in BOOLEAN
  BY <1>1 DEF ProbeWarns, TypeOK
<1>4. all' \in SUBSET Sources /\ whole' \in SUBSET Sources /\ remaining' \in SUBSET Sources
  BY <1>1 DEF Probe, TypeOK
<1>5. QED
  BY <1>2, <1>3, <1>4 DEF Probe, TypeOK

LEMMA ProbesDoneType == TypeOK /\ ProbesDone => TypeOK'
<1> SUFFICES ASSUME TypeOK, ProbesDone PROVE TypeOK'
  OBVIOUS
<1> DEFINE kept == FirstOfEach(all, [s \in Sources |-> NativeID(s)])
<1>1. all \in SUBSET Sources
  BY DEF TypeOK
<1>2. kept \in SUBSET Sources
  BY <1>1, NativeIDsKept
<1>3. /\ all' = kept /\ remaining' = kept
      /\ outcome' = [s \in Sources |-> IF s \in all \ kept THEN "duplicate" ELSE outcome[s]]
      /\ Exit("no sessions") \/ (phase' = "workspace" /\ UNCHANGED <<current, spools, code>>)
  BY DEF ProbesDone
<1>4. outcome' \in [Sources -> Outcomes]
  BY <1>3 DEF TypeOK, Outcomes
<1>5. /\ phase' \in Phases /\ code' \in Codes /\ spools' \in SUBSET (Sources \X {0, 1})
      /\ current' \in [source : Sources \cup {0}, attempt : {0, 1}]
  BY <1>3, ExitType DEF TypeOK, Phases, Codes
<1> HIDE DEF kept
<1>6. QED
  BY <1>2, <1>3, <1>4, <1>5 DEF TypeOK, ProbesDone

\* Leaving an attempt with any outcome.
LEMMA ConcludeType ==
  ASSUME TypeOK, NEW result \in Outcomes, NEW keep \in BOOLEAN, Conclude(result, keep)
  PROVE  /\ phase' \in Phases /\ spools' \in SUBSET (Sources \X {0, 1})
         /\ current' \in [source : Sources \cup {0}, attempt : {0, 1}]
         /\ outcome' \in [Sources -> Outcomes]
         /\ UNCHANGED <<options, history, found, all, remaining, incomplete, cancelled,
                        cancelledIn, code>>
BY DEF TypeOK, Conclude, Phases, Idle

LEMMA SessionEndsType == TypeOK /\ Position /\ SessionEnds => TypeOK'
<1> SUFFICES ASSUME TypeOK, Position, SessionEnds PROVE TypeOK'
  OBVIOUS
<1>0. current.source \in Sources
  BY DEF SessionEnds, Position, TypeOK
<1>1. PICK clean \in BOOLEAN, included \in BOOLEAN, large \in BOOLEAN, bytes \in Sizes :
        LET over == OverLimit(bytes)
            exported == included /\ ~over
        IN  /\ Conclude(IF exported THEN "exported"
                        ELSE IF included THEN "over limit" ELSE "unmatched", exported)
            /\ warnings' = (warnings \/ ~clean \/ (included /\ (over \/ large)))
            /\ whole' = IF clean THEN whole ELSE whole \ {current.source}
            /\ finalized' = IF exported THEN finalized \cup {current.source} ELSE finalized
            /\ used' = IF exported THEN used + bytes ELSE used
            /\ size' = IF exported THEN [size EXCEPT ![current.source] = bytes] ELSE size
  BY DEF SessionEnds
<1> DEFINE over == OverLimit(bytes)
           exported == included /\ ~over
           result == IF exported THEN "exported" ELSE IF included THEN "over limit" ELSE "unmatched"
<1>2. over \in BOOLEAN /\ exported \in BOOLEAN /\ result \in Outcomes
  BY DEF OverLimit, Outcomes
<1>3. bytes \in Nat
  BY ExportAssumption
<1>4. Conclude(result, exported)
  BY <1>1
<1>5. whole' \in SUBSET Sources /\ warnings' \in BOOLEAN
  BY <1>1 DEF TypeOK
<1>6. used' \in Nat
  <2>1. used' = used \/ used' = used + bytes
    BY <1>1
  <2>2. QED
    BY <1>3, <2>1 DEF TypeOK
<1>7. size' \in [Sources -> Nat]
  <2>1. size' = size \/ size' = [size EXCEPT ![current.source] = bytes]
    BY <1>1
  <2>2. QED
    BY <1>0, <1>3, <2>1 DEF TypeOK
<1>8. finalized' \in SUBSET Sources
  BY <1>0, <1>1 DEF TypeOK
<1> HIDE DEF over, exported, result
<1>9. QED
  BY <1>2, <1>4, <1>5, <1>6, <1>7, <1>8, ConcludeType DEF TypeOK

LEMMA NextType == TypeOK /\ Position /\ [Next]_vars => TypeOK'
<1> SUFFICES ASSUME TypeOK, Position, [Next]_vars PROVE TypeOK'
  OBVIOUS
<1>0. \A left \in SUBSET (Sources \X {0, 1}) : \A exit \in Codes :
        Leave(exit, left) \/ Exit(exit) =>
          /\ phase' \in Phases /\ code' \in Codes /\ spools' \in SUBSET (Sources \X {0, 1})
          /\ current' \in [source : Sources \cup {0}, attempt : {0, 1}]
  BY ExitType
<1>1. CASE OpenWorkspace
  BY <1>0, <1>1, ZenonT(60) DEF OpenWorkspace, TypeOK, Phases, Codes
<1>2. CASE SinkFails
  BY <1>0, <1>2 DEF SinkFails, TypeOK, Codes
<1>3. CASE SessionCancelled
  BY <1>0, <1>3 DEF SessionCancelled, TypeOK, Codes
<1>4. CASE Retry
  <2> DEFINE others == spools \ {CurrentSpool}
  <2>1. /\ others \in SUBSET (Sources \X {0, 1}) /\ current.source \in Sources
        /\ others \cup {<<current.source, 1>>} \in SUBSET (Sources \X {0, 1})
    BY <1>4 DEF Retry, Position, TypeOK
  <2>2. \/ /\ current' = [current EXCEPT !.attempt = 1]
           /\ spools' = others \cup {<<current.source, 1>>}
           /\ UNCHANGED <<phase, code>>
        \/ Leave("output", others)
    BY <1>4 DEF Retry
  <2> HIDE DEF others
  <2>3. /\ phase' \in Phases /\ code' \in Codes /\ spools' \in SUBSET (Sources \X {0, 1})
        /\ current' \in [source : Sources \cup {0}, attempt : {0, 1}]
    BY <1>0, <2>1, <2>2 DEF TypeOK, Codes
  <2>4. QED
    BY <1>4, <2>3 DEF Retry, TypeOK
<1>5. CASE SessionFails
  BY <1>5, ConcludeType DEF SessionFails, TypeOK, Outcomes
<1>6. CASE SessionsDone
  BY <1>0, <1>6, ZenonT(60) DEF SessionsDone, TypeOK, Phases, Codes
<1>7. CASE Publish
  <2>1. PICK exit \in Codes, left \in SUBSET spools : Leave(exit, left)
    BY <1>7 DEF Publish, Codes
  <2>2. QED
    BY <1>0, <1>7, <2>1 DEF Publish, TypeOK
<1>8. ASSUME NEW s \in Sources, SkipSession(s) PROVE TypeOK'
  BY <1>8 DEF SkipSession, TypeOK, Outcomes
<1>9. ASSUME NEW s \in Sources, BeginSession(s) PROVE TypeOK'
  BY <1>9 DEF BeginSession, TypeOK, Phases
<1>10. CASE Cancel
  BY <1>10 DEF Cancel, TypeOK
<1>11. CASE UNCHANGED vars
  BY <1>11 DEF vars, TypeOK
<1>12. QED
  BY <1>1, <1>2, <1>3, <1>4, <1>5, <1>6, <1>7, <1>8, <1>9, <1>10, <1>11,
     DiscoverType, ProbeType, ProbesDoneType, SessionEndsType DEF Next, Step

(***************************************************************************)
(* What a step does to the list of sources.                                *)
(***************************************************************************)

\* A session's end: it leaves the attempt, and joins those to be exported or not.
LEMMA SessionEndsStep ==
  ASSUME TypeOK, Position, SessionEnds
  PROVE  \E clean \in BOOLEAN, result \in {"exported", "over limit", "unmatched"} :
           /\ outcome' = [outcome EXCEPT ![current.source] = result]
           /\ finalized' = IF result = "exported" THEN finalized \cup {current.source} ELSE finalized
           /\ whole' = IF clean THEN whole ELSE whole \ {current.source}
           /\ warnings' = TRUE \/ (warnings' = warnings /\ clean /\ result # "over limit")
           /\ phase' = "sessions" /\ current' = Idle
           /\ UNCHANGED <<options, history, found, all, remaining, incomplete, code>>
<1>1. PICK clean \in BOOLEAN, included \in BOOLEAN, large \in BOOLEAN, bytes \in Sizes :
        LET over == OverLimit(bytes)
            exported == included /\ ~over
        IN  /\ Conclude(IF exported THEN "exported"
                        ELSE IF included THEN "over limit" ELSE "unmatched", exported)
            /\ warnings' = (warnings \/ ~clean \/ (included /\ (over \/ large)))
            /\ whole' = IF clean THEN whole ELSE whole \ {current.source}
            /\ finalized' = IF exported THEN finalized \cup {current.source} ELSE finalized
            /\ used' = IF exported THEN used + bytes ELSE used
            /\ size' = IF exported THEN [size EXCEPT ![current.source] = bytes] ELSE size
  BY DEF SessionEnds
<1> DEFINE over == OverLimit(bytes)
           exported == included /\ ~over
           result == IF exported THEN "exported" ELSE IF included THEN "over limit" ELSE "unmatched"
<1>2. result \in {"exported", "over limit", "unmatched"}
  OBVIOUS
<1>3. /\ outcome' = [outcome EXCEPT ![current.source] = result]
      /\ phase' = "sessions" /\ current' = Idle
      /\ UNCHANGED <<options, history, found, all, remaining, incomplete, code>>
  BY <1>1 DEF Conclude
<1>4. finalized' = IF result = "exported" THEN finalized \cup {current.source} ELSE finalized
  BY <1>1
<1>5. warnings' = TRUE \/ (warnings' = warnings /\ clean /\ result # "over limit")
  BY <1>1 DEF TypeOK
<1> HIDE DEF over, exported, result
<1>6. QED
  BY <1>1, <1>2, <1>3, <1>4, <1>5

LEMMA ExitStep ==
  ASSUME NEW exit, NEW left, Leave(exit, left) \/ Exit(exit)
  PROVE  phase' = "exited" /\ current' = Idle /\ code' = exit
BY DEF Leave, Exit

LEMMA NextPosition == TypeOK /\ Position /\ [Next]_vars => Position'
<1> SUFFICES ASSUME TypeOK, Position, [Next]_vars PROVE Position'
  OBVIOUS
<1>0. \A exit, left : Leave(exit, left) \/ Exit(exit) =>
        phase' = "exited" /\ current' = Idle /\ code' = exit
  BY ExitStep
<1>1. CASE Discover
  <2>1. PICK n \in 0..MaxSources :
          /\ found' = 1..n
          /\ all' = FirstOfEach(1..n, [s \in Sources |-> Identity(s)]) /\ remaining' = all'
          /\ (phase' = "exited" /\ current' = Idle) \/ (phase' = "probe" /\ current' = current)
    BY <1>0, <1>1 DEF Discover
  <2>2. 1..n \subseteq Sources
    BY ExportAssumption DEF Sources
  <2>3. all' \subseteq found'
    BY <2>1, <2>2, IdentitiesKept
  <2>4. finalized' = finalized /\ finalized = {} /\ current = Idle
    BY <1>1 DEF Discover, Position
  <2>5. QED
    BY <2>1, <2>3, <2>4 DEF Position
<1>2. ASSUME NEW s \in Sources, Probe(s) PROVE Position'
  BY <1>2 DEF Probe, Position
<1>3. CASE ProbesDone
  <2>1. all \in SUBSET Sources
    BY DEF TypeOK
  <2>2. all' \subseteq all /\ remaining' = all' /\ UNCHANGED <<found, finalized>>
    BY <1>3, <2>1, NativeIDsKept DEF ProbesDone
  <2>3. (phase' = "exited" /\ current' = Idle) \/ (phase' = "workspace" /\ current' = current)
    BY <1>0, <1>3 DEF ProbesDone
  <2>4. finalized = {} /\ current = Idle
    BY <1>3 DEF ProbesDone, Position
  <2>5. QED
    BY <2>2, <2>3, <2>4 DEF Position
<1>4. ASSUME UNCHANGED <<found, all, remaining, finalized>>, phase' = "exited", current' = Idle
      PROVE  Position'
  BY <1>4 DEF Position
<1>5. CASE OpenWorkspace
  BY <1>0, <1>4, <1>5 DEF OpenWorkspace, Position
<1>6. CASE SinkFails \/ SessionCancelled
  BY <1>0, <1>4, <1>6 DEF SinkFails, SessionCancelled
<1>7. CASE Retry
  <2>1. CASE phase' = "exited" /\ current' = Idle
    BY <1>4, <1>7, <2>1 DEF Retry
  <2>2. CASE phase' = phase /\ current' = [current EXCEPT !.attempt = 1]
    BY <1>7, <2>2 DEF Retry, Position, TypeOK
  <2>3. QED
    BY <1>0, <1>7, <2>1, <2>2 DEF Retry
<1>8. CASE SessionFails
  BY <1>8 DEF SessionFails, Conclude, Position
<1>9. CASE SessionEnds
  BY <1>9, SessionEndsStep DEF SessionEnds, Position
<1>10. CASE SessionsDone
  <2>1. \/ phase' = "exited" /\ current' = Idle
        \/ phase' = "publish" /\ current' = current
    BY <1>0, <1>10 DEF SessionsDone
  <2>2. QED
    BY <1>10, <2>1 DEF SessionsDone, Position
<1>11. CASE Publish
  BY <1>0, <1>4, <1>11 DEF Publish
<1>12. ASSUME NEW s \in Sources, SkipSession(s) PROVE Position'
  BY <1>12 DEF SkipSession, Position
<1>13. ASSUME NEW s \in Sources, BeginSession(s) PROVE Position'
  BY <1>13 DEF BeginSession, Position
<1>14. CASE Cancel \/ UNCHANGED vars
  BY <1>14 DEF Cancel, vars, Position
<1>15. QED
  BY <1>1, <1>2, <1>3, <1>5, <1>6, <1>7, <1>8, <1>9, <1>10, <1>11, <1>12, <1>13, <1>14
  DEF Next, Step

\* Every field of the run stays in its range.
THEOREM TypeCorrect == Spec => []TypeOK
<1>1. Init /\ [][Next]_vars => [](TypeOK /\ Position)
  BY InitType, NextType, NextPosition, PTL
<1>2. QED
  BY <1>1, PTL DEF Spec

(***************************************************************************)
(* No session is exported twice.                                           *)
(***************************************************************************)

\* The list holds no file twice once it was deduplicated, and no native session
\* twice once it was deduplicated again.
Distinct ==
  /\ phase # "discover" => \A s, t \in all : Identity(s) = Identity(t) => s = t
  /\ phase \notin {"discover", "probe"} =>
       \A s, t \in all : NativeID(s) = NativeID(t) /\ NativeID(s) # NoID => s = t

LEMMA NextDistinct == TypeOK /\ Position /\ Distinct /\ [Next]_vars => Distinct'
<1> SUFFICES ASSUME TypeOK, Position, Distinct, [Next]_vars PROVE Distinct'
  OBVIOUS
<1>1. CASE Discover
  <2>1. PICK detected \in BOOLEAN, n \in 0..MaxSources :
          /\ 1..n # {} => detected
          /\ all' = FirstOfEach(1..n, [s \in Sources |-> Identity(s)])
          /\ ~detected \/ 1..n = {} \/ phase' = "probe"
    BY <1>1 DEF Discover
  <2>2. 1..n \subseteq Sources
    BY ExportAssumption DEF Sources
  <2>3. \A s \in 1..n : Identity(s) # NoID
    BY <2>2, ExportAssumption DEF Identity, TypeOK, HistoriesOfFiles
  <2>4. all' \subseteq 1..n /\ \A s, t \in all' : Identity(s) = Identity(t) => s = t
    BY <2>1, <2>2, <2>3, IdentitiesKept
  <2>5. phase' = "probe" \/ all' = {}
    BY <2>1, <2>4
  <2>6. history' = history
    BY <1>1 DEF Discover
  <2>7. QED
    BY <2>4, <2>5, <2>6 DEF Distinct, Identity, NativeID
<1>2. CASE ProbesDone
  <2>1. all \in SUBSET Sources
    BY DEF TypeOK
  <2>2. all' = FirstOfEach(all, [s \in Sources |-> NativeID(s)]) /\ history' = history /\ phase = "probe"
    BY <1>2 DEF ProbesDone
  <2>3. all' \subseteq all /\ \A s, t \in all' : NativeID(s) = NativeID(t) /\ NativeID(s) # NoID => s = t
    BY <2>1, <2>2, NativeIDsKept
  <2>4. QED
    BY <2>2, <2>3 DEF Distinct, Identity, NativeID
<1>3. ASSUME all' \subseteq all, history' = history, phase # "discover",
             phase = "probe" => phase' = "probe"
      PROVE  Distinct'
  BY <1>3 DEF Distinct, Identity, NativeID
<1>4. CASE SessionEnds
  BY <1>3, <1>4, SessionEndsStep DEF SessionEnds
<1>5. CASE Cancel \/ UNCHANGED vars
  BY <1>5 DEF Cancel, vars, Distinct, Identity, NativeID
<1>6. QED
  BY <1>1, <1>2, <1>3, <1>4, <1>5 DEF Next, Step, Probe, OpenWorkspace, SinkFails,
     SessionCancelled, Retry, SessionFails, Conclude, SessionsDone, Publish, SkipSession,
     BeginSession

\* No two exported sessions come from the same file or hold the same native
\* session, whatever roots overlap and whatever the probes find.
THEOREM SessionsAreExportedOnce == Spec => []ExportedOnce
<1>1. Init => Distinct
  BY DEF Init, Distinct
<1>2. Position /\ Distinct => ExportedOnce
  BY DEF Position, Distinct, ExportedOnce, SameSession
<1>3. Init /\ [][Next]_vars => [](TypeOK /\ Position /\ Distinct)
  BY <1>1, InitType, NextType, NextPosition, NextDistinct, PTL
<1>4. QED
  BY <1>2, <1>3, PTL DEF Spec

(***************************************************************************)
(* No loss is silent.  The invariant follows every source through the run: *)
(* while there is no warning, what left the list is a duplicate of what is *)
(* in it, what is to be read was probed without loss, and what was read is *)
(* accounted for.                                                          *)
(***************************************************************************)

NoLossYet ==
  /\ \A s \in found :
       s \in all \/ (outcome[s] = "duplicate" /\ \E t \in all : SameSession(s, t))
  /\ phase = "probe" => all \ remaining \subseteq whole
  /\ phase \in {"workspace", "sessions", "parse", "publish"} =>
       /\ remaining \subseteq whole
       /\ phase = "parse" => current.source \in whole
       /\ \A s \in all : s \in remaining \/ s = current.source \/ Accounted(s)

Losses ==
  /\ incomplete => warnings
  /\ ~warnings => phase = "discover" \/ NoLossYet
  /\ phase = "publish" => remaining = {} /\ ~(options.strict /\ warnings)
  /\ code = "success" => phase = "exited"
  /\ LossReported

LEMMA DiscoverLosses == TypeOK /\ Position /\ Losses /\ Discover => Losses'
<1> SUFFICES ASSUME TypeOK, Position, Losses, Discover PROVE Losses'
  OBVIOUS
<1>1. PICK detected \in BOOLEAN, degraded \in BOOLEAN, failures \in BOOLEAN, n \in 0..MaxSources :
        LET kept == FirstOfEach(1..n, [s \in Sources |-> Identity(s)])
        IN  /\ found' = 1..n
            /\ all' = kept /\ remaining' = kept
            /\ outcome' = [s \in Sources |-> IF s \in (1..n) \ kept THEN "duplicate" ELSE "none"]
            /\ incomplete' = (degraded \/ failures)
            /\ warnings' = (degraded \/ failures)
            /\ \/ \E exit \in Codes \ {"success"} : Exit(exit)
               \/ phase' = "probe" /\ UNCHANGED <<current, spools, code>>
  BY ZenonT(60) DEF Discover, Codes
<1>2. 1..n \subseteq Sources
  BY ExportAssumption DEF Sources
<1>3. \A s \in 1..n : s \in all' \/ \E t \in all' : Identity(s) = Identity(t)
  BY <1>1, <1>2, IdentitiesKept
<1>4. \A s \in found' : s \in all' \/ (outcome'[s] = "duplicate" /\ \E t \in all' : SameSession(s, t)')
  <2>1. history' = history
    BY DEF Discover
  <2>2. ASSUME NEW s \in 1..n, s \notin all'
        PROVE  outcome'[s] = "duplicate" /\ \E t \in all' : SameSession(s, t)'
    <3>1. PICK t \in all' : Identity(s) = Identity(t)
      BY <1>3, <2>2
    <3>2. SameSession(s, t)'
      BY <2>1, <3>1 DEF SameSession, Identity
    <3>3. outcome'[s] = "duplicate"
      BY <1>1, <1>2, <2>2
    <3>4. QED
      BY <3>2, <3>3
  <2>3. QED
    BY <1>1, <2>2
<1>0. \A exit, left : Leave(exit, left) \/ Exit(exit) =>
        phase' = "exited" /\ current' = Idle /\ code' = exit
  BY ExitStep
<1>5. \/ phase' = "exited" /\ code' # "success"
      \/ phase' = "probe" /\ code' # "success"
  <2>1. code # "success"
    BY DEF Losses, Discover
  <2>2. QED
    BY <1>0, <1>1, <2>1
<1>6. all' \ remaining' = {} /\ (incomplete' => warnings')
  BY <1>1
<1>7. QED
  BY <1>4, <1>5, <1>6 DEF Losses, NoLossYet, LossReported

LEMMA ProbeLosses ==
  ASSUME TypeOK, Position, Losses, NEW s \in Sources, Probe(s)
  PROVE  Losses'
<1>1. PICK answer \in {"supported", "probe failed", "unsupported"}, warned \in BOOLEAN :
        /\ all' = IF answer = "supported" THEN all ELSE all \ {s}
        /\ outcome' = [outcome EXCEPT ![s] = IF answer = "supported" THEN @ ELSE answer]
        /\ warnings' = (warnings \/ ProbeWarns(answer, warned))
        /\ whole' = IF warned THEN whole ELSE whole \cup {s}
  BY DEF Probe
<1>2. /\ phase = "probe" /\ remaining' = remaining \ {s}
      /\ UNCHANGED <<options, history, phase, found, current, incomplete, code>>
  BY DEF Probe
<1>3. ASSUME ~warnings' PROVE NoLossYet'
  <2>1. ~warnings /\ answer = "supported" /\ ~warned
    BY <1>1, <1>3 DEF ProbeWarns
  <2>2. all' = all /\ whole' = whole \cup {s}
    BY <1>1, <2>1
  <2>3. outcome' = outcome
    BY <1>1, <2>1 DEF TypeOK
  <2>4. NoLossYet
    BY <1>2, <2>1 DEF Losses
  <2>5. QED
    BY <1>2, <2>2, <2>3, <2>4 DEF NoLossYet, SameSession, Identity, NativeID
<1>4. incomplete' => warnings'
  BY <1>1, <1>2 DEF Losses, ProbeWarns, TypeOK
<1>5. code' # "success"
  BY <1>2 DEF Losses
<1>6. QED
  BY <1>2, <1>3, <1>4, <1>5 DEF Losses, LossReported

LEMMA ProbesDoneLosses == TypeOK /\ Position /\ Losses /\ ProbesDone => Losses'
<1> SUFFICES ASSUME TypeOK, Position, Losses, ProbesDone PROVE Losses'
  OBVIOUS
<1>1. /\ all' = FirstOfEach(all, [s \in Sources |-> NativeID(s)]) /\ remaining' = all'
      /\ outcome' = [s \in Sources |-> IF s \in all \ all' THEN "duplicate" ELSE outcome[s]]
      /\ phase = "probe" /\ remaining = {}
      /\ UNCHANGED <<options, history, found, whole, incomplete, warnings>>
      /\ \/ Exit("no sessions")
         \/ phase' = "workspace" /\ UNCHANGED <<current, spools, code>>
  BY DEF ProbesDone
<1>2. all \subseteq Sources /\ found \subseteq Sources
  BY DEF TypeOK
<1>3. /\ all' \subseteq all
      /\ \A s \in all : s \in all' \/ (NativeID(s) # NoID /\ \E t \in all' : NativeID(s) = NativeID(t))
  BY <1>1, <1>2, NativeIDsKept
<1>4. ASSUME ~warnings PROVE NoLossYet'
  <2>1. NoLossYet
    BY <1>1, <1>4 DEF Losses
  <2>2. ASSUME NEW s \in all, s \notin all'
        PROVE  outcome'[s] = "duplicate" /\ \E t \in all' : SameSession(s, t)
    BY <1>1, <1>2, <1>3, <2>2 DEF SameSession
  <2>3. ASSUME NEW s \in found, s \notin all
        PROVE  outcome'[s] = "duplicate" /\ \E t \in all' : SameSession(s, t)
    <3>1. outcome[s] = "duplicate" /\ outcome'[s] = outcome[s]
      BY <1>1, <1>2, <2>1, <2>3 DEF NoLossYet
    <3>2. PICK t \in all : SameSession(s, t)
      BY <2>1, <2>3 DEF NoLossYet
    <3>3. NativeID(s) = NativeID(t)
      BY <3>2 DEF SameSession, NativeID
    <3>4. CASE t \in all'
      BY <3>1, <3>2, <3>4
    <3>5. CASE t \notin all'
      BY <1>3, <3>1, <3>3, <3>5 DEF SameSession
    <3>6. QED
      BY <3>4, <3>5
  <2>4. \A s \in found : s \in all' \/ (outcome'[s] = "duplicate" /\ \E t \in all' : SameSession(s, t))
    BY <2>2, <2>3
  <2>5. all' \subseteq whole
    BY <1>1, <1>3, <2>1 DEF NoLossYet
  <2>6. phase' \in {"workspace", "exited"}
    BY <1>1, ExitStep
  <2>7. QED
    BY <1>1, <2>4, <2>5, <2>6 DEF NoLossYet, SameSession, Identity, NativeID
<1>0. \A exit, left : Leave(exit, left) \/ Exit(exit) =>
        phase' = "exited" /\ current' = Idle /\ code' = exit
  BY ExitStep
<1>5. phase' \in {"workspace", "exited"} /\ code' # "success"
  <2>1. code # "success"
    BY <1>1 DEF Losses
  <2>2. \/ Exit("no sessions")
        \/ phase' = "workspace" /\ code' = code
    BY <1>1
  <2>3. CASE Exit("no sessions")
    <3>1. phase' = "exited" /\ code' = "no sessions"
      BY <1>0, <2>3
    <3>2. QED
      BY <3>1
  <2>4. QED
    BY <2>1, <2>2, <2>3
<1>6. QED
  BY <1>1, <1>4, <1>5 DEF Losses, LossReported

\* The steps that only leave the run, with another code than success.
LEMMA FailureLosses ==
  ASSUME Losses, phase # "discover", phase' = "exited", code' # "success",
         UNCHANGED <<incomplete, warnings, history, found, all, remaining, outcome, whole>>
  PROVE  Losses'
<1>1. ~warnings => NoLossYet
  BY DEF Losses
<1>2. QED
  BY <1>1 DEF Losses, NoLossYet, LossReported, SameSession, Identity, NativeID

LEMMA LoopLosses ==
  ASSUME TypeOK, Position, Losses, NEW s \in Sources, SkipSession(s) \/ BeginSession(s)
  PROVE  Losses'
<1>1. /\ phase = "sessions" /\ s \in remaining /\ remaining' = remaining \ {s}
      /\ phase' \in {"sessions", "parse"} /\ code' = code
      /\ warnings => warnings'
      /\ UNCHANGED <<options, history, found, all, whole, incomplete>>
  <2>1. CASE SkipSession(s)
    BY <2>1 DEF SkipSession
  <2>2. CASE BeginSession(s)
    BY <2>2 DEF BeginSession
  <2>3. QED
    BY <2>1, <2>2
<1>2. ASSUME ~warnings' PROVE NoLossYet'
  <2>1. NoLossYet
    BY <1>1, <1>2 DEF Losses
  <2>2. \A t \in found : t \in all \/ outcome[t] = "duplicate"
    BY <2>1 DEF NoLossYet
  <2>3. s \in all /\ current = Idle
    BY <1>1 DEF Position
  <2>4. CASE SkipSession(s)
    <3>1. outcome' = [outcome EXCEPT ![s] = "outside"] /\ UNCHANGED <<phase, current>>
      BY <2>4 DEF SkipSession
    <3>2. outcome'[s] = "outside" /\ \A t \in Sources \ {s} : outcome'[t] = outcome[t]
      BY <3>1 DEF TypeOK
    <3>3. all \subseteq Sources /\ found \subseteq Sources
      BY DEF TypeOK
    <3>4. QED
      BY <1>1, <2>1, <2>3, <3>1, <3>2, <3>3
         DEF NoLossYet, Accounted, SameSession, Identity, NativeID
  <2>5. CASE BeginSession(s)
    <3>1. outcome' = outcome /\ phase' = "parse" /\ current'.source = s
      BY <2>5 DEF BeginSession
    <3>2. 0 \notin all
      BY DEF TypeOK, Sources
    <3>3. \A t \in all : t \in remaining \/ Accounted(t)
      BY <1>1, <2>1, <2>3, <3>2 DEF NoLossYet, Idle
    <3>4. QED
      BY <1>1, <2>1, <3>1, <3>3 DEF NoLossYet, Accounted, SameSession, Identity, NativeID
  <2>6. QED
    BY <2>4, <2>5
<1>3. QED
  BY <1>1, <1>2 DEF Losses, LossReported

\* OpenWorkspace, SinkFails, SessionCancelled and Retry: the run goes on with what
\* it knows, or fails.
LEMMA FrameLosses ==
  ASSUME TypeOK, Position, Losses, OpenWorkspace \/ SinkFails \/ SessionCancelled \/ Retry
  PROVE  Losses'
<1>0. \A exit, left : Leave(exit, left) \/ Exit(exit) =>
        phase' = "exited" /\ current' = Idle /\ code' = exit
  BY ExitStep
<1>1. /\ UNCHANGED <<incomplete, warnings, options, history, found, all, remaining, outcome, whole>>
      /\ phase \in {"workspace", "sessions", "parse"}
  BY DEF OpenWorkspace, SinkFails, SessionCancelled, Retry
<1>2. code # "success"
  BY <1>1 DEF Losses
<1>3. \/ (\E left : Leave("output", left)) \/ Exit("cancelled")
      \/ phase = "workspace" /\ phase' = "sessions" /\ current' = current /\ code' = code
      \/ /\ phase = "parse" /\ phase' = phase /\ code' = code
         /\ current' = [current EXCEPT !.attempt = 1]
  BY DEF OpenWorkspace, SinkFails, SessionCancelled, Retry, Exit
<1>4. CASE (\E left : Leave("output", left)) \/ Exit("cancelled")
  <2>1. phase' = "exited" /\ (code' = "output" \/ code' = "cancelled")
    BY <1>0, <1>4
  <2>2. phase # "discover" /\ code' # "success"
    BY <1>1, <2>1
  <2>3. QED
    BY <1>1, <2>1, <2>2, FailureLosses
<1>5. CASE phase = "workspace" /\ phase' = "sessions" /\ current' = current /\ code' = code
  BY <1>1, <1>2, <1>5 DEF Losses, NoLossYet, LossReported, Accounted, SameSession, Identity, NativeID
<1>6. CASE /\ phase = "parse" /\ phase' = phase /\ code' = code
           /\ current' = [current EXCEPT !.attempt = 1]
  <2>1. current'.source = current.source
    BY <1>6 DEF TypeOK
  <2>2. QED
    BY <1>1, <1>2, <1>6, <2>1
       DEF Losses, NoLossYet, LossReported, Accounted, SameSession, Identity, NativeID
<1>7. QED
  BY <1>3, <1>4, <1>5, <1>6

\* A session that fails is a warning.
LEMMA SessionFailsLosses == ASSUME TypeOK, Position, Losses, SessionFails PROVE Losses'
BY DEF SessionFails, Conclude, Losses, LossReported

\* A session is accounted for, or there is a warning.
LEMMA SessionEndsLosses == ASSUME TypeOK, Position, Losses, SessionEnds PROVE Losses'
<1>1. PICK clean \in BOOLEAN, result \in {"exported", "over limit", "unmatched"} :
        /\ outcome' = [outcome EXCEPT ![current.source] = result]
        /\ whole' = IF clean THEN whole ELSE whole \ {current.source}
        /\ warnings' = TRUE \/ (warnings' = warnings /\ clean /\ result # "over limit")
        /\ phase' = "sessions" /\ current' = Idle
        /\ UNCHANGED <<options, history, found, all, remaining, incomplete, code>>
  BY SessionEndsStep
<1>2. phase = "parse" /\ code # "success"
  BY DEF SessionEnds, Losses
<1>3. ASSUME ~warnings' PROVE NoLossYet'
  <2>1. NoLossYet /\ clean /\ result \in {"exported", "unmatched"} /\ whole' = whole
    BY <1>1, <1>2, <1>3 DEF Losses
  <2>2. current.source \in all /\ all \subseteq Sources /\ found \subseteq Sources
    BY <1>2 DEF Position, TypeOK
  <2>3. /\ outcome'[current.source] = result
        /\ \A s \in Sources \ {current.source} : outcome'[s] = outcome[s]
    BY <1>1, <2>2 DEF TypeOK
  <2>4. \A s \in all : s \in remaining \/ Accounted(s)'
    BY <1>2, <2>1, <2>2, <2>3 DEF NoLossYet, Accounted
  <2>5. \A s \in found : s \in all \/ (outcome'[s] = "duplicate" /\ \E t \in all : SameSession(s, t))
    BY <2>1, <2>2, <2>3 DEF NoLossYet
  <2>6. remaining \subseteq whole
    BY <1>2, <2>1 DEF NoLossYet
  <2>7. QED
    BY <1>1, <2>1, <2>4, <2>5, <2>6 DEF NoLossYet, SameSession, Identity, NativeID
<1>4. incomplete' => warnings'
  BY <1>1 DEF Losses
<1>5. QED
  BY <1>1, <1>2, <1>3, <1>4 DEF Losses, LossReported

LEMMA SessionsDoneLosses == ASSUME TypeOK, Position, Losses, SessionsDone PROVE Losses'
<1>0. \A exit, left : Leave(exit, left) \/ Exit(exit) =>
        phase' = "exited" /\ current' = Idle /\ code' = exit
  BY ExitStep
<1>1. /\ UNCHANGED <<incomplete, warnings, options, history, found, all, remaining, outcome, whole>>
      /\ phase = "sessions" /\ remaining = {}
      /\ \/ Exit("no sessions") \/ Exit("strict")
         \/ /\ ~(options.strict /\ warnings)
            /\ phase' = "publish" /\ current' = current /\ code' = code
  BY DEF SessionsDone
<1>2. CASE Exit("no sessions") \/ Exit("strict")
  <2>1. phase' = "exited" /\ (code' = "no sessions" \/ code' = "strict")
    BY <1>0, <1>2
  <2>2. phase # "discover" /\ code' # "success"
    BY <1>1, <2>1
  <2>3. QED
    BY <1>1, <2>1, <2>2, FailureLosses
<1>3. CASE /\ ~(options.strict /\ warnings)
           /\ phase' = "publish" /\ current' = current /\ code' = code
  BY <1>1, <1>3 DEF Losses, NoLossYet, LossReported, Accounted, SameSession, Identity, NativeID
<1>4. QED
  BY <1>1, <1>2, <1>3

\* The only step that succeeds: by then every source was followed to its end.
LEMMA PublishLosses == ASSUME TypeOK, Position, Losses, Publish PROVE Losses'
<1>0. \A exit, left : Leave(exit, left) \/ Exit(exit) =>
        phase' = "exited" /\ current' = Idle /\ code' = exit
  BY ExitStep
<1>1. /\ UNCHANGED <<incomplete, warnings, options, history, found, all, remaining, outcome, whole>>
      /\ phase = "publish" /\ \E exit, left : Leave(exit, left)
  BY DEF Publish
<1>2. phase' = "exited"
  BY <1>0, <1>1
<1>3. ASSUME ~warnings PROVE NoLossYet /\ \A s \in found : Covered(s)
  <2>1. NoLossYet
    BY <1>1, <1>3 DEF Losses
  <2>2. remaining = {} /\ current.source = 0
    BY <1>1 DEF Losses, Position, Idle
  <2>3. \A s \in all : Accounted(s)
    BY <1>1, <2>1, <2>2, SourcesAreNumbers DEF NoLossYet, TypeOK
  <2>4. all \subseteq found
    BY DEF Position
  <2>5. QED
    BY <2>1, <2>3, <2>4 DEF NoLossYet, Covered
<1>4. incomplete => warnings
  BY DEF Losses
<1>5. ~(options.strict /\ warnings)
  BY <1>1 DEF Losses
<1>6. incomplete \/ (\E s \in found : ~Covered(s)) => warnings /\ ~options.strict
  BY <1>3, <1>4, <1>5 DEF TypeOK
<1>7. LossReported'
  BY <1>1, <1>6 DEF LossReported, Covered, Accounted, SameSession, Identity, NativeID
<1>8. ~warnings => NoLossYet'
  BY <1>1, <1>2, <1>3 DEF NoLossYet, SameSession, Identity, NativeID
<1>9. QED
  BY <1>1, <1>2, <1>4, <1>7, <1>8 DEF Losses

LEMMA NextLosses == TypeOK /\ Position /\ Losses /\ [Next]_vars => Losses'
<1> SUFFICES ASSUME TypeOK, Position, Losses, [Next]_vars PROVE Losses'
  OBVIOUS
<1>1. CASE Cancel
  BY <1>1 DEF Cancel, Losses, NoLossYet, LossReported, Covered, Accounted, SameSession, Identity,
     NativeID
<1>2. CASE UNCHANGED vars
  BY <1>2 DEF vars, Losses, NoLossYet, LossReported, Covered, Accounted, SameSession, Identity,
     NativeID
<1>3. QED
  BY <1>1, <1>2, DiscoverLosses, ProbeLosses, ProbesDoneLosses, LoopLosses, FrameLosses,
     SessionFailsLosses, SessionEndsLosses, SessionsDoneLosses, PublishLosses DEF Next, Step

\* A run that succeeds has read everything that it discovered without loss, or it
\* has a warning to report and was not asked to be strict.
THEOREM NoLossIsSilent == Spec => []LossReported
<1>1. Init => Losses
  BY DEF Init, Losses, LossReported
<1>2. Init /\ [][Next]_vars => [](TypeOK /\ Position /\ Losses)
  BY <1>1, InitType, NextType, NextPosition, NextLosses, PTL
<1>3. Losses => LossReported
  BY DEF Losses
<1>4. QED
  BY <1>2, <1>3, PTL DEF Spec

(***************************************************************************)
(* What an end of a session, and a return, do to the workspace and to the  *)
(* bytes selected.                                                         *)
(***************************************************************************)

\* A session that stays keeps its spool and its bytes, which fit; any other leaves
\* neither.
LEMMA SessionEndsLedger ==
  ASSUME TypeOK, Position, SessionEnds
  PROVE  \E kept \in BOOLEAN, bytes \in Nat :
           /\ kept /\ MaxTotal > 0 => used + bytes <= MaxTotal
           /\ spools' = IF kept THEN spools ELSE spools \ {CurrentSpool}
           /\ finalized' = IF kept THEN finalized \cup {current.source} ELSE finalized
           /\ used' = IF kept THEN used + bytes ELSE used
           /\ size' = IF kept THEN [size EXCEPT ![current.source] = bytes] ELSE size
           /\ phase' = "sessions"
<1>1. PICK clean \in BOOLEAN, included \in BOOLEAN, large \in BOOLEAN, bytes \in Sizes :
        LET over == OverLimit(bytes)
            exported == included /\ ~over
        IN  /\ Conclude(IF exported THEN "exported"
                        ELSE IF included THEN "over limit" ELSE "unmatched", exported)
            /\ warnings' = (warnings \/ ~clean \/ (included /\ (over \/ large)))
            /\ whole' = IF clean THEN whole ELSE whole \ {current.source}
            /\ finalized' = IF exported THEN finalized \cup {current.source} ELSE finalized
            /\ used' = IF exported THEN used + bytes ELSE used
            /\ size' = IF exported THEN [size EXCEPT ![current.source] = bytes] ELSE size
  BY DEF SessionEnds
<1> DEFINE kept == included /\ ~OverLimit(bytes)
<1>2. bytes \in Nat /\ kept \in BOOLEAN
  BY ExportAssumption
<1>3. kept /\ MaxTotal > 0 => used + bytes <= MaxTotal
  BY <1>2, ExportAssumption DEF OverLimit, TypeOK
<1>4. spools' = (IF kept THEN spools ELSE spools \ {CurrentSpool}) /\ phase' = "sessions"
  BY <1>1 DEF Conclude
<1>5. /\ finalized' = IF kept THEN finalized \cup {current.source} ELSE finalized
      /\ used' = IF kept THEN used + bytes ELSE used
      /\ size' = IF kept THEN [size EXCEPT ![current.source] = bytes] ELSE size
  BY <1>1
<1> HIDE DEF kept
<1>6. QED
  BY <1>2, <1>3, <1>4, <1>5

\* No other step selects a session.
LEMMA SelectionStays ==
  [Next]_vars => SessionEnds \/ UNCHANGED <<finalized, used, size>>
<1> SUFFICES ASSUME [Next]_vars, ~SessionEnds PROVE UNCHANGED <<finalized, used, size>>
  OBVIOUS
<1>1. CASE Discover \/ ProbesDone \/ OpenWorkspace
  BY <1>1 DEF Discover, ProbesDone, OpenWorkspace
<1>2. CASE SinkFails \/ SessionCancelled \/ Retry \/ SessionFails
  BY <1>2 DEF SinkFails, SessionCancelled, Retry, SessionFails
<1>3. CASE SessionsDone \/ Publish \/ Cancel
  BY <1>3 DEF SessionsDone, Publish, Cancel
<1>4. ASSUME NEW s \in Sources, Probe(s) \/ SkipSession(s) \/ BeginSession(s)
      PROVE  UNCHANGED <<finalized, used, size>>
  BY <1>4 DEF Probe, SkipSession, BeginSession
<1>5. CASE UNCHANGED vars
  BY <1>5 DEF vars
<1>6. QED
  BY <1>1, <1>2, <1>3, <1>4, <1>5 DEF Next, Step

(***************************************************************************)
(* The spools in the workspace are those of the sessions to be exported.   *)
(***************************************************************************)

LEMMA OneOfNone == OneOfEach({}, {})
BY DEF OneOfEach

\* Of files of which each source has one, some are left.
LEMMA OneOfEachLeft ==
  ASSUME NEW files, NEW sources, OneOfEach(files, sources), NEW left \in SUBSET files
  PROVE  \E kept \in SUBSET sources : OneOfEach(left, kept)
<1>1. {file[1] : file \in left} \in SUBSET sources
  BY DEF OneOfEach
<1>2. OneOfEach(left, {file[1] : file \in left})
  BY DEF OneOfEach
<1>3. QED
  BY <1>1, <1>2

\* Another source's file joins them.
LEMMA OneOfEachMore ==
  ASSUME NEW files, NEW sources, OneOfEach(files, sources), NEW s, s \notin sources, NEW n
  PROVE  OneOfEach(files \cup {<<s, n>>}, sources \cup {s})
<1>1. \A file \in files : file[1] \in sources
  BY DEF OneOfEach
<1>2. <<s, n>>[1] = s
  OBVIOUS
<1>3. {file[1] : file \in files \cup {<<s, n>>}} = sources \cup {s}
  BY <1>2 DEF OneOfEach
<1>4. ASSUME NEW f \in files \cup {<<s, n>>}, NEW g \in files \cup {<<s, n>>}, f[1] = g[1]
      PROVE  f = g
  BY <1>1, <1>2, <1>4 DEF OneOfEach
<1>5. QED
  BY <1>3, <1>4 DEF OneOfEach

\* Before the loop there is none, and during an attempt there is one more.
SpoolsKept ==
  /\ phase \in {"discover", "probe", "workspace"} => spools = {}
  /\ phase \in {"sessions", "publish"} => OneOfEach(spools, finalized)
  /\ phase = "parse" => OneOfEach(spools \ {CurrentSpool}, finalized) /\ CurrentSpool \in spools
  /\ phase = "exited" => \E kept \in SUBSET finalized : OneOfEach(spools, kept)

\* A return: what is left is some of the spools of the sessions to be exported.
LEMMA LeavingKeepsSpools ==
  ASSUME finalized' = finalized,
         NEW left, OneOfEach(left, finalized), NEW exit, Leave(exit, left)
  PROVE  SpoolsKept'
<1>1. phase' = "exited" /\ spools' \in SUBSET left
  BY DEF Leave
<1>2. \E kept \in SUBSET finalized : OneOfEach(spools', kept)
  BY <1>1, OneOfEachLeft
<1>3. QED
  BY <1>1, <1>2 DEF SpoolsKept, OneOfEach

\* The steps before the loop, and those that enter and leave it.
LEMMA FrameSpools ==
  ASSUME Position, SpoolsKept, finalized' = finalized,
         Discover \/ ProbesDone \/ OpenWorkspace \/ SinkFails \/ SessionCancelled \/ SessionsDone
  PROVE  SpoolsKept'
<1>1. \/ phase \in {"discover", "probe", "workspace", "sessions"} /\ \E exit : Leave(exit, spools)
      \/ /\ phase \in {"discover", "probe"} /\ phase' \in {"probe", "workspace"}
         /\ spools' = spools
      \/ phase = "workspace" /\ phase' = "sessions" /\ spools' = spools
      \/ phase = "sessions" /\ phase' = "publish" /\ spools' = spools
  <2>1. CASE Discover
    BY <2>1 DEF Discover, Exit
  <2>2. CASE ProbesDone
    BY <2>2 DEF ProbesDone, Exit
  <2>3. CASE OpenWorkspace
    BY <2>3 DEF OpenWorkspace, Exit
  <2>4. CASE SinkFails \/ SessionCancelled
    BY <2>4 DEF SinkFails, SessionCancelled, Exit
  <2>5. CASE SessionsDone
    BY <2>5 DEF SessionsDone, Exit
  <2>6. QED
    BY <2>1, <2>2, <2>3, <2>4, <2>5
<1>2. phase \in {"discover", "probe", "workspace", "sessions"} => OneOfEach(spools, finalized)
  BY OneOfNone DEF SpoolsKept, Position
<1>3. ASSUME phase \in {"discover", "probe", "workspace", "sessions"}, NEW exit, Leave(exit, spools)
      PROVE  SpoolsKept'
  BY <1>2, <1>3, LeavingKeepsSpools
<1>4. CASE /\ phase \in {"discover", "probe"} /\ phase' \in {"probe", "workspace"}
           /\ spools' = spools
  BY <1>4 DEF SpoolsKept
<1>5. CASE \/ phase = "workspace" /\ phase' = "sessions" /\ spools' = spools
           \/ phase = "sessions" /\ phase' = "publish" /\ spools' = spools
  BY <1>2, <1>5 DEF SpoolsKept, OneOfEach
<1>6. QED
  BY <1>1, <1>3, <1>4, <1>5

\* The second attempt's spool takes the place of the first's.
LEMMA RetrySpools == ASSUME TypeOK, Position, SpoolsKept, Retry PROVE SpoolsKept'
<1> DEFINE others == spools \ {CurrentSpool}
<1>1. /\ phase = "parse" /\ current.attempt = 0 /\ finalized' = finalized
      /\ \/ /\ current' = [current EXCEPT !.attempt = 1] /\ phase' = phase
            /\ spools' = others \cup {<<current.source, 1>>}
         \/ Leave("output", others)
  BY DEF Retry
<1>2. OneOfEach(others, finalized)
  BY <1>1 DEF SpoolsKept
<1>3. CASE Leave("output", others)
  BY <1>1, <1>2, <1>3, LeavingKeepsSpools
<1>4. CASE /\ current' = [current EXCEPT !.attempt = 1] /\ phase' = phase
           /\ spools' = others \cup {<<current.source, 1>>}
  <2>1. CurrentSpool' = <<current.source, 1>>
    BY <1>4 DEF CurrentSpool, TypeOK
  <2>2. <<current.source, 1>> \notin others
    BY <1>1, <1>2 DEF OneOfEach, Position
  <2>3. spools' \ {CurrentSpool'} = others /\ CurrentSpool' \in spools'
    BY <1>4, <2>1, <2>2
  <2> HIDE DEF others
  <2>4. QED
    BY <1>1, <1>2, <1>4, <2>3 DEF SpoolsKept, OneOfEach
<1>5. QED
  BY <1>1, <1>3, <1>4

LEMMA NextSpools == TypeOK /\ Position /\ SpoolsKept /\ [Next]_vars => SpoolsKept'
<1> SUFFICES ASSUME TypeOK, Position, SpoolsKept, [Next]_vars PROVE SpoolsKept'
  OBVIOUS
<1>1. SessionEnds \/ finalized' = finalized
  BY SelectionStays
<1>2. CASE SessionEnds
  <2>1. PICK kept \in BOOLEAN :
          /\ spools' = IF kept THEN spools ELSE spools \ {CurrentSpool}
          /\ finalized' = IF kept THEN finalized \cup {current.source} ELSE finalized
          /\ phase' = "sessions"
    BY <1>2, SessionEndsLedger
  <2>2. phase = "parse" /\ current.source \notin finalized
    BY <1>2 DEF SessionEnds, Position
  <2>3. OneOfEach(spools \ {CurrentSpool}, finalized) /\ CurrentSpool \in spools
    BY <2>2 DEF SpoolsKept
  <2>4. CASE kept
    <3>1. OneOfEach((spools \ {CurrentSpool}) \cup {CurrentSpool}, finalized \cup {current.source})
      BY <2>2, <2>3, OneOfEachMore DEF CurrentSpool
    <3>2. (spools \ {CurrentSpool}) \cup {CurrentSpool} = spools
      BY <2>3
    <3>3. OneOfEach(spools', finalized')
      BY <2>1, <2>4, <3>1, <3>2
    <3>4. QED
      BY <2>1, <3>3 DEF SpoolsKept, OneOfEach
  <2>5. CASE ~kept
    BY <2>1, <2>3, <2>5 DEF SpoolsKept, OneOfEach
  <2>6. QED
    BY <2>4, <2>5
<1>3. CASE SessionFails
  <2>1. /\ phase = "parse" /\ phase' = "sessions" /\ finalized' = finalized
        /\ spools' = spools \ {CurrentSpool}
    BY <1>3 DEF SessionFails, Conclude
  <2>2. QED
    BY <2>1 DEF SpoolsKept, OneOfEach
<1>4. CASE Publish
  <2>1. /\ phase = "publish" /\ finalized' = finalized
        /\ \E exit, left : left \subseteq spools /\ Leave(exit, left)
    BY <1>4 DEF Publish
  <2>2. phase' = "exited" /\ spools' \in SUBSET spools
    BY <2>1 DEF Leave
  <2>3. \E kept \in SUBSET finalized : OneOfEach(spools', kept)
    BY <2>1, <2>2, OneOfEachLeft DEF SpoolsKept
  <2>4. QED
    BY <2>1, <2>2, <2>3 DEF SpoolsKept, OneOfEach
<1>5. ASSUME NEW s \in Sources, Probe(s) PROVE SpoolsKept'
  BY <1>5 DEF Probe, SpoolsKept
<1>6. ASSUME NEW s \in Sources, SkipSession(s) PROVE SpoolsKept'
  BY <1>6 DEF SkipSession, SpoolsKept, OneOfEach
<1>7. ASSUME NEW s \in Sources, BeginSession(s) PROVE SpoolsKept'
  <2>1. /\ phase = "sessions" /\ phase' = "parse" /\ finalized' = finalized /\ s \notin finalized
        /\ current' = [source |-> s, attempt |-> 0] /\ spools' = spools \cup {<<s, 0>>}
    BY <1>7 DEF BeginSession, Position
  <2>2. OneOfEach(spools, finalized)
    BY <2>1 DEF SpoolsKept
  <2>3. CurrentSpool' = <<s, 0>> /\ <<s, 0>> \notin spools
    BY <2>1, <2>2 DEF OneOfEach, CurrentSpool
  <2>4. spools' \ {CurrentSpool'} = spools /\ CurrentSpool' \in spools'
    BY <2>1, <2>3
  <2>5. QED
    BY <2>1, <2>2, <2>4 DEF SpoolsKept, OneOfEach
<1>8. CASE Cancel
  BY <1>8 DEF Cancel, SpoolsKept, OneOfEach, CurrentSpool
<1>9. CASE UNCHANGED vars
  BY <1>9 DEF vars, SpoolsKept, OneOfEach, CurrentSpool
<1>10. CASE Discover \/ ProbesDone \/ OpenWorkspace \/ SinkFails \/ SessionCancelled \/ SessionsDone
  <2>1. finalized' = finalized
    BY <1>10 DEF Discover, ProbesDone, OpenWorkspace, SinkFails, SessionCancelled, SessionsDone
  <2>2. QED
    BY <1>10, <2>1, FrameSpools
<1>11. QED
  BY <1>2, <1>3, <1>4, <1>5, <1>6, <1>7, <1>8, <1>9, <1>10, RetrySpools DEF Next, Step

\* Between two sessions, and in a workspace kept after a failure, there is no spool
\* of a session that was left out.
THEOREM WorkspaceHoldsSelection == Spec => []SpoolsAccounted
<1>1. Init => SpoolsKept
  BY DEF Init, SpoolsKept
<1>2. Init /\ [][Next]_vars => [](TypeOK /\ Position /\ SpoolsKept)
  BY <1>1, InitType, NextType, NextPosition, NextSpools, PTL
<1>3. SpoolsKept => SpoolsAccounted
  BY DEF SpoolsKept, SpoolsAccounted
<1>4. QED
  BY <1>2, <1>3, PTL DEF Spec

(***************************************************************************)
(* The sessions exported fit in the limit.                                 *)
(***************************************************************************)

\* The counter that the limit is checked against is what the sessions exported add
\* up to: a session that fails, is left out or is read twice is in neither.
Selected ==
  /\ used = Total(size, finalized)
  /\ MaxTotal > 0 => used <= MaxTotal

LEMMA SourcesAreFinite == IsFiniteSet(Sources)
BY FS_Interval, ExportAssumption DEF Sources

LEMMA NextSelected == TypeOK /\ Position /\ Selected /\ [Next]_vars => Selected'
<1> SUFFICES ASSUME TypeOK, Position, Selected, [Next]_vars PROVE Selected'
  OBVIOUS
<1>1. CASE SessionEnds
  <2>1. PICK kept \in BOOLEAN, bytes \in Nat :
          /\ kept /\ MaxTotal > 0 => used + bytes <= MaxTotal
          /\ finalized' = IF kept THEN finalized \cup {current.source} ELSE finalized
          /\ used' = IF kept THEN used + bytes ELSE used
          /\ size' = IF kept THEN [size EXCEPT ![current.source] = bytes] ELSE size
    BY <1>1, SessionEndsLedger
  <2>2. current.source \in Sources \ finalized
    BY <1>1 DEF SessionEnds, Position, TypeOK
  <2>3. CASE kept
    <3>1. size \in [Sources -> Nat] /\ finalized \in SUBSET Sources
      BY DEF TypeOK
    <3>2. /\ size' \in [Sources -> Nat] /\ size'[current.source] = bytes
          /\ \A s \in finalized : size[s] = size'[s]
      BY <2>1, <2>2, <2>3, <3>1
    <3>3. Total(size', finalized \cup {current.source}) = Total(size, finalized) + bytes
      BY <2>2, <3>1, <3>2, SourcesAreFinite, TotalGrows
    <3>4. used' = Total(size', finalized')
      BY <2>1, <2>3, <3>3 DEF Selected
    <3>5. MaxTotal > 0 => used' <= MaxTotal
      BY <2>1, <2>3
    <3>6. QED
      BY <3>4, <3>5 DEF Selected, Total, MapThenSumSet, MapThenFoldSet
  <2>4. CASE ~kept
    <3>1. UNCHANGED <<finalized, used, size>>
      BY <2>1, <2>4
    <3>2. QED
      BY <3>1 DEF Selected, Total, MapThenSumSet, MapThenFoldSet
  <2>5. QED
    BY <2>3, <2>4
<1>2. CASE UNCHANGED <<finalized, used, size>>
  BY <1>2 DEF Selected, Total, MapThenSumSet, MapThenFoldSet
<1>3. QED
  BY <1>1, <1>2, SelectionStays

\* With a limit on the total, the sessions exported are never larger together.
THEOREM TotalStaysInLimit == Spec => []LimitKept
<1>1. Init => Selected
  <2>1. SUFFICES ASSUME Init PROVE Selected
    OBVIOUS
  <2>2. Total(size, {}) = 0
    BY TotalOfNone
  <2>3. used = 0 /\ finalized = {}
    BY <2>1 DEF Init
  <2>4. Total(size, finalized) = used
    BY <2>2, <2>3
  <2>5. QED
    BY <2>3, <2>4, ExportAssumption DEF Selected
<1>2. Init /\ [][Next]_vars => [](TypeOK /\ Position /\ Selected)
  BY <1>1, InitType, NextType, NextPosition, NextSelected, PTL
<1>3. Selected => LimitKept
  BY DEF Selected, LimitKept, Total
<1>4. QED
  BY <1>2, <1>3, PTL DEF Spec
=============================================================================
