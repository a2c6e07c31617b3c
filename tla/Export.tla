-------------------------------- MODULE Export ---------------------------------
(***************************************************************************)
(* One run of "hce export" or "hce preview" (app.export): discovery,       *)
(* deduplication, probing, the loop over the sessions with its second      *)
(* attempt for a source that changed, the limits, strict mode, publication *)
(* and the exit code.  Harnesses write to their histories while the run    *)
(* reads them, any source may be unreadable, and SIGINT may come any time. *)
(*                                                                         *)
(* Abstractions.  What an adapter answers is any answer its interface      *)
(* allows; SessionSink models what happens to a session that is parsed and *)
(* Publication what happens once a destination is sought.  An identity or  *)
(* a native ID stands for the pair of it and its harness.  Sources are     *)
(* numbered as they are discovered; the loop takes them in any order, of   *)
(* which the code's, by harness and path, is one.  The size of a spool     *)
(* that was just written can be read.                                      *)
(***************************************************************************)
EXTENDS Naturals, FiniteSets, FiniteSetsExt

CONSTANTS
  MaxSources,   \* bound: sources that discovery can find
  Identities,   \* canonical source identities: the files behind the sources
  NativeIDs,    \* session IDs that the harnesses gave
  NoID,         \* a session without one
  Histories,    \* the histories that there may be
  Sizes,        \* sizes of normalized sessions
  MaxTotal,     \* --max-total-size, 0 for none
  Options       \* the combinations of --strict, --keep-temp and preview in use

Sources == 1..MaxSources

\* The file behind each source, and each file's native session ID.
HistoriesOfFiles ==
  [identity : [Sources -> Identities], native : [Identities -> NativeIDs \cup {NoID}]]

ASSUME ExportAssumption ==
  /\ MaxSources \in Nat
  /\ NoID \notin NativeIDs /\ NoID \notin Identities
  /\ Histories \subseteq HistoriesOfFiles
  /\ Sizes \subseteq Nat
  /\ MaxTotal \in Nat
  /\ Options \subseteq [strict : BOOLEAN, keepTemp : BOOLEAN, preview : BOOLEAN]

VARIABLES
  options,     \* --strict, --keep-temp, preview
  history,     \* the file behind each source, and each file's native session ID
  phase,       \* where export is
  found,       \* the sources discovered
  all,         \* those still in the list
  remaining,   \* those that the current loop has not reached
  current,     \* the session being read and the attempt
  outcome,     \* what became of each source
  whole,       \* history: the sources read without any loss
  incomplete,  \* history: a root was not fully detected or discovered
  warnings,    \* the local of that name
  finalized,   \* the sessions to be exported
  used,        \* selectedRecordBytes
  size,        \* history: the size of each exported session
  spools,      \* the spool files there are: whose source's, and of which attempt
  cancelled,   \* ctx.Err() # nil
  cancelledIn, \* history: the phase that the cancellation came in
  code         \* the exit code

vars == <<options, history, phase, found, all, remaining, current, outcome, whole, incomplete,
          warnings, finalized, used, size, spools, cancelled, cancelledIn, code>>

Phases == {"discover", "probe", "workspace", "sessions", "parse", "publish", "exited"}
Outcomes == {"none", "duplicate", "probe failed", "unsupported", "outside", "failed",
             "unmatched", "over limit", "exported"}
Codes == {"none", "success", "no harness", "no sessions", "source", "output", "strict", "cancelled"}
Idle == [source |-> 0, attempt |-> 0]

Identity(s) == history.identity[s]
NativeID(s) == history.native[Identity(s)]

\* deduplicateDiscovered: the first source of each key stays, and all without one.
FirstOfEach(sources, key) ==
  {s \in sources : key[s] = NoID \/ \A t \in sources : t < s => key[t] # key[s]}

\* Every return of export ends in the deferred clean-up: only --keep-temp leaves
\* the spools of a run that failed.
Leave(exit, left) ==
  /\ phase' = "exited"
  /\ code' = exit
  /\ current' = Idle
  /\ spools' = IF options.keepTemp /\ exit # "success" THEN left ELSE {}

Exit(exit) == Leave(exit, spools)

\* The spool of the sink that the attempt writes to.
CurrentSpool == <<current.source, current.attempt>>

-----------------------------------------------------------------------------
(* Discovery and probing *)

\* Detect and Discover of every selected adapter, and the first deduplication.
Discover ==
  /\ phase = "discover"
  /\ \E detected, degraded, failures \in BOOLEAN, n \in 0..MaxSources :
       LET sources == 1..n
           kept == FirstOfEach(sources, [s \in Sources |-> Identity(s)])
       IN  /\ sources # {} \/ degraded \/ failures => detected
           /\ found' = sources
           /\ all' = kept /\ remaining' = kept
           /\ outcome' = [s \in Sources |-> IF s \in sources \ kept THEN "duplicate" ELSE "none"]
           /\ incomplete' = (degraded \/ failures)
           /\ warnings' = (degraded \/ failures)
           /\ IF ~detected THEN Exit("no harness")
              ELSE IF sources = {} THEN Exit(IF failures THEN "source" ELSE "no sessions")
              ELSE phase' = "probe" /\ UNCHANGED <<current, spools, code>>
  /\ UNCHANGED <<options, history, whole, finalized, used, size, cancelled, cancelledIn>>

MutProbeWarnsNotOfFormat(answer, warned) == warned \/ answer = "probe failed"

ProbeWarns(answer, warned) == warned \/ answer # "supported"

\* A source that cannot be probed, or whose format is not known, is dropped.
Probe(s) ==
  /\ phase = "probe" /\ s \in remaining
  /\ \A t \in remaining : s <= t
  /\ remaining' = remaining \ {s}
  /\ \E answer \in {"supported", "probe failed", "unsupported"}, warned \in BOOLEAN :
       /\ all' = IF answer = "supported" THEN all ELSE all \ {s}
       /\ outcome' = [outcome EXCEPT ![s] = IF answer = "supported" THEN @ ELSE answer]
       /\ warnings' = (warnings \/ ProbeWarns(answer, warned))
       /\ whole' = IF warned THEN whole ELSE whole \cup {s}
  /\ UNCHANGED <<options, history, phase, found, current, incomplete, finalized, used, size,
                 spools, cancelled, cancelledIn, code>>

MutProbesDoneNoDeduplication ==
  /\ phase = "probe" /\ remaining = {}
  /\ remaining' = all
  /\ IF all = {} THEN Exit("no sessions")
     ELSE phase' = "workspace" /\ UNCHANGED <<current, spools, code>>
  /\ UNCHANGED <<options, history, found, all, outcome, whole, incomplete, warnings, finalized,
                 used, size, cancelled, cancelledIn>>

\* The second deduplication, by the native session IDs that the probes found.
ProbesDone ==
  LET kept == FirstOfEach(all, [s \in Sources |-> NativeID(s)])
  IN  /\ phase = "probe" /\ remaining = {}
      /\ all' = kept /\ remaining' = kept
      /\ outcome' = [s \in Sources |-> IF s \in all \ kept THEN "duplicate" ELSE outcome[s]]
      /\ IF kept = {} THEN Exit("no sessions")
         ELSE phase' = "workspace" /\ UNCHANGED <<current, spools, code>>
      /\ UNCHANGED <<options, history, found, whole, incomplete, warnings, finalized, used, size,
                     cancelled, cancelledIn>>

OpenWorkspace ==
  /\ phase = "workspace"
  /\ \/ phase' = "sessions" /\ UNCHANGED <<current, spools, code>>
     \/ Exit("output")
  /\ UNCHANGED <<options, history, found, all, remaining, outcome, whole, incomplete, warnings,
                 finalized, used, size, cancelled, cancelledIn>>

-----------------------------------------------------------------------------
(* The loop over the sessions *)

\* A session whose discovered bounds are outside the range is not read.
SkipSession(s) ==
  /\ phase = "sessions" /\ ~cancelled /\ s \in remaining
  /\ remaining' = remaining \ {s}
  /\ outcome' = [outcome EXCEPT ![s] = "outside"]
  /\ UNCHANGED <<options, history, phase, found, all, current, whole, incomplete, warnings,
                 finalized, used, size, spools, cancelled, cancelledIn, code>>

\* The first attempt; a missing parent is a warning of its own.
BeginSession(s) ==
  /\ phase = "sessions" /\ ~cancelled /\ s \in remaining
  /\ remaining' = remaining \ {s}
  /\ phase' = "parse"
  /\ current' = [source |-> s, attempt |-> 0]
  /\ spools' = spools \cup {<<s, 0>>}
  /\ \E orphan \in BOOLEAN : warnings' = (warnings \/ orphan)
  /\ UNCHANGED <<options, history, found, all, outcome, whole, incomplete, finalized, used, size,
                 cancelled, cancelledIn, code>>

\* NewSessionSink cannot create its spool, in the first attempt.
SinkFails ==
  /\ phase = "sessions" /\ ~cancelled /\ remaining # {}
  /\ Exit("output")
  /\ UNCHANGED <<options, history, found, all, remaining, outcome, whole, incomplete, warnings,
                 finalized, used, size, cancelled, cancelledIn>>

SessionCancelled ==
  /\ phase = "sessions" /\ cancelled /\ remaining # {}
  /\ Exit("cancelled")
  /\ UNCHANGED <<options, history, found, all, remaining, outcome, whole, incomplete, warnings,
                 finalized, used, size, cancelled, cancelledIn>>

MutRetryAlways ==
  /\ phase = "parse"
  /\ current' = [current EXCEPT !.attempt = 1 - @]
  /\ spools' = (spools \ {CurrentSpool}) \cup {<<current.source, current'.attempt>>}
  /\ UNCHANGED <<options, history, phase, found, all, remaining, outcome, whole, incomplete,
                 warnings, finalized, used, size, cancelled, cancelledIn, code>>

MutRetryOnceMore ==
  /\ phase = "parse" /\ current.attempt <= 1
  /\ current' = [current EXCEPT !.attempt = @ + 1]
  /\ spools' = (spools \ {CurrentSpool}) \cup {<<current.source, current'.attempt>>}
  /\ UNCHANGED <<options, history, phase, found, all, remaining, outcome, whole, incomplete,
                 warnings, finalized, used, size, cancelled, cancelledIn, code>>

\* A plausible slip: the first sink is left as it is.
MutRetryWithoutAbort ==
  /\ phase = "parse" /\ current.attempt = 0
  /\ \/ /\ current' = [current EXCEPT !.attempt = 1]
        /\ spools' = spools \cup {<<current.source, 1>>}
        /\ UNCHANGED <<phase, code>>
     \/ Exit("output")
  /\ UNCHANGED <<options, history, found, all, remaining, outcome, whole, incomplete, warnings,
                 finalized, used, size, cancelled, cancelledIn>>

\* The source changed under the first attempt: the sink is aborted, and the
\* source read again into a new one, if that can be made.
Retry ==
  LET others == spools \ {CurrentSpool}
  IN  /\ phase = "parse" /\ current.attempt = 0
      /\ \/ /\ current' = [current EXCEPT !.attempt = 1]
            /\ spools' = others \cup {<<current.source, 1>>}
            /\ UNCHANGED <<phase, code>>
         \/ Leave("output", others)
      /\ UNCHANGED <<options, history, found, all, remaining, outcome, whole, incomplete,
                     warnings, finalized, used, size, cancelled, cancelledIn>>

\* Leave the attempt with the session's outcome.
Conclude(result, keepSpool) ==
  /\ phase' = "sessions"
  /\ current' = Idle
  /\ outcome' = [outcome EXCEPT ![current.source] = result]
  /\ spools' = IF keepSpool THEN spools ELSE spools \ {CurrentSpool}
  /\ UNCHANGED <<options, history, found, all, remaining, incomplete, cancelled, cancelledIn, code>>

\* Finalize failed, as it does once the run is cancelled or the sink aborted.
SessionFails ==
  /\ phase = "parse"
  /\ Conclude("failed", FALSE)
  /\ warnings' = TRUE
  /\ UNCHANGED <<whole, finalized, used, size>>

MutOverLimitAfter(bytes) == MaxTotal > 0 /\ used > MaxTotal

\* The total limit leaves no room for a session of that size.
OverLimit(bytes) == MaxTotal > 0 /\ used + bytes > MaxTotal

\* The session was read, clean or with a loss: partial, malformed, truncated, or
\* changed again under the second attempt.  It is exported if it belongs to the
\* range and the total limit leaves room for it; large says that it is over the
\* soft limit of one session.
SessionEnds ==
  /\ phase = "parse" /\ ~cancelled
  /\ \E clean, included, large \in BOOLEAN, bytes \in Sizes :
       LET over == OverLimit(bytes)
           exported == included /\ ~over
       IN  /\ Conclude(IF exported THEN "exported"
                       ELSE IF included THEN "over limit" ELSE "unmatched", exported)
           /\ warnings' = (warnings \/ ~clean \/ (included /\ (over \/ large)))
           /\ whole' = IF clean THEN whole ELSE whole \ {current.source}
           /\ finalized' = IF exported THEN finalized \cup {current.source} ELSE finalized
           /\ used' = IF exported THEN used + bytes ELSE used
           /\ size' = IF exported THEN [size EXCEPT ![current.source] = bytes] ELSE size

\* After the loop: strict mode refuses what is not complete.
SessionsDone ==
  /\ phase = "sessions" /\ remaining = {}
  /\ IF finalized = {} THEN Exit("no sessions")
     ELSE IF options.strict /\ warnings THEN Exit("strict")
     ELSE phase' = "publish" /\ UNCHANGED <<current, spools, code>>
  /\ UNCHANGED <<options, history, found, all, remaining, outcome, whole, incomplete, warnings,
                 finalized, used, size, cancelled, cancelledIn>>

\* A preview prints its counts; an export is published unless it is cancelled.
\* A replay that fails removes its spool.
Publish ==
  /\ phase = "publish"
  /\ \E exit \in (IF cancelled /\ ~options.preview THEN {"output", "cancelled"}
                  ELSE {"success", "output"}) :
       \E left \in SUBSET spools :
         /\ options.preview => left = spools
         /\ Leave(exit, left)
  /\ UNCHANGED <<options, history, found, all, remaining, outcome, whole, incomplete, warnings,
                 finalized, used, size, cancelled, cancelledIn>>

Cancel ==
  /\ phase # "exited" /\ ~cancelled
  /\ cancelled' = TRUE
  /\ cancelledIn' = phase
  /\ UNCHANGED <<options, history, phase, found, all, remaining, current, outcome, whole,
                 incomplete, warnings, finalized, used, size, spools, code>>

-----------------------------------------------------------------------------
Init ==
  /\ options \in Options
  /\ history \in Histories
  /\ phase = "discover"
  /\ found = {} /\ all = {} /\ remaining = {}
  /\ current = Idle
  /\ outcome = [s \in Sources |-> "none"]
  /\ whole = {}
  /\ incomplete = FALSE /\ warnings = FALSE
  /\ finalized = {} /\ used = 0
  /\ size = [s \in Sources |-> 0]
  /\ spools = {}
  /\ cancelled = FALSE /\ cancelledIn = "none"
  /\ code = "none"

Step ==
  \/ Discover \/ ProbesDone \/ OpenWorkspace \/ SinkFails \/ SessionCancelled \/ Retry
  \/ SessionFails \/ SessionEnds \/ SessionsDone \/ Publish
  \/ \E s \in Sources : Probe(s) \/ SkipSession(s) \/ BeginSession(s)

Next == Step \/ Cancel

\* One goroutine, and adapters that answer.
Spec == Init /\ [][Next]_vars /\ WF_vars(Step)

-----------------------------------------------------------------------------
(* Properties *)

\* The range of every variable.
TypeOK ==
  /\ options \in Options
  /\ history \in Histories
  /\ phase \in Phases
  /\ found \in SUBSET Sources /\ all \in SUBSET Sources /\ remaining \in SUBSET Sources
  /\ current \in [source : Sources \cup {0}, attempt : {0, 1}]
  /\ outcome \in [Sources -> Outcomes]
  /\ whole \in SUBSET Sources /\ finalized \in SUBSET Sources
  /\ spools \in SUBSET (Sources \X {0, 1})
  /\ incomplete \in BOOLEAN /\ warnings \in BOOLEAN
  /\ cancelled \in BOOLEAN /\ cancelledIn \in Phases \cup {"none"}
  /\ used \in Nat /\ size \in [Sources -> Nat]
  /\ code \in Codes

SameSession(s, t) ==
  Identity(s) = Identity(t) \/ (NativeID(s) = NativeID(t) /\ NativeID(s) # NoID)

\* Read to its end without loss, or known not to belong to the range.
Accounted(s) ==
  \/ outcome[s] = "outside"
  \/ outcome[s] \in {"exported", "unmatched"} /\ s \in whole

\* A duplicate is accounted for by the source that it duplicates.
Covered(s) ==
  Accounted(s) \/ (outcome[s] = "duplicate" /\ \E t \in found : SameSession(s, t) /\ Accounted(t))

\* No loss is silent: a run that succeeds although something that discovery found
\* was not read completely has a warning to report, and under --strict it does
\* not succeed (config.go:176, "publish only complete exports").
LossReported ==
  code = "success" /\ (incomplete \/ \E s \in found : ~Covered(s)) => warnings /\ ~options.strict

\* No session is exported twice, from overlapping roots or from two files that
\* hold the same native session: validation rejects such an archive.
ExportedOnce ==
  \A s, t \in finalized : SameSession(s, t) => s = t

\* The sessions exported fit in --max-total-size together, however many were tried
\* twice, left out or failed in between (app.go:373-384).
LimitKept ==
  MaxTotal > 0 => MapThenSumSet(LAMBDA s : size[s], finalized) <= MaxTotal

\* Some spool of each of the sources, and none besides.
OneOfEach(files, sources) ==
  /\ {file[1] : file \in files} = sources
  /\ \A f, g \in files : f[1] = g[1] => f = g

\* The workspace holds one spool of each session to be exported, that of its last
\* attempt, and while a session is read the one of this attempt, so a long history
\* does not fill the disk with what was read twice or left out; a workspace kept
\* after a failure holds no other either.
SpoolsAccounted ==
  /\ phase = "sessions" => OneOfEach(spools, finalized)
  /\ phase = "parse" => OneOfEach(spools \ {CurrentSpool}, finalized) /\ CurrentSpool \in spools
  /\ phase = "exited" => \E kept \in SUBSET finalized : OneOfEach(spools, kept)

\* README.md:174-175: "`8` means cancellation."  A run that was cancelled while
\* it read a session did not do what was asked; it may exit with another code
\* only for an output failure that came before it noticed.
CancelledExits8 ==
  phase = "exited" /\ cancelledIn = "parse" => code \in {"cancelled", "output"}

\* The run ends, even if a source changes during every attempt.
RunEnds == <>(phase = "exited")

=============================================================================
