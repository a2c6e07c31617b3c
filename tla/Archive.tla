------------------------------- MODULE Archive -------------------------------
(***************************************************************************)
(* What Builder.Build puts into a ZIP: staging of the entries one by one,   *)
(* their digests, the ZIP made from the staged files and the validation     *)
(* that decides whether it is published.  The file system around it, the    *)
(* choice of the name and the link are in Publication.                      *)
(*                                                                          *)
(* input    what export hands over: sessions with declared counts and the   *)
(*          events their replay emits, errors, adapters and options         *)
(* staged   stager.entries: what the file holds on disk, the digest and     *)
(*          size taken while it was written                                 *)
(* lines    sessions.jsonl while it is being written                        *)
(* zip      the archive, once writeZIP has made it                          *)
(* faults   history: failures of calls, cancellation, damaged files         *)
(***************************************************************************)
EXTENDS ArchiveValidation

CONSTANTS Inputs,       \* what Build may be called with
          DefaultCombinedMarkdownLimit,
          MaxDamages    \* staged files that may change on disk

Integrities ==
  [complete : BOOLEAN, concurrentlyModified : BOOLEAN, warnings : Nat, malformed : Nat,
   truncated : Nat]

Events ==
  [id : STRING, session : STRING, sequence : Int, type : STRING, text : STRING,
   truncations : Nat]

\* The harnesses, with the lengths of their IDs.
HarnessLength == [claude |-> 6, codex |-> 5, opencode |-> 8, pi |-> 2]

\* Counters count up from 0; nothing else is asked of a session or of its events.
Sessions ==
  [id : STRING, harness : DOMAIN HarnessLength, order : Nat, source : STRING,
   counts : [events : Nat, user : Nat, assistant : Nat],
   integrity : Integrities, events : Seq(Events)]

Adapters == [warnings : Nat, degraded : BOOLEAN]

ASSUME ArchiveAssumption ==
  /\ Inputs \subseteq [sessions : Seq(Sessions), errors : Seq(STRING),
                       adapters : Seq(Adapters),
                       combined : BOOLEAN, limit : Int, strict : BOOLEAN]
  /\ DefaultCombinedMarkdownLimit \in Nat \ {0}
  /\ MaxDamages \in Nat

VARIABLES input, pc, lines, staged, manifest, zip, faults, damages
vars == <<input, pc, lines, staged, manifest, zip, faults, damages>>

Written(body) == [body |-> body, intact |-> TRUE]

\* stager.entries with others added, or replaced; a record with other fields.
old ++ new ==
  [name \in DOMAIN old \cup DOMAIN new |-> IF name \in DOMAIN new THEN new[name] ELSE old[name]]

\* stager.add
Add(name, body, size) ==
  [n \in {name} |-> [disk |-> Written(body), digest |-> Written(body), size |-> size]]

AddAll(bodies) ==
  [name \in DOMAIN bodies |->
     [disk |-> Written(bodies[name]), digest |-> Written(bodies[name]), size |-> 0]]

\* A plausible slip: the file is read again for it.
MutDigestOfDisk(name) == staged[name].disk

\* What the digest of a staged file is taken from: the bytes as written.
DigestOf(name) == staged[name].digest

DigestsExcept(names) == [name \in DOMAIN staged \ names |-> DigestOf(name)]

\* sort.SliceStable by sessionLess; order stands for the four keys.
SessionLess(left, right) == left.order < right.order

Precedes(s, t) ==
  \/ SessionLess(input.sessions[s], input.sessions[t])
  \/ ~SessionLess(input.sessions[t], input.sessions[s]) /\ s < t

\* Each session has as many before it as precede it.
Sorted ==
  LET sessions == DOMAIN input.sessions
  IN  [n \in sessions |->
         input.sessions[CHOOSE s \in sessions :
                          Cardinality({t \in sessions : Precedes(t, s)}) = n - 1]]

usageSession(session) ==
  [record |-> "session", id |-> session.id, harness |-> session.harness,
   counts |-> session.counts, integrity |-> session.integrity]

usageEvent(event) ==
  [record |-> "event", id |-> event.id, session |-> event.session,
   sequence |-> event.sequence, type |-> event.type, text |-> event.text,
   truncations |-> event.truncations]

\* render.WriteSession: messages of the two types only.
WriteSession(events) ==
  LET shown == At(events, {e \in DOMAIN events : events[e].type \in UsageTypes})
  IN  [i \in DOMAIN shown |-> <<shown[i].type, shown[i].text>>]

SessionIncomplete(session) ==
  LET integrity == session.integrity
  IN  \/ integrity.warnings > 0
      \/ ~integrity.complete
      \/ integrity.concurrentlyModified
      \/ integrity.malformed > 0
      \/ integrity.truncated > 0

AdapterIncomplete(adapter) == adapter.degraded \/ adapter.warnings > 0

\* A plausible slip: the last session's state overwrites the others'.
MutIncompleteByLast ==
  \/ input.errors # <<>>
  \/ \E a \in DOMAIN input.adapters : AdapterIncomplete(input.adapters[a])
  \/ input.sessions # <<>> /\ SessionIncomplete(Last(Sorted))

Incomplete ==
  \/ input.errors # <<>>
  \/ \E a \in DOMAIN input.adapters : AdapterIncomplete(input.adapters[a])
  \/ \E s \in DOMAIN input.sessions : SessionIncomplete(input.sessions[s])

\* A plausible slip: the warnings of the adapters are not counted.
MutTotalsOfSessionsOnly ==
  [sources |-> Cardinality({input.sessions[s].source : s \in DOMAIN input.sessions} \ {""}),
   sessions |-> Len(input.sessions),
   events |-> Sum([s \in DOMAIN input.sessions |-> input.sessions[s].counts.events]),
   warnings |-> WarningsOf(<<>>, input.sessions),
   errors |-> Len(input.errors),
   truncations |-> Stats(lines).truncation]

Totals ==
  [sources |-> Cardinality({input.sessions[s].source : s \in DOMAIN input.sessions} \ {""}),
   sessions |-> Len(input.sessions),
   events |-> Sum([s \in DOMAIN input.sessions |-> input.sessions[s].counts.events]),
   warnings |-> WarningsOf(input.adapters, input.sessions),
   errors |-> Len(input.errors),
   truncations |-> Stats(lines).truncation]

-----------------------------------------------------------------------------
NoManifest ==
  [totals |-> [sources |-> 0, sessions |-> 0, events |-> 0, warnings |-> 0,
               errors |-> 0, truncations |-> 0],
   errors |-> <<>>, adapters |-> <<>>, incomplete |-> FALSE,
   combined |-> FALSE, exclusions |-> {}, files |-> <<>>]

Init ==
  /\ input \in Inputs
  /\ pc = "schemas"
  /\ lines = <<>>
  /\ staged = <<>>
  /\ manifest = NoManifest
  /\ zip = <<>>
  /\ faults = {}
  /\ damages = 0

Goto(next) ==
  /\ pc' = next
  /\ UNCHANGED <<input, faults, damages>>

StageSchemas ==
  /\ pc = "schemas"
  /\ staged' = AddAll([name \in Schemas |-> name])
  /\ UNCHANGED <<lines, manifest, zip>>
  /\ Goto("sessions")

\* One turn of the loop: the session's line, then its conversation and the
\* events' lines, both from one replay.
NextSession == Sorted[Cardinality(SessionLines(lines)) + 1]
MoreSessions == Cardinality(SessionLines(lines)) < Len(input.sessions)

Collides(session) == SessionPath(session) \in DOMAIN staged
Strays(session) ==
  \E e \in DOMAIN session.events : session.events[e].session # session.id

StageSession ==
  /\ pc = "sessions"
  /\ MoreSessions
  /\ "cancelled" \notin faults
  /\ ~Collides(NextSession)
  /\ ~Strays(NextSession)
  /\ lines' = lines \o <<usageSession(NextSession)>>
                    \o [e \in DOMAIN NextSession.events |-> usageEvent(NextSession.events[e])]
  /\ staged' = staged ++ Add(SessionPath(NextSession), WriteSession(NextSession.events),
                             Len(WriteSession(NextSession.events)))
  /\ UNCHANGED <<manifest, zip>>
  /\ Goto("sessions")

\* add refuses a name that is taken; a replayed event must be the session's.
StageSessionRefused ==
  /\ pc = "sessions"
  /\ MoreSessions
  /\ Collides(NextSession) \/ Strays(NextSession)
  /\ UNCHANGED <<lines, staged, manifest, zip>>
  /\ Goto("failed")

\* A plausible slip: an entry without bytes is not added.
MutFixedEntriesSkipEmpty == AddAll([name \in {<<"REVIEW_GUIDE">>} |-> <<>>])

\* Entries whose content is the same in every archive.
FixedEntries == AddAll([name \in {<<"redactions">>, <<"REVIEW_GUIDE">>} |-> <<>>])

Reports(described) ==
  Add(<<"README">>, WriteREADME(Links(Sorted)), 0)
    ++ Add(<<"SUMMARY">>, WriteSummary(described, Links(Sorted)), 0)

StageReports ==
  /\ pc = "sessions"
  /\ ~MoreSessions
  /\ manifest' = [totals |-> Totals, errors |-> input.errors, adapters |-> input.adapters,
                  incomplete |-> Incomplete, combined |-> input.combined,
                  exclusions |-> {}, files |-> <<>>]
  /\ staged' = staged ++ Add(<<"sessions">>, lines, 0) ++ Add(<<"errors">>, input.errors, 0)
                      ++ FixedEntries ++ Reports(manifest')
  /\ UNCHANGED <<lines, zip>>
  /\ Goto("combined")

\* Lengths in bytes: the heading of the combined file, an ID ("hh_ses_" and 20
\* digits), and "conversations/<harness>/<ID>.md".  Of a conversation's own size
\* the messages count.
HeadingLength == 21
IDLength == 27
PathLength(path) == 14 + HarnessLength[path[2]] + 1 + IDLength + 3

\* What the line above a conversation comes to, as it is estimated and as it is
\* written: 32 bytes and the path; 19, the ID and the path.
EstimatedLine(path) == PathLength(path) + 32
SourceLine(path) == 19 + IDLength + PathLength(path)

\* The default replaces 0; a limit that is not positive then is none.
CombinedMarkdownLimit ==
  IF input.limit = 0 THEN DefaultCombinedMarkdownLimit ELSE input.limit

\* The estimate, as it is when n conversations have been added.
EstimateAfter(n) ==
  HeadingLength + Sum([i \in 1..n |-> staged[SessionPath(Sorted[i])].size
                                         + EstimatedLine(SessionPath(Sorted[i]))])

\* A plausible slip: compared before the conversation is added.
MutExceedsTooLate ==
  /\ CombinedMarkdownLimit > 0
  /\ \E n \in 1..Len(Sorted) : EstimateAfter(n - 1) > CombinedMarkdownLimit

Exceeds ==
  /\ CombinedMarkdownLimit > 0
  /\ \E n \in 1..Len(Sorted) : EstimateAfter(n) > CombinedMarkdownLimit

\* The combined file is copied from the staged files, not from the replays.
Copied == [i \in DOMAIN Sorted |-> staged[SessionPath(Sorted[i])].disk]

\* What the file comes to with its heading and the lines above the copies.
SizeOfCombined(copies) ==
  HeadingLength + Sum([i \in DOMAIN copies |-> Len(copies[i].body)
                                                  + SourceLine(SessionPath(Sorted[i]))])

StageCombined ==
  /\ pc = "combined"
  /\ input.combined
  /\ ~Exceeds
  /\ "cancelled" \in faults => Sorted = <<>>
  /\ staged' = staged ++ Add(Combined, Copied, 0)
  /\ UNCHANGED <<lines, manifest, zip>>
  /\ Goto("manifest")

\* Left out: said in the manifest, and the two reports are written again.
OmitCombined ==
  /\ pc = "combined"
  /\ input.combined
  /\ Exceeds
  /\ manifest' = manifest ++ [combined |-> FALSE,
                              exclusions |-> {"combined_markdown_size_limit"}]
  /\ staged' = staged ++ Reports(manifest')
  /\ UNCHANGED <<lines, zip>>
  /\ Goto("manifest")

SkipCombined ==
  /\ pc = "combined"
  /\ ~input.combined
  /\ UNCHANGED <<lines, staged, manifest, zip>>
  /\ Goto("manifest")

StageManifest ==
  /\ pc = "manifest"
  /\ manifest' = [manifest EXCEPT !.files = DigestsExcept({Manifest, Checksums})]
  /\ staged' = staged ++ Add(Manifest, manifest', 0)
  /\ UNCHANGED <<lines, zip>>
  /\ Goto("checksums")

StageChecksums ==
  /\ pc = "checksums"
  /\ staged' = staged ++ Add(Checksums, DigestsExcept({Checksums}), 0)
  /\ UNCHANGED <<lines, manifest, zip>>
  /\ Goto("strict")

CheckStrict ==
  /\ pc = "strict"
  /\ UNCHANGED <<lines, staged, manifest, zip>>
  /\ Goto(IF input.strict /\ manifest.incomplete THEN "incomplete" ELSE "zip")

WriteZIP ==
  /\ pc = "zip"
  /\ "cancelled" \notin faults
  /\ zip' = [name \in DOMAIN staged |-> staged[name].disk]
  /\ UNCHANGED <<lines, staged, manifest>>
  /\ Goto("validate")

\* Reopen verification, and the last look at the context before the link.
Validate ==
  /\ pc = "validate"
  /\ "cancelled" \notin faults
  /\ UNCHANGED <<lines, staged, manifest, zip>>
  /\ Goto(IF Accepts(zip) THEN "published" ELSE "failed")

Ended == pc \in {"published", "failed", "incomplete"}

\* Any call can fail, and every error return ends the build.
Fails ==
  /\ ~Ended
  /\ pc' = "failed"
  /\ faults' = faults \cup {"call"}
  /\ UNCHANGED <<input, lines, staged, manifest, zip, damages>>

Cancel ==
  /\ ~Ended
  /\ faults' = faults \cup {"cancelled"}
  /\ UNCHANGED <<input, pc, lines, staged, manifest, zip, damages>>

\* The context is looked at before each session, event, copied conversation
\* and entry, and before the link.
StopsCancelled ==
  /\ "cancelled" \in faults
  /\ \/ pc = "sessions" /\ MoreSessions
     \/ pc = "combined" /\ input.combined /\ ~Exceeds /\ Sorted # <<>>
     \/ pc \in {"zip", "validate"}
  /\ UNCHANGED <<lines, staged, manifest, zip>>
  /\ Goto("failed")

\* A staged file is not what was written any more: it has other bytes, or of the
\* checksums a line is gone.
Spoiled(name) ==
  LET file == staged[name].disk
  IN  IF name = Checksums
      THEN {Written([n \in DOMAIN file.body \ {line} |-> file.body[n]]) : line \in DOMAIN file.body}
      ELSE {[body |-> file.body, intact |-> FALSE]}

Damage(name) ==
  /\ damages < MaxDamages
  /\ ~Ended
  /\ damages' = damages + 1
  /\ faults' = faults \cup {"damage"}
  /\ \E file \in Spoiled(name) : staged' = [staged EXCEPT ![name].disk = file]
  /\ UNCHANGED <<input, pc, lines, manifest, zip>>

Stage ==
  \/ StageSchemas \/ StageSession \/ StageSessionRefused \/ StageReports
  \/ StageCombined \/ OmitCombined \/ SkipCombined
  \/ StageManifest \/ StageChecksums

Next ==
  \/ Stage
  \/ CheckStrict \/ WriteZIP \/ Validate
  \/ Fails \/ Cancel \/ StopsCancelled
  \/ \E name \in DOMAIN staged : Damage(name)

Spec == Init /\ [][Next]_vars

-----------------------------------------------------------------------------
\* The entries of stage, in the order it adds them.
StagedBy(step) ==
  CASE step = "schemas"   -> {}
    [] step = "sessions"  -> Schemas
    [] step = "combined"  -> Schemas \cup ReportNames \cup RecordNames
    [] step = "manifest"  -> Schemas \cup ReportNames \cup RecordNames
    [] step = "checksums" -> requiredEntries \ {Checksums}
    [] OTHER              -> requiredEntries

Paths == {SessionPath(input.sessions[s]) : s \in DOMAIN input.sessions}

\* Types: what is staged at each step of Build are the entries added so far,
\* each with a size, and no other but conversations and the combined file.
TypeOK ==
  /\ pc \in {"schemas", "sessions", "combined", "manifest", "checksums",
             "strict", "zip", "validate", "published", "failed", "incomplete"}
  /\ faults \subseteq {"call", "cancelled", "damage"}
  /\ damages \in 0..MaxDamages
  /\ \A name \in DOMAIN staged : staged[name].size \in Nat
  /\ DOMAIN staged \subseteq requiredEntries \cup Paths \cup {Combined}
  /\ pc # "failed" => StagedBy(pc) \subseteq DOMAIN staged

\* Reference: a session whose declared counts are those of its own events,
\* each with an ID and a place of its own.
SoundSession(session) ==
  LET events == session.events
  IN  /\ session.counts = [events |-> Len(events),
                           user |-> Cardinality(OfType(events, "user")),
                           assistant |-> Cardinality(OfType(events, "assistant"))]
      /\ DOMAIN events = OfType(events, "user") \cup OfType(events, "assistant")
      /\ \A e \in DOMAIN events :
           events[e].session = session.id /\ events[e].sequence >= 0
      /\ Cardinality({events[e].id : e \in DOMAIN events}) = Len(events)
      /\ \A e \in 2..Len(events) : events[e - 1].sequence < events[e].sequence

SoundInput ==
  /\ \A s \in DOMAIN input.sessions : SoundSession(input.sessions[s])
  /\ Cardinality({input.sessions[s].id : s \in DOMAIN input.sessions})
       = Len(input.sessions)

\* Staging and validation are two accounts of one archive.  When they differ
\* every export fails: with no fault, Build refuses only sessions that do not
\* add up.
SoundInputPasses == pc = "failed" => faults # {} \/ ~SoundInput

\* ... and none that does not add up is published.
OnlySoundPublished == pc = "published" => SoundInput

\* Reference: the messages of a session, in order.
Messages(session) ==
  [e \in DOMAIN session.events |->
     <<session.events[e].type, session.events[e].text>>]

\* A published archive has every session with all its messages in both forms,
\* as they were replayed, whatever happened to the staged files; the combined
\* file too has them.
PublishedTellsInput ==
  pc = "published" =>
    \A s \in DOMAIN input.sessions :
      LET session == input.sessions[s]
          recorded == zip[<<"sessions">>].body
          told == Written(Messages(session))
      IN  /\ \E i \in SessionLines(recorded) :
               /\ recorded[i].id = session.id
               /\ recorded[i].integrity = session.integrity
               /\ Messages([events |-> Group(recorded, i)]) = told.body
          /\ zip[SessionPath(session)] = told
          /\ Combined \in DOMAIN zip =>
               told \in {zip[Combined].body[i] : i \in DOMAIN zip[Combined].body}

\* What strict mode promises: nothing is published when a session lost
\* anything, an adapter was degraded or warned, or an error was recorded.
StrictIsWhole ==
  pc = "published" /\ input.strict =>
    /\ input.errors = <<>>
    /\ \A a \in DOMAIN input.adapters :
         ~input.adapters[a].degraded /\ input.adapters[a].warnings = 0
    /\ \A s \in DOMAIN input.sessions :
         input.sessions[s].integrity =
           [complete |-> TRUE, concurrentlyModified |-> FALSE,
            warnings |-> 0, malformed |-> 0, truncated |-> 0]

\* Reference: what Build estimates of the messages that it was given.
EstimatedSize ==
  HeadingLength
    + Sum([s \in DOMAIN input.sessions |->
             Len(input.sessions[s].events)
               + EstimatedLine(SessionPath(input.sessions[s]))])

\* Reference: the limits there are, none for "always".
Limits ==
  {limit \in {input.limit} : limit > 0}
    \cup {limit \in {DefaultCombinedMarkdownLimit} : input.limit = 0}

\* The combined file is there when asked for and estimated to be within the
\* limit, the default one for 0.  The estimate is 14 bytes short of each
\* conversation's line, so the file may be over the limit, and by no more than
\* that.  It has each conversation once and in the order of the records; left
\* out, the manifest that was checked into the archive says why.
CombinedNearLimit ==
  pc = "published" =>
    /\ (Combined \in DOMAIN zip) =
         (/\ input.combined
          /\ input.sessions # <<>> => \A limit \in Limits : EstimatedSize <= limit)
    /\ Combined \in DOMAIN zip /\ input.sessions # <<>> =>
         \A limit \in Limits :
           SizeOfCombined(zip[Combined].body) - limit <= 14 * Len(input.sessions)
    /\ Combined \in DOMAIN zip =>
         LET records == Stats(zip[<<"sessions">>].body).records
         IN  zip[Combined].body = [i \in DOMAIN records |-> zip[SessionPath(records[i])]]
    /\ (zip[Manifest].body.exclusions # {}) =
         (input.combined /\ Combined \notin DOMAIN zip)
=============================================================================
