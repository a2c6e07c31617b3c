-------------------------- MODULE ArchiveValidation --------------------------
(***************************************************************************)
(* What validation.Archive accepts: the reopened ZIP is a function from     *)
(* entry names to contents.  A name is its sequence of path segments, a     *)
(* content its body with a flag that says whether its bytes are those that  *)
(* were written.  SHA-256 is taken to be injective, so a digest is the      *)
(* content itself.  The entries of a function have no order, and no name    *)
(* repeats: both are by sort.Strings and a map on the writing side.         *)
(* Wording, identifiers' spelling and path syntax are left out.             *)
(***************************************************************************)
EXTENDS Selections, Integers, Sequences, SequencesExt

Schemas == {<<"schemas", s>> : s \in {"event", "manifest", "session"}}
ReportNames == {<<"README">>, <<"SUMMARY">>, <<"REVIEW_GUIDE">>}
RecordNames == {<<"sessions">>, <<"errors">>, <<"redactions">>}
Manifest == <<"manifest">>
Checksums == <<"CHECKSUMS">>
Combined == <<"ALL_CONVERSATIONS">>

requiredEntries ==
  Schemas \cup ReportNames \cup RecordNames \cup {Manifest, Checksums}

\* render.SessionPath
SessionPath(session) == <<"conversations", session.harness, session.id>>

Links(sessions) ==
  [i \in DOMAIN sessions |->
     [path |-> SessionPath(sessions[i]), session |-> sessions[i]]]

\* The reports, by what of the manifest and the sessions they show.
WriteREADME(links) ==
  [i \in DOMAIN links |-> <<links[i].path, links[i].session.counts.events>>]

WriteSummary(manifest, links) ==
  [totals |-> manifest.totals, incomplete |-> manifest.incomplete,
   errors |-> manifest.errors,
   rows |-> [i \in DOMAIN links |->
               <<links[i].path, links[i].session.counts,
                 links[i].session.integrity.complete>>],
   warnings |-> [i \in DOMAIN links |->
                   <<links[i].path, links[i].session.integrity.warnings>>]]

Sum(sequence) == FoldSeq(+, 0, sequence)

UsageTypes == {"user", "assistant"}

OfType(events, type) == {e \in DOMAIN events : events[e].type = type}

CountsOf(events) ==
  [events |-> Len(events),
   user |-> Cardinality(OfType(events, "user")),
   assistant |-> Cardinality(OfType(events, "assistant"))]

-----------------------------------------------------------------------------
\* sessions.jsonl: a session's line, then those of its events.

IsSession(line) == line.record = "session"
IsEvent(line) == line.record = "event"
SessionLines(lines) == {i \in DOMAIN lines : IsSession(lines[i])}
EventLines(lines) == {i \in DOMAIN lines : IsEvent(lines[i])}

\* The events between a session's line and the next session's.
Group(lines, i) ==
  LET end == {j \in SessionLines(lines) : j > i} \cup {Len(lines) + 1}
  IN  SubSeq(lines, i + 1, Min(end) - 1)

\* The checks of one event's line under the current session.
GroupAccepted(session, events) ==
  /\ \A e \in DOMAIN events :
       /\ events[e].session = session.id
       /\ events[e].type \in UsageTypes
       /\ events[e].sequence >= 0
  /\ \A d, e \in DOMAIN events :
       d < e => /\ events[d].sequence < events[e].sequence
                /\ events[d].id # events[e].id

\* A plausible slip: the last session is never finished.
MutFinishedNotAtEnd(lines, i) ==
  (\E j \in SessionLines(lines) : j > i) =>
     lines[i].counts = CountsOf(Group(lines, i))

\* finish, at the next session's line and at the end of the file.
Finished(lines, i) == lines[i].counts = CountsOf(Group(lines, i))

SessionsJSONL(lines) ==
  /\ lines # <<>> => IsSession(lines[1])
  /\ \A i, j \in SessionLines(lines) : lines[i].id = lines[j].id => i = j
  /\ \A i \in SessionLines(lines) : /\ GroupAccepted(lines[i], Group(lines, i))
                                    /\ Finished(lines, i)

\* RecordStats, for lines SessionsJSONL accepts.
Stats(lines) ==
  LET events == At(lines, EventLines(lines))
  IN  [records |-> At(lines, SessionLines(lines)),
       events |-> Len(events),
       truncation |-> Sum([e \in DOMAIN events |-> events[e].truncations])]

WarningsOf(adapters, sessions) ==
  Sum([a \in DOMAIN adapters |-> adapters[a].warnings])
    + Sum([s \in DOMAIN sessions |-> sessions[s].integrity.warnings])

-----------------------------------------------------------------------------
(* Archive and reconcile.                                                   *)

\* The checksum report names every other entry with its digest, and no more.
ChecksumsMatch(zip) ==
  LET checksums == zip[Checksums].body
  IN  /\ DOMAIN checksums = DOMAIN zip \ {Checksums}
      /\ \A name \in DOMAIN checksums : checksums[name] = zip[name]

TotalsReconcile(zip) ==
  LET manifest == zip[Manifest].body
      stats == Stats(zip[<<"sessions">>].body)
      totals == manifest.totals
  IN  /\ totals.sessions = Len(stats.records)
      /\ totals.events = stats.events
      /\ totals.errors = Len(zip[<<"errors">>].body)
      /\ totals.truncations = stats.truncation
      /\ totals.warnings = WarningsOf(manifest.adapters, stats.records)
      /\ Len(manifest.errors) = Len(zip[<<"errors">>].body)

ReportsMatch(zip) ==
  LET manifest == zip[Manifest].body
      records == Stats(zip[<<"sessions">>].body).records
      links == Links(records)
  IN  /\ \A i \in DOMAIN links : links[i].path \in DOMAIN zip
      /\ zip[<<"README">>].body = WriteREADME(links)
      /\ zip[<<"REVIEW_GUIDE">>].body = <<>>
      /\ zip[<<"SUMMARY">>].body = WriteSummary(manifest, links)

FilesMatch(zip) ==
  LET files == zip[Manifest].body.files
  IN  /\ DOMAIN files = DOMAIN zip \ {Manifest, Checksums}
      /\ \A name \in DOMAIN files : files[name] = zip[name]

reconcile(zip) ==
  /\ SessionsJSONL(zip[<<"sessions">>].body)
  /\ zip[<<"redactions">>].body = <<>>
  /\ TotalsReconcile(zip)
  /\ ReportsMatch(zip)
  /\ zip[Manifest].body.combined = (Combined \in DOMAIN zip)
  /\ FilesMatch(zip)

\* validation.Archive
Accepts(zip) ==
  /\ requiredEntries \subseteq DOMAIN zip
  /\ ChecksumsMatch(zip)
  /\ reconcile(zip)
=============================================================================
