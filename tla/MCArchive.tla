----------------------------- MODULE MCArchive ------------------------------
(***************************************************************************)
(* Small archives: up to two sessions out of sound ones and of ones that do *)
(* not add up in each of the ways the validation looks for.                 *)
(***************************************************************************)
EXTENDS Archive

Event(session, id, sequence, type, truncations) ==
  [session |-> session, id |-> id, sequence |-> sequence, type |-> type,
   text |-> id, truncations |-> truncations]

User(session, sequence) == Event(session, "u", sequence, "user", 0)
Assistant(session, sequence) == Event(session, "v", sequence, "assistant", 0)
Cut(session, sequence) == Event(session, "v", sequence, "assistant", 1)

Whole == [complete |-> TRUE, concurrentlyModified |-> FALSE,
          warnings |-> 0, malformed |-> 0, truncated |-> 0]

\* One session has no source.
Session(id, order, events, integrity) ==
  [id |-> id, harness |-> "codex", order |-> order,
   source |-> IF id = "c" THEN "" ELSE id,
   counts |-> CountsOf(events), integrity |-> integrity, events |-> events]

Sound ==
  {Session("a", 2, <<User("a", 0), Assistant("a", 2)>>, Whole),
   Session("b", 1, <<User("b", 1)>>, Whole),
   Session("c", 3, <<>>, [Whole EXCEPT !.concurrentlyModified = TRUE]),
   Session("d", 1, <<User("d", 0), Cut("d", 1)>>, [Whole EXCEPT !.truncated = 1]),
   Session("e", 3, <<Assistant("e", 0)>>,
           [Whole EXCEPT !.complete = FALSE, !.warnings = 1, !.malformed = 1])}

Base == Session("a", 2, <<User("a", 0), Assistant("a", 1)>>, Whole)

\* One session's counts, order, identities, types and owner gone wrong, and
\* another harness's session with the ID of a.
Unsound ==
  {[Base EXCEPT !.counts.events = 1, !.counts.assistant = 0],
   [Base EXCEPT !.counts.user = 2, !.counts.assistant = 0],
   [Base EXCEPT !.events[2].sequence = 0],
   [Base EXCEPT !.events[1].sequence = -1],
   [Base EXCEPT !.events[2].id = "u"],
   [Base EXCEPT !.events[2].type = "unknown", !.counts.assistant = 0],
   [Base EXCEPT !.events[2].session = "b"],
   [Base EXCEPT !.harness = "pi", !.order = 4]}

MCSessions ==
  {<<>>} \cup {<<s>> : s \in Sound \cup Unsound}
    \cup {<<s, t>> : s \in {u \in Sound : u.events # <<>> /\ u.integrity.complete},
                     t \in Sound \cup Unsound}

Quiet == [warnings |-> 0, degraded |-> FALSE]
MCAdapters == {<<Quiet>>, <<Quiet, [Quiet EXCEPT !.warnings = 1]>>,
               <<[Quiet EXCEPT !.degraded = TRUE], Quiet>>}

\* The combined file unasked, without a limit, and with one that the estimates
\* of some single conversations are over.  The default is a limit that those of
\* some two are over, and that some others' are not but their sizes are.
MCCombined == {<<FALSE, -1>>, <<TRUE, -1>>, <<TRUE, 104>>, <<TRUE, 0>>}

MCInputs ==
  {[sessions |-> s, errors |-> e, adapters |-> a,
    combined |-> c[1], limit |-> c[2], strict |-> strict] :
     s \in MCSessions, e \in {<<>>, <<"e">>}, a \in MCAdapters,
     c \in MCCombined, strict \in BOOLEAN}
=============================================================================
