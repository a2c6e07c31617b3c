------------------------------- MODULE PiRecords ------------------------------
(***************************************************************************)
(* pi/map.go and pi/index.go: how the entries of a Pi session become       *)
(* events, and in which order.                                             *)
(*                                                                         *)
(* An entry is [type, id, parent, version, leaf, role, valid, form, parts]:*)
(* a session header uses id, version and leaf, a message role, valid (its  *)
(* message decodes) and its content.  Content forms are "null", a "string" *)
(* of one part, an array of "parts" and some other "object".  A part is    *)
(* [type, text].  A name is "" when the field is missing.                  *)
(*                                                                         *)
(* An indexed record is [line, header, tooLarge, malformed, id, parent];   *)
(* its line is its place in the index.  Labels and branch names, which     *)
(* usageEvent clears from every event, are left out.                       *)
(***************************************************************************)
EXTENDS NativeEvents, FiniteSets, SequencesExt

IsEntry(entry) ==
  /\ entry.type \in {"", "message", "model_change", "compaction", "branch_summary", "label", "custom_message",
                     "session_info", "thinking_level_change", "custom", "session", "other"}
  /\ entry.valid \in BOOLEAN
  /\ entry.form \in {"null", "string", "parts", "object"}
  /\ entry.parts \in Seq(Parts)
  /\ entry.form = "null" => entry.parts = <<>>
  /\ entry.form = "string" => \A i \in DOMAIN entry.parts : entry.parts[i].type = "text"

MapError == <<>>

Supported(version) == version \in 1..3

\* parseContent, textContent and rawContent of map.go.
PartBlock(part) ==
  CASE part.type = "thinking"                   -> Block("reasoning", part.text)
    [] part.type \in BlockKinds \ {"thinking"} -> Block(part.type, part.text)
    [] OTHER                                    -> Block("document", part.text)

ParseContent(entry) ==
  IF entry.form = "object" THEN RawBlocks
  ELSE [i \in DOMAIN entry.parts |-> PartBlock(entry.parts[i])]

\* mapAssistantMessage: tool calls become events of their own, after the
\* message they were part of.
MapAssistantMessage(base, entry) ==
  LET isCall == {i \in DOMAIN entry.parts : entry.parts[i].type \in {"toolCall", "bashCall"}}
      spoken == At(entry.parts, DOMAIN entry.parts \ isCall)
      calls == At(entry.parts, isCall)
  IN IF entry.form # "parts" THEN <<[base EXCEPT !.content = ParseContent(entry)]>>
     ELSE <<[base EXCEPT !.content = [i \in DOMAIN spoken |-> PartBlock(spoken[i])]]>>
          \o [i \in DOMAIN calls |->
                [base EXCEPT !.type = IF calls[i].type = "bashCall" THEN "command" ELSE "tool_call",
                             !.content = <<>>]]

MapMessage(base, entry) ==
  LET said(type, role) == <<[base EXCEPT !.type = type, !.role = role, !.content = ParseContent(entry)]>>
  IN IF ~entry.valid THEN MapError
     ELSE CASE entry.role = "user"              -> said("user_message", "user")
            [] entry.role = "assistant"         ->
                 MapAssistantMessage([base EXCEPT !.type = "assistant_message", !.role = "assistant"], entry)
            [] entry.role = "toolResult"        -> said("tool_result", "tool")
            [] entry.role = "bashExecution"     -> said("command_result", "tool")
            [] entry.role = "custom"            -> said("metadata", "harness")
            [] entry.role = "branchSummary"     -> said("branch", "harness")
            [] entry.role = "compactionSummary" -> said("compaction", "harness")
            [] OTHER -> <<[base EXCEPT !.type = "unknown", !.role = "unknown", !.content = RawBlocks]>>

MapEntry(entry, line) ==
  LET base == Event("metadata", "harness", line, RawBlocks)
      ofType(type) == <<[base EXCEPT !.type = type, !.content = ParseContent(entry)]>>
  IN CASE entry.type = ""                          -> MapError
       [] entry.type = "message"                   -> MapMessage(base, entry)
       [] entry.type = "model_change"              -> <<[base EXCEPT !.type = "model_change"]>>
       [] entry.type = "compaction"                -> ofType("compaction")
       [] entry.type \in {"branch_summary", "label"} -> ofType("branch")
       [] entry.type \in {"custom_message", "session_info", "thinking_level_change"} -> ofType("metadata")
       [] entry.type = "custom"                    -> <<base>>
       [] entry.type \in {"session", "other"}      -> <<[base EXCEPT !.type = "unknown"]>>

HeaderEvent(line) == Event("metadata", "harness", line, RawBlocks)

\* unknownEvent and malformedEvent: kept as evidence, shown to nobody.
UnknownEvent(line) == Event("unknown", "harness", line, RawBlocks)

-----------------------------------------------------------------------------
(* buildIndex: one record *)

\* What the index keeps between records.
NoIndex == [version |-> 0, leaf |-> "", previous |-> "", records |-> <<>>]

LineID(line) == "line:" \o ToString(line)

\* A version 1 session has no tree: every entry follows the one before it.
IndexEntry(index, entry, line) ==
  LET linear == index.version = 1
      id == IF linear /\ entry.id = "" THEN LineID(line) ELSE entry.id
  IN [index EXCEPT
        !.previous = IF linear THEN id ELSE @,
        !.records = Append(@,
          [line |-> line, header |-> FALSE, tooLarge |-> FALSE, malformed |-> FALSE, id |-> id,
           parent |-> IF linear THEN index.previous ELSE entry.parent])]

IndexHeader(index, entry, line) ==
  [index EXCEPT
     !.version = IF entry.version = 0 THEN 1 ELSE entry.version,
     !.leaf = entry.leaf,
     !.records = Append(@,
       [line |-> line, header |-> TRUE, tooLarge |-> FALSE, malformed |-> FALSE, id |-> "", parent |-> ""])]

IndexUnreadable(index, line, tooLarge) ==
  [index EXCEPT !.records = Append(@,
     [line |-> line, header |-> FALSE, tooLarge |-> tooLarge, malformed |-> ~tooLarge, id |-> "",
      parent |-> ""])]

-----------------------------------------------------------------------------
(* analyzeGraph *)

InTree(record) == ~record.header /\ ~record.tooLarge /\ ~record.malformed /\ record.id # ""

\* firstByID: the first entry of an identifier owns it.
Owners(records) ==
  {i \in DOMAIN records :
     InTree(records[i]) /\ \A j \in 1..(i - 1) : InTree(records[j]) => records[j].id # records[i].id}

Duplicates(records) == {i \in DOMAIN records : InTree(records[i])} \ Owners(records)

\* The owner of the parent's identifier; 0 for a root and for a missing parent.
ParentOf(records, i) ==
  LET named == {j \in Owners(records) : records[j].id = records[i].parent}
  IN IF records[i].parent = "" \/ named = {} THEN 0 ELSE CHOOSE j \in named : TRUE

Roots(records) == {i \in Owners(records) : ParentOf(records, i) = 0}

\* The heap: of the records whose parent has been passed, or that have none,
\* the first in the file comes next.
Topological(records) ==
  LET body == {i \in DOMAIN records : ~records[i].header}
      tree == Owners(records)
      parent == [i \in tree |-> ParentOf(records, i)]
      ready(passed) ==
        {i \in body \ passed : i \in tree => parent[i] \in passed \cup {0}}
      pop[n \in 0..Len(records)] ==
        IF n = 0 THEN <<>>
        ELSE LET next == ready(ToSet(pop[n - 1]))
             IN IF next = {} THEN pop[n - 1]
                ELSE Append(pop[n - 1], CHOOSE i \in next : \A j \in next : i <= j)
  IN pop[Len(records)]

\* The header first, then the tree and what cannot join it, then the entries a
\* cycle keeps from ever being ready, in the order of the file.
MutOrderDropsCycles(records) ==
  Ascending({i \in DOMAIN records : records[i].header}) \o Topological(records)

Order(records) ==
  LET headers == {i \in DOMAIN records : records[i].header}
      sorted == Topological(records)
      cyclic == Owners(records) \ ToSet(sorted)
  IN Ascending(headers) \o sorted \o Ascending(cyclic)

\* analysis.partial: anything but one tree, every entry in it once.
Irregular(index) ==
  LET records == index.records IN
  \/ \E i \in DOMAIN records :
       ~records[i].header /\ ~records[i].tooLarge /\ ~records[i].malformed /\ records[i].id = ""
  \/ Duplicates(records) # {}
  \/ \E i \in Owners(records) : records[i].parent # "" /\ ParentOf(records, i) = 0
  \/ Cardinality(Roots(records)) > 1 /\ index.version \in 2..3
  \/ ~(Owners(records) \subseteq ToSet(Topological(records)))

\* activePath: from the header's leaf, or the last entry, up to a root.  A
\* missing parent or a cycle leaves the path unknown, which is {} here.
MutActivePathStopsAtMissing(index) ==
  LET records == index.records
      named(id) == {j \in Owners(records) : records[j].id = id}
      up[n \in 0..Len(records)] ==
        IF n = 0 THEN named(index.leaf)
        ELSE up[n - 1] \cup ({ParentOf(records, i) : i \in up[n - 1]} \ {0})
  IN up[Len(records)]

ActivePath(index) ==
  LET records == index.records
      named(id) == {j \in Owners(records) : records[j].id = id}
      last == {j \in Owners(records) : \A k \in Owners(records) : k <= j}
      leaf == IF index.leaf = "" THEN last ELSE named(index.leaf)
      up[n \in 0..Len(records)] ==
        IF n = 0 THEN leaf
        ELSE up[n - 1] \cup UNION {named(records[i].parent) : i \in up[n - 1]}
      path == up[Len(records)]
  IN IF \E i \in path : records[i].parent = "" THEN path ELSE {}

=============================================================================
