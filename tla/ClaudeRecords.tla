----------------------------- MODULE ClaudeRecords ----------------------------
(***************************************************************************)
(* claude/map.go: how one JSONL record of Claude Code becomes events.      *)
(*                                                                         *)
(* A record is [type, subtype, id, role, form, parts]: form says what the  *)
(* message field is: "absent", "invalid" (not an object), or an object     *)
(* whose content is "null", a "string", an array of "parts" or some other  *)
(* "object"; a string content is one text part.  A part is [type, text].   *)
(* id is the sessionId, "" when the record has none.  "developer" stands   *)
(* for system_message too, "compact" for any type with that word in it.    *)
(***************************************************************************)
EXTENDS NativeEvents

IsRecord(record) ==
  /\ record.type \in {"", "user", "assistant", "system", "summary", "developer", "compact", "other"}
  /\ record.form \in {"absent", "invalid", "null", "string", "parts", "object"}
  /\ record.parts \in Seq(Parts)
  /\ record.form = "null" => record.parts = <<>>

\* One error for both ways a record can fail to decode.
MapError == <<>>

Structured == {"tool_use", "tool_result", "thinking", "redacted_thinking"}

\* childEvent, with the type and role its caller gives it: the message's own
\* content never stays on it.
ChildEvent(base, type, role, content) ==
  [base EXCEPT !.type = type, !.role = role, !.content = content]

\* The switch over the parts that do not belong to the visible message.
StructuredEvent(base, part) ==
  CASE part.type = "tool_use"    -> ChildEvent(base, "tool_call", "assistant", <<>>)
    [] part.type = "tool_result" -> ChildEvent(base, "tool_result", "tool", <<>>)
    [] OTHER -> ChildEvent(base, "metadata", "assistant", <<Block("reasoning", "nil")>>)

PartBlock(part) == Block(IF part.type \in BlockKinds THEN part.type ELSE "document", part.text)

\* mapMessageRecord on an array or a string: visible blocks stay on the
\* message's own event; if there are none, the structured events stand alone.
SplitParts(own, parts) ==
  LET visible == At(parts, {i \in DOMAIN parts : parts[i].type \notin Structured})
      structured == At(parts, {i \in DOMAIN parts : parts[i].type \in Structured})
      children == [i \in DOMAIN structured |-> StructuredEvent(own, structured[i])]
  IN IF visible = <<>> /\ structured # <<>> THEN children
     ELSE <<[own EXCEPT !.content = [i \in DOMAIN visible |-> PartBlock(visible[i])]]>> \o children

MapMessageRecord(base, record) ==
  LET role == RoleOf(IF record.role = "" THEN record.type ELSE record.role)
      own == [base EXCEPT !.role = role, !.type = MessageType(role)]
  IN CASE record.form = "invalid" -> MapError
       [] record.form = "absent"  -> <<base>>
       [] record.form = "object"  -> <<own>>
       [] record.form \in {"null", "string", "parts"} -> SplitParts(own, record.parts)

\* mapNativeRecord: only user, assistant and system records carry messages.
MapNativeRecord(record, line) ==
  LET base == Event("metadata", "harness", line, RawBlocks)
      boundary == record.subtype = "compact_boundary"
  IN CASE record.type = "" -> MapError
       [] record.type \in {"user", "assistant", "system"} ->
            IF boundary THEN <<[base EXCEPT !.type = "compaction"]>> ELSE MapMessageRecord(base, record)
       [] record.type = "summary" -> <<[base EXCEPT !.type = "compaction"]>>
       [] record.type = "developer" ->
            <<[base EXCEPT !.type = "developer_message", !.role = "developer"]>>
       [] record.type \in {"compact", "other"} ->
            <<[base EXCEPT !.type = IF boundary \/ record.type = "compact" THEN "compaction" ELSE "unknown"]>>

=============================================================================
