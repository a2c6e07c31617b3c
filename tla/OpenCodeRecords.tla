---------------------------- MODULE OpenCodeRecords ---------------------------
(***************************************************************************)
(* opencode/map.go: how a message and its parts become events.             *)
(*                                                                         *)
(* A message is [valid, role, failed]: valid says whether its data column  *)
(* or file holds an object; the role of one that does not is unknown.  A   *)
(* part is [valid, type, text, shell, ended]: shell and ended are about a  *)
(* tool part, whether it ran a command and whether its state is final.     *)
(***************************************************************************)
EXTENDS NativeEvents

MessageRecords == [valid : BOOLEAN, role : STRING, failed : BOOLEAN]
PartRecords == [valid : BOOLEAN, type : STRING, text : Texts, shell : BOOLEAN, ended : BOOLEAN]

\* parseRole.
RoleName(message) ==
  IF ~message.valid THEN "unknown"
  ELSE IF message.role = "tool" THEN "tool" ELSE RoleOf(message.role)

MapMessageMetadata(message, index) ==
  Event(IF message.valid /\ message.failed THEN "error" ELSE "metadata", RoleName(message), index, RawBlocks)

\* A call that has ended carries its result: one part, two events.
MapToolPart(base, part) ==
  LET call == [base EXCEPT !.type = IF part.shell THEN "command" ELSE "tool_call",
                           !.role = "assistant", !.content = RawBlocks]
      result == [base EXCEPT !.type = IF part.shell THEN "command_result" ELSE "tool_result",
                             !.role = "tool", !.content = <<Block("tool_result", part.text)>>]
  IN IF part.ended THEN <<call, result>> ELSE <<call>>

\* The events of mapPart.
PartEvents(message, part, index) ==
  LET role == RoleName(message)
      base == Event("metadata", role, index, RawBlocks)
      ofType(type) == <<[base EXCEPT !.type = type]>>
      type == IF part.valid THEN part.type ELSE "invalid"
  IN CASE type = "invalid" -> <<[base EXCEPT !.type = "unknown", !.role = "unknown"]>>
       [] type = "text" ->
            <<[base EXCEPT !.type = MessageType(role), !.content = <<Block("text", part.text)>>]>>
       [] type = "reasoning" ->
            <<[base EXCEPT !.role = "assistant", !.content = <<Block("reasoning", part.text)>>]>>
       [] type = "tool"       -> MapToolPart(base, part)
       [] type = "patch"      -> ofType("file_change")
       [] type = "compaction" -> ofType("compaction")
       [] type = "subtask"    -> ofType("subagent_start")
       [] type = "retry"      -> ofType("error")
       [] type \in {"file", "step-start", "snapshot"} -> ofType("metadata")
       [] OTHER -> ofType("unknown")

\* The warnings of mapPart, which make the session partial.
PartWarned(part) ==
  \/ ~part.valid
  \/ part.type \notin {"text", "reasoning", "tool", "patch", "compaction", "subtask", "retry", "file",
                       "step-start", "snapshot"}

=============================================================================
