------------------------------ MODULE CodexRecords ----------------------------
(***************************************************************************)
(* codex/map.go: how one rollout record of Codex becomes an event.         *)
(*                                                                         *)
(* A record is [type, item, valid, role, parts, call, shell, id]: valid    *)
(* says whether the payload decodes, item is its type, a string content is *)
(* one part of type "message", call the call_id of a tool call or output,  *)
(* shell whether addCommand finds a command line in the call, id the       *)
(* session_meta's identifier.  A part is [type, text].                     *)
(***************************************************************************)
EXTENDS NativeEvents

CONSTANT NoCall  \* a record that names no call

IsRecord(record) ==
  /\ record.type \in {"", "session_meta", "turn_context", "response_item", "event_msg", "world_state",
                      "compacted", "other"}
  /\ record.type = "response_item" =>
       record.item \in {"message", "agent_message", "reasoning", "function_call", "function_call_output", "other"}
  /\ record.valid \in BOOLEAN
  /\ record.parts \in Seq(Parts)

MapError == [type |-> "map_error", role |-> "unknown", pos |-> 0, content |-> <<>>, call |-> NoCall]

\* An event with the call it belongs to; only tool events have one.
CallEvent(event, call) ==
  [type |-> event.type, role |-> event.role, pos |-> event.pos, content |-> event.content,
   call |-> call]

\* A block has the type of its part; any type not named in BlockKinds is shown
\* as text is.
ParseContent(parts) ==
  [i \in DOMAIN parts |->
     Block(IF parts[i].type \in BlockKinds THEN parts[i].type ELSE "text", parts[i].text)]

\* role: unlike Claude Code, a tool may speak.
Role(name) == IF name = "tool" THEN "tool" ELSE RoleOf(name)

\* mapResponseItem, addCommand included.
MapResponseItem(base, record) ==
  CASE record.item = "message" ->
         CallEvent([base EXCEPT !.role = Role(record.role), !.type = MessageType(Role(record.role)),
                                !.content = ParseContent(record.parts)], NoCall)
    [] record.item = "agent_message" ->
         CallEvent([base EXCEPT !.role = "assistant", !.type = "assistant_message",
                                !.content = ParseContent(record.parts)], NoCall)
    [] record.item = "reasoning" ->
         CallEvent([base EXCEPT !.role = "assistant", !.content = ParseContent(record.parts)], NoCall)
    [] record.item = "function_call" ->
         CallEvent([base EXCEPT !.role = "assistant", !.content = <<>>,
                                !.type = IF record.shell THEN "command" ELSE "tool_call"], record.call)
    [] record.item = "function_call_output" ->
         CallEvent([base EXCEPT !.role = "tool", !.type = "tool_result", !.content = <<>>], record.call)
    [] record.item = "other" -> CallEvent([base EXCEPT !.type = "unknown"], NoCall)

\* mapEventMessage: the lifecycle copy of a message never becomes one.
MapEventMessage(base, record) ==
  [base EXCEPT !.type =
     CASE record.item = "context_compacted" -> "compaction"
       [] record.item = "patch_apply_end"   -> "file_change"
       [] record.item = "turn_aborted"      -> "error"
       [] OTHER                             -> "metadata"]

MapRecord(record, line) ==
  LET base == Event("metadata", "harness", line, RawBlocks)
  IN CASE record.type = "" -> MapError
       [] record.type \in {"session_meta", "turn_context"} ->
            IF record.valid THEN CallEvent(base, NoCall) ELSE MapError
       [] record.type = "response_item" ->
            IF record.valid THEN MapResponseItem(base, record) ELSE MapError
       [] record.type = "event_msg" ->
            IF record.valid THEN CallEvent(MapEventMessage(base, record), NoCall) ELSE MapError
       [] record.type = "world_state" -> CallEvent(base, NoCall)
       [] record.type = "compacted" -> CallEvent([base EXCEPT !.type = "compaction"], NoCall)
       [] record.type = "other" -> CallEvent([base EXCEPT !.type = "unknown"], NoCall)

\* The adapter's map commandCalls: a command is remembered by its call, and the
\* output of a remembered call is a command's result.
RememberCommand(commands, event) ==
  IF event.type = "command" /\ event.call # NoCall THEN commands \cup {event.call} ELSE commands

WithCommandResult(commands, event) ==
  IF event.type = "tool_result" /\ event.call \in commands
  THEN [event EXCEPT !.type = "command_result"] ELSE event

=============================================================================
