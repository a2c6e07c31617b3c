----------------------------- MODULE NativeEvents -----------------------------
(***************************************************************************)
(* The vocabulary between the adapters and the pipeline: native events,    *)
(* their content blocks, and usageEvent, which keeps of a native event     *)
(* what the export may show.                                               *)
(*                                                                         *)
(* Abstractions.  A text is one of four things usageEvent tells apart:     *)
(* "nil" (the block has none), "blank", a harness "wrapper" such as        *)
(* <environment_context>, or "words" somebody said.  The media type of a   *)
(* block is folded into its kind, and payloads usageEvent clears (tool,    *)
(* file, model, usage, branch, native record) are left out.                *)
(***************************************************************************)
EXTENDS Selections, Sequences

\* The kinds of blocks that are never shown, whatever text they have.
ReasoningKinds == {"reasoning", "thinking", "redacted_thinking"}

BlockKinds ==
  {"text", "image", "audio", "reasoning_summary", "document", "native", "tool_result"} \cup ReasoningKinds

Block(kind, text) == [kind |-> kind, text |-> text]

\* A part of a message, as a harness stores it.
Texts == {"nil", "blank", "wrapper", "words"}
Parts == [type : STRING, text : Texts]

\* A block that carries the native record as data and no text.
RawBlocks == <<Block("native", "nil")>>

\* An event at a source position: a line number or an index.
Event(type, role, pos, content) ==
  [type |-> type, role |-> role, pos |-> pos, content |-> content]

\* What usageEvent leaves of an event: who spoke, where, and the joined parts.
Messages ==
  [speaker : {"user", "assistant"}, pos : Nat, parts : Seq({"words", "image", "audio"})]

-----------------------------------------------------------------------------

\* The roles a record may name; everything else is unknown.
RoleOf(name) ==
  IF name \in {"user", "assistant", "system", "developer"} THEN name ELSE "unknown"

MessageType(role) ==
  CASE role = "user"      -> "user_message"
    [] role = "assistant" -> "assistant_message"
    [] role = "system"    -> "system_message"
    [] role = "developer" -> "developer_message"
    [] OTHER              -> "unknown"

\* The loop over the blocks: an attachment leaves a placeholder, whatever text
\* it has; reasoning, missing and blank texts and harness wrappers go.
VisibleParts(content) ==
  LET shown == At(content, {i \in DOMAIN content :
                 \/ content[i].kind \in {"image", "audio"}
                 \/ content[i].kind \notin ReasoningKinds /\ content[i].text = "words"})
  IN [i \in DOMAIN shown |->
        IF shown[i].kind \in {"image", "audio"} THEN shown[i].kind ELSE "words"]

MutUsableWhoeverSpeaks(event) == VisibleParts(event.content) # <<>>

\* usageEvent keeps a user's user_message and an assistant's assistant_message
\* that have something to show.
Usable(event) ==
  /\ \/ event.type = "user_message" /\ event.role = "user"
     \/ event.type = "assistant_message" /\ event.role = "assistant"
  /\ VisibleParts(event.content) # <<>>

UsageEvents(events) ==
  LET kept == At(events, {i \in DOMAIN events : Usable(events[i])})
  IN [i \in DOMAIN kept |->
        [speaker |-> kept[i].role, pos |-> kept[i].pos,
         parts |-> VisibleParts(kept[i].content)]]

=============================================================================
