------------------------------ MODULE MCAdapters ------------------------------
(* Instances of Adapters: single records of every shape, and the files, stores
   and directories in which they meet. *)
EXTENDS Adapters

Line(form, size, rec) == [form |-> form, size |-> size, rec |-> rec]
Record(rec) == Line("record", 1, rec)
Part(type, text) == [type |-> type, text |-> text]

\* What is there and what happens to it meanwhile.
Found(stores, most) == [store : stores, writes : {most}]
Files(files) == {Transcript(f) : f \in files}
Alone(records) == Files({<<Record(r)>> : r \in records})

-----------------------------------------------------------------------------

ClaudeRecord(type, role, form, parts) ==
  [type |-> type, subtype |-> "", id |-> "c", role |-> role, form |-> form, parts |-> parts]

ClaudeParts ==
  {<<Part("text", "words")>>,
   <<Part("text", "wrapper"), Part("image", "nil"), Part("text", "blank")>>,
   <<Part("thinking", "words"), Part("text", "words"), Part("tool_use", "nil"), Part("reasoning", "words")>>,
   <<Part("tool_result", "words"), Part("redacted_thinking", "nil")>>,
   <<Part("future", "words"), Part("audio", "words")>>}

ClaudeSingles ==
  {ClaudeRecord(type, role, "parts", parts) :
     type \in {"user", "assistant", "system", "other", ""}, role \in {"", "user", "assistant", "developer"},
     parts \in ClaudeParts}
  \cup {ClaudeRecord(type, "", form, <<>>) :
          type \in {"user", "system", "developer", "summary", "compact"}, form \in {"absent", "invalid", "null", "object"}}
  \cup {[ClaudeRecord(type, "user", "string", <<Part("text", "words")>>) EXCEPT !.subtype = "compact_boundary"] :
          type \in {"user", "other"}}

ClaudeUser == ClaudeRecord("user", "user", "string", <<Part("text", "words")>>)
ClaudeReply == ClaudeRecord("assistant", "assistant", "parts", <<Part("text", "words"), Part("tool_use", "nil")>>)
ClaudeSummary == ClaudeRecord("summary", "", "absent", <<>>)

ClaudeFiles ==
  {<<>>,
   <<Record(ClaudeUser), Line("blank", 1, ClaudeSummary), Record(ClaudeReply)>>,
   <<Line("record", 3, ClaudeUser), Record(ClaudeReply)>>,
   <<Line("garbage", 1, ClaudeSummary), Line("record", 2, ClaudeUser), Line("record", 3, ClaudeReply)>>,
   <<Record([ClaudeSummary EXCEPT !.id = ""]), Record(ClaudeReply), Line("torn", 1, ClaudeUser)>>}

-----------------------------------------------------------------------------

CodexRecord(type, item, role, parts) ==
  [type |-> type, item |-> item, valid |-> TRUE, role |-> role, parts |-> parts, call |-> NoCall,
   shell |-> FALSE, id |-> "x"]

CodexCall(item, call, shell) ==
  [CodexRecord("response_item", item, "", <<Part("text", "words")>>) EXCEPT !.call = call, !.shell = shell]

CodexParts ==
  {<<Part("text", "words"), Part("image", "nil")>>, <<Part("text", "wrapper"), Part("reasoning", "words")>>,
   <<Part("thinking", "words"), Part("future", "words"), Part("redacted_thinking", "words")>>}

CodexSingles ==
  {CodexRecord("response_item", item, role, parts) :
     item \in {"message", "agent_message", "reasoning", "other"},
     role \in {"user", "assistant", "tool", "system"}, parts \in CodexParts}
  \cup {CodexRecord("event_msg", item, "", <<Part("text", "words")>>) :
          item \in {"user_message", "context_compacted", "patch_apply_end", "turn_aborted"}}
  \cup {[CodexRecord(type, "message", "user", <<Part("text", "words")>>) EXCEPT !.valid = FALSE] :
          type \in {"session_meta", "turn_context", "response_item", "event_msg", "world_state", "compacted", "other", ""}}

CodexMeta == CodexRecord("session_meta", "", "", <<>>)
CodexUser == CodexRecord("response_item", "message", "user", <<Part("text", "words")>>)
CodexCopy == CodexRecord("event_msg", "user_message", "", <<Part("text", "words")>>)
CodexReply == CodexRecord("response_item", "agent_message", "", <<Part("text", "words")>>)

CodexFiles ==
  {<<>>,
   <<Record(CodexMeta), Record(CodexUser), Record(CodexCopy)>>,
   <<Record(CodexCall("function_call", "1", TRUE)), Record(CodexCall("function_call_output", "1", FALSE)),
     Record(CodexCall("function_call_output", "2", FALSE))>>,
   <<Record(CodexReply), Line("record", 2, CodexMeta), Line("torn", 1, CodexUser)>>,
   <<Line("record", 3, CodexUser), Line("garbage", 1, CodexUser), Record(CodexReply)>>}

-----------------------------------------------------------------------------

PiRecord(type, id, parent) ==
  [type |-> type, id |-> id, parent |-> parent, version |-> 0, leaf |-> "", role |-> "user", valid |-> TRUE,
   form |-> "string", parts |-> <<Part("text", "words")>>]

PiHeader(version, leaf) == [PiRecord("session", "p", "") EXCEPT !.version = version, !.leaf = leaf]
PiUser(id, parent) == PiRecord("message", id, parent)
PiReply(id, parent) ==
  [PiUser(id, parent) EXCEPT !.role = "assistant", !.form = "parts",
     !.parts = <<Part("thinking", "words"), Part("toolCall", "nil"), Part("text", "words"), Part("bashCall", "nil")>>]

PiTyped(type, role, form) == [PiRecord(type, "a", "") EXCEPT !.role = role, !.form = form]

\* An entry of every type under a header.
PiSingles ==
  {PiTyped("message", role, form) :
     role \in {"user", "assistant", "toolResult", "bashExecution", "custom", "branchSummary", "compactionSummary", "other"},
     form \in {"string", "object"}}
  \cup {PiTyped(type, "", "string") :
          type \in {"model_change", "compaction", "label", "custom_message", "custom", "session", "other", ""}}
  \cup {[PiUser("a", "") EXCEPT !.valid = FALSE], PiReply("a", ""),
         [PiReply("a", "") EXCEPT !.parts = <<Part("redacted_thinking", "words"), Part("future", "words")>>]}

\* Three entries whose parents are each other, missing or none.
PiTrees ==
  {<<Record(PiHeader(version, leaf)), Record(PiUser(ids[1], parents[1])), Record(PiReply(ids[2], parents[2])),
     Record(PiUser(ids[3], parents[3]))>> :
     version \in {0, 3}, leaf \in {"", "b", "z"},
     ids \in {<<"a", "b", "c">>, <<"a", "a", "b">>, <<"", "a", "b">>},
     parents \in {<<"", "a", "b">>, <<"b", "", "a">>, <<"", "", "a">>, <<"b", "a", "">>, <<"z", "b", "a">>}}

PiFiles ==
  {<<>>, <<Record(PiUser("a", "")), Record(PiReply("b", "a"))>>,
   <<Record(PiHeader(4, "")), Record(PiUser("a", ""))>>,
   <<Line("record", 2, PiHeader(3, "")), Record(PiUser("a", "")), Line("record", 3, PiReply("b", "a")), Line("torn", 1, PiUser("c", "a"))>>,
   <<Record(PiHeader(3, "")), Line("blank", 1, PiUser("", "")), Line("garbage", 1, PiUser("", ""))>>}

-----------------------------------------------------------------------------

Message(valid, role, failed) == [valid |-> valid, role |-> role, failed |-> failed]
PartOf(type, text) == [valid |-> TRUE, type |-> type, text |-> text, shell |-> FALSE, ended |-> FALSE]
File(form, rec) == [form |-> form, rec |-> rec]

Asked == File("record", Message(TRUE, "user", FALSE))
Answered == File("record", Message(TRUE, "assistant", TRUE))
Spoke == File("record", PartOf("text", "words"))
Silent == File("record", PartOf("reasoning", "words"))
Absent(file) == [file EXCEPT !.form = "absent"]

MCMessageFiles == {Answered, Absent(Asked), File("garbage", Asked.rec)}
MCPartFiles == {Silent, Absent(Spoke), File("garbage", Spoke.rec)}

Legacy(form, messages, parts) ==
  [session |-> [form |-> form, stamp |-> 0], there |-> TRUE, messages |-> messages, dirs |-> Names, parts |-> parts]

Two(first, second) == <<first, second>>

LegacyChoices ==
  {Legacy("record", Two(Asked, message), Two(Two(Spoke, Silent), Two(part, other))) :
     message \in {Answered, Absent(Asked), File("denied", Asked.rec), File("record", Message(TRUE, "tool", FALSE))},
     part \in {Spoke, Absent(Spoke), File("large", Spoke.rec),
               File("record", [PartOf("tool", "words") EXCEPT !.ended = TRUE, !.shell = TRUE])},
     other \in {Spoke, Absent(Spoke)}}

LegacyShapes ==
  {Legacy(form, Two(Asked, Answered), Two(Two(Spoke, Spoke), Two(Spoke, Spoke))) :
          form \in {"garbage", "large", "absent", "denied"}}
  \cup {[Legacy("record", Two(Asked, Absent(Asked)), Two(Two(Absent(Spoke), Absent(Spoke)), Two(Absent(Spoke), Absent(Spoke))))
         EXCEPT !.dirs = {}],
        [Legacy("record", Two(Absent(Asked), Absent(Asked)), Two(Two(Absent(Spoke), Absent(Spoke)), Two(Absent(Spoke), Absent(Spoke))))
         EXCEPT !.dirs = {}, !.there = FALSE]}
  \cup {Legacy("record", Two(Asked, Absent(Asked)), Two(Two(Spoke, File("record", PartOf(type, "words"))), Two(Absent(Spoke), Absent(Spoke)))) :
          type \in {"patch", "compaction", "subtask", "retry", "file", "snapshot", "future"}}
  \cup {Legacy("record", Two(Asked, Absent(Asked)),
          Two(Two(File("record", [PartOf("text", "words") EXCEPT !.valid = FALSE]), Absent(Spoke)), Two(Absent(Spoke), Absent(Spoke))))}

-----------------------------------------------------------------------------

MessageRow(id, time, rec) == [id |-> id, time |-> time, rec |-> rec]
PartRow(id, message, time, rec) == [id |-> id, of |-> message, time |-> time, rec |-> rec]

Database(schema, messages, parts) == [schema |-> schema, messages |-> messages, parts |-> parts]

MCDatabases ==
  {Database("full",
     {MessageRow(1, t1, Message(TRUE, "user", FALSE)), MessageRow(2, 1, Message(valid, "assistant", FALSE))},
     {PartRow(1, 1, t2, PartOf("text", "words")), PartRow(2, of, 1, PartOf("text", "words")),
      PartRow(3, 2, 2, PartOf(type, "words"))}) :
     t1 \in 1..2, t2 \in 1..3, of \in 1..2, valid \in BOOLEAN, type \in {"text", "tool", "future"}}
  \cup {Database("full", {MessageRow(1, 1, Message(TRUE, "user", FALSE))}, {}),
        Database("full", {}, {}), Database("partless", {}, {}), Database("sessionless", {}, {})}

-----------------------------------------------------------------------------

Entry(directory, name, kind) == [directory |-> directory, name |-> name, kind |-> kind]
WholeBase == {Entry(1, 1, "transcript"), Entry(1, 2, "transcript"), Entry(1, 3, "link"), Entry(2, 1, "transcript"), Entry(2, 2, "other")}

Place(path, default, link, bases) == [path |-> path, default |-> default, link |-> link, bases |-> bases]

\* Two roots; one named twice, once more by another path, and a default that is
\* a link; a root with two directories, one of them named on its own.
Places(style) ==
  {<<Place(1, FALSE, FALSE, <<1>>), Place(2, FALSE, FALSE, <<2>>), Place(3, TRUE, FALSE, <<>>)>>,
   <<Place(1, FALSE, FALSE, <<1>>), Place(1, FALSE, FALSE, <<1>>), Place(2, FALSE, TRUE, <<1>>), Place(3, TRUE, TRUE, <<2>>)>>}
  \cup (IF style \in {"codex", "legacy"}
        THEN {<<Place(1, FALSE, FALSE, <<1, 2>>), Place(1, TRUE, FALSE, <<1, 2>>)>>} ELSE {})
  \cup (IF style = "legacy"
        THEN {<<Place(1, FALSE, FALSE, <<2>>), Place(2, TRUE, FALSE, <<1, 2>>)>>} ELSE {})

Walks ==
  UNION {{[style |-> style, candidates |-> candidates, bases |-> bases] :
            candidates \in Places(style), bases \in {<<WholeBase, {Entry(1, 1, "transcript")}>>, <<{}, WholeBase>>}} :
         style \in Styles}

\* A record on its own sees no write, for it is there to be mapped.
MCBeginnings ==
  [claude |-> Found(Alone(ClaudeSingles), 0) \cup Found(Files(ClaudeFiles), 2),
   codex  |-> Found(Alone(CodexSingles), 0) \cup Found(Files(CodexFiles), 2),
   pi     |-> Found(Files({<<Record(PiHeader(3, "")), Record(r)>> : r \in PiSingles}), 0)
              \cup Found(Files(PiTrees), 1) \cup Found(Files(PiFiles), 2),
   legacy |-> Found(LegacyShapes, 0) \cup Found(LegacyChoices, 2),
   sqlite |-> Found(MCDatabases, 1),
   walk   |-> Found(Walks, 2)]

\* One Claude Code transcript of a message and a record of an unknown type.
UnknownBeginnings ==
  [h \in Harnesses |->
     IF h = "claude"
     THEN Found(Files({<<Record(ClaudeUser), Record(ClaudeRecord("other", "", "string", <<Part("text", "words")>>))>>}), 0)
     ELSE {}]

MCAdditions ==
  [claude |-> {Record([ClaudeReply EXCEPT !.id = "d"]), Line("torn", 1, ClaudeUser)},
   codex  |-> {Record(CodexReply), Line("torn", 1, CodexMeta)},
   pi     |-> {Record(PiReply("d", "a")), Line("torn", 1, PiUser("d", ""))},
   walk   |-> {Entry(1, 2, "transcript"), Entry(3, 1, "transcript")}]

MCVersions ==
  [claude |-> {<<Record(ClaudeReply)>>},
   codex  |-> {<<Record(CodexReply)>>},
   pi     |-> {<<Record(PiHeader(3, "")), Record(PiReply("b", ""))>>, <<Record(PiReply("", ""))>>}]

=============================================================================
