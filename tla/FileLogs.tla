------------------------------- MODULE FileLogs -------------------------------
(* Sessions kept as lines of JSON in files: those of Claude Code, Pi and Grok. *)
EXTENDS Trajectory

-----------------------------------------------------------------------------
(* Transcripts of Claude Code: how omnis-adapters/src/claude.rs reads one and   *)
(* what claude_import.rs writes.  A record is [type, side, parts]: side records *)
(* (a subagent's, a meta record, another team's) are not of this conversation;  *)
(* parts are the texts and tool blocks of one message.                          *)

ClaudeRecord(type, parts) == [type |-> type, side |-> FALSE, parts |-> parts]

\* push_events, tool_event, claude_message_kind
ClaudeEvents(r) ==
  IF r.side THEN <<>>
  ELSE [i \in DOMAIN r.parts |->
          IF r.type = "summary" THEN Part("compaction", r.parts[i].body) ELSE r.parts[i]]

\* ClaudeTranscript::observe, ClaudeTranscript::snapshot: every assistant record
\* brings its metadata event first.
ObservedRecord(t, r) ==
  IF r.type = "oversized" THEN [t EXCEPT !.oversized = @ + 1]
  ELSE [t EXCEPT !.b = PushAll(IF r.type = "assistant" /\ ~r.side THEN Metadata(@) ELSE @,
                               ClaudeEvents(r))]

ClaudeRead(records) ==
  LET t == FoldLeft(ObservedRecord, [b |-> NewBuilder, oversized |-> 0], records)
  IN Notice(t.b, t.oversized)

\* preview_session_at
ClaudePreview(records, room) ==
  ClaudeRead(JsonLinesPreview(records, LargeRecords(records), room))

-----------------------------------------------------------------------------
(* What Claude Code appends (external): a record for each block of a message.  *)

ClaudeAppends(e) ==
  CASE e.kind = "user" -> <<ClaudeRecord("user", <<Part("user", e.body)>>)>>
    [] e.kind = "assistant" ->
         <<ClaudeRecord("assistant", <<Part("assistant", e.body)>>)>>
    [] e.kind = "compaction" ->
         <<ClaudeRecord("summary", <<Part("user", e.body)>>)>>
    [] e.kind = "called" -> <<ClaudeRecord("assistant", <<e>>)>>
    [] e.kind \in {"completed", "failed"} -> <<ClaudeRecord("user", <<e>>)>>

ClaudeSide(e) == <<[ClaudeAppends(e)[1] EXCEPT !.side = TRUE]>>

\* native_records of claude_import.rs: every call is followed by its result.
ClaudeRecords(native) ==
  FlattenSeq([i \in DOMAIN native |->
    LET item == native[i]
    IN IF item.type = "message"
       THEN <<ClaudeRecord(item.role, <<Part(item.role, [text |-> item.text])>>)>>
       ELSE <<ClaudeRecord("assistant",
                <<Part("called", [id |-> item.id, name |-> item.name,
                                  value |-> item.value])>>),
              ClaudeRecord("user",
                <<Part(IF item.error THEN "failed" ELSE "completed",
                       [id |-> item.id, output |-> item.output])>>)>>])

-----------------------------------------------------------------------------
(* Sessions of Pi and Oh My Pi: how omnis-adapters/src/pi.rs reads the tree of  *)
(* entries in a file and what pi_import.rs writes.  An entry is [id, parent,    *)
(* record]; the record of a compaction names the first entry it keeps, Root for *)
(* none.  The header of the file is left out.                                   *)

Root == 0

PiEntry(log, parent, record) == [id |-> Len(log) + 1, parent |-> parent, record |-> record]

UserMessage(text) == [type |-> "message", role |-> "user", texts |-> <<text>>]
AssistantMessage(blocks) == [type |-> "message", role |-> "assistant", content |-> blocks]
TextBlock(text) == [type |-> "text", text |-> text]
ToolCall(call) == [type |-> "toolCall", call |-> call]
Thinking == [type |-> "thinking"]
ToolResult(id, output, error) ==
  [type |-> "message", role |-> "toolResult", id |-> id, output |-> output, isError |-> error]

\* emit_assistant_content
EmitAssistantContent(block) ==
  CASE block.type = "text"     -> Said("assistant", block.text)
    [] block.type = "toolCall" -> Part("called", block.call)
    [] block.type = "thinking" -> Part("provider", NoOmission)

\* emit_tool_result
EmitToolResult(message) ==
  Part(IF message.isError THEN "failed" ELSE "completed",
       [id |-> message.id, output |-> message.output])

\* emit_user_message
EmitUserMessage(message) ==
  [i \in DOMAIN message.texts |-> Said("user", message.texts[i])]

\* emit_assistant_message: its metadata goes first.
EmitAssistantMessage(message) ==
  <<Part("provider", NoOmission)>>
    \o [i \in DOMAIN message.content |-> EmitAssistantContent(message.content[i])]

\* emit_message
EmitMessage(message) ==
  CASE message.role = "user"       -> EmitUserMessage(message)
    [] message.role = "assistant"  -> EmitAssistantMessage(message)
    [] message.role = "toolResult" -> <<EmitToolResult(message)>>

\* emit_branch_summary: Pi shows it, so it stays visible unless it is empty.
EmitBranchSummary(record) ==
  IF record.summary = <<>> THEN Part("provider", NoOmission)
  ELSE Said("assistant", <<"branch", record.summary[1]>>)

\* emit_custom_message: what an extension tells the model is shown if Pi shows it.
EmitCustomMessage(record) ==
  IF record.display THEN Said("user", <<"extension", record.text>>)
  ELSE Part("provider", NoOmission)

\* emit_entry
EmitEntry(record) ==
  CASE record.type = "message"        -> EmitMessage(record)
    [] record.type = "compaction"     -> <<Part("compaction", [text |-> record.summary])>>
    [] record.type = "branch_summary" -> <<EmitBranchSummary(record)>>
    [] record.type = "custom_message" -> <<EmitCustomMessage(record)>>
    [] record.type = "model_change"   -> <<Part("provider", NoOmission)>>

IsCompaction(entry) == entry.record.type = "compaction"

TooLarge(log) == {i \in DOMAIN log : log[i].record.type = "oversized"}

\* PiTranscriptIndex: the entries that could be parsed; the last one is the leaf.
Indexed(log) == At(log, DOMAIN log \ TooLarge(log))

EntryOf(index, id) ==
  LET found == {i \in DOMAIN index : index[i].id = id}
  IN IF found = {} THEN [id |-> Root] ELSE index[CHOOSE i \in found : TRUE]

\* topology_path and session_path before the compaction: from the leaf to the root.
\* An entry whose parent is missing fails a read and ends the path of a preview.
Ancestors(index) ==
  LET walked[k \in 0..Len(index)] ==
        IF k = 0 THEN <<index[Len(index)]>>
        ELSE LET below == walked[k - 1]
             IN IF below[1].id = Root \/ below[1].parent = Root THEN below
                ELSE <<EntryOf(index, below[1].parent)>> \o below
      path == walked[Len(index)]
  IN IF index = <<>> THEN [found |-> TRUE, path |-> <<>>]
     ELSE IF path[1].id = Root THEN [found |-> FALSE, path |-> Tail(path)]
     ELSE [found |-> TRUE, path |-> path]

\* contextual_path: the latest compaction goes first, then what it keeps.
ContextualPath(path) ==
  LET compactions == {i \in DOMAIN path : IsCompaction(path[i])}
  IN IF compactions = {} THEN path
     ELSE LET last == Max(compactions)
              kept == path[last].record.kept
              first == {i \in 1..(last - 1) : path[i].id = kept}
          IN IF kept = Root THEN path
             ELSE <<path[last]>>
                  \o (IF first = {} THEN <<>> ELSE SubSeq(path, Max(first), last - 1))
                  \o SubSeq(path, last + 1, Len(path))

\* The events of the entries on a path.
EmitPath(path) ==
  FoldLeft(LAMBDA b, entry : PushAll(b, EmitEntry(entry.record)), NewBuilder,
           ContextualPath(path))

\* snapshot_from_open_file: [read] is FALSE when the tree is broken.
PiRead(log) ==
  LET tree == Ancestors(Indexed(log))
  IN IF ~tree.found THEN [read |-> FALSE, b |-> NewBuilder]
     ELSE [read |-> TRUE, b |-> Notice(EmitPath(tree.path), Cardinality(TooLarge(log)))]

\* snapshot_from_records_preview
PiPreview(log, room) ==
  EmitPath(Ancestors(JsonLinesPreview(log, TooLarge(log), room)).path)

-----------------------------------------------------------------------------
(* What Pi appends (external).                                                *)

PiAppends(log, parent, record) == Append(log, PiEntry(log, parent, record))

PiRecord(e) ==
  CASE e.kind = "user"      -> UserMessage(e.body.text)
    [] e.kind = "assistant" -> AssistantMessage(<<Thinking, TextBlock(e.body.text)>>)
    [] e.kind = "called"    -> AssistantMessage(<<Thinking, ToolCall(e.body)>>)
    [] e.kind \in {"completed", "failed"} ->
         ToolResult(e.body.id, e.body.output, e.kind = "failed")

\* native_records of pi_import.rs: each call is followed by its result.
PiMessages(native) ==
  FlattenSeq([i \in DOMAIN native |->
    LET item == native[i]
    IN IF item.type = "message"
       THEN <<IF item.role = "user" THEN UserMessage(item.text)
              ELSE AssistantMessage(<<TextBlock(item.text)>>)>>
       ELSE <<AssistantMessage(<<ToolCall([id |-> item.id, name |-> item.name,
                                            value |-> item.value])>>),
              ToolResult(item.id, item.output, item.error)>>])

\* push_message of pi_import.rs: a message is the child of the one before.
PiRecords(native) ==
  FoldLeft(LAMBDA log, record : PiAppends(log, Len(log), record), <<>>, PiMessages(native))

-----------------------------------------------------------------------------
(* Sessions of Grok: how omnis-adapters/src/grok.rs reads the stream of updates *)
(* and what grok_import.rs writes.  A message arrives in chunks: a chunk is     *)
(* [type, kind, id, text, part, parts], part 1..parts of the text of message    *)
(* id.  The budget for thoughts and attachments is not reached.                 *)

NoMessage == [kind |-> "none", id |-> 0, chunks |-> <<>>]

\* GrokUpdateProcessor
NewProcessor == [b |-> NewBuilder, pending |-> NoMessage, unsupported |-> 0, oversized |-> 0]

\* The text of chunks that follow one another; chunks of two messages tear it.
Joined(chunks) ==
  IF /\ \A i \in DOMAIN chunks : chunks[i].text = chunks[1].text /\ chunks[i].part = i
     /\ Len(chunks) = chunks[1].parts
  THEN chunks[1].text ELSE <<"torn", 0>>

\* flush_message
Flush(p) ==
  IF p.pending = NoMessage THEN p
  ELSE [p EXCEPT !.b = Push(@, p.pending.kind, [text |-> Joined(p.pending.chunks)]),
                 !.pending = NoMessage]

\* A chunk continues the pending message of its kind and id.
Continues(pending, r) == pending.kind = r.kind /\ pending.id = r.id

PushChunk(p, r) ==
  IF Continues(p.pending, r) THEN [p EXCEPT !.pending.chunks = Append(@, r)]
  ELSE [Flush(p) EXCEPT !.pending = [kind |-> r.kind, id |-> r.id, chunks |-> <<r>>]]

\* nonmessage_kind: an update of a call is its result when the status says so; an
\* unknown record is counted, a mode or configuration update is nothing.
PushUpdate(p, r) ==
  CASE r.type = "tool_call"   -> [p EXCEPT !.b = Push(@, "called", r.body)]
    [] r.type = "tool_call_update" ->
         [p EXCEPT !.b = CASE r.status = "completed" -> Push(@, "completed", r.body)
                           [] r.status = "failed"    -> Push(@, "failed", r.body)
                           [] OTHER                  -> Metadata(@)]
    [] r.type = "mode"        -> p
    [] r.type = "unknown"     -> [p EXCEPT !.b = Metadata(@), !.unsupported = @ + 1]

\* GrokUpdateProcessor::push_record; visit_json_lines only counts an oversized one.
PushGrokRecord(p, r) ==
  CASE r.type = "oversized" -> [p EXCEPT !.oversized = @ + 1]
    [] r.type = "chunk"     -> PushChunk(p, r)
    [] OTHER                -> PushUpdate(Flush(p), r)

\* read_session, finish
GrokRead(records) ==
  LET p == Flush(FoldLeft(PushGrokRecord, NewProcessor, records))
  IN Notice(Notice(p.b, p.unsupported), p.oversized)

\* preview_session: a message that is cut shows the chunks that were read.
GrokPreview(records, room) ==
  GrokRead(JsonLinesPreview(records, LargeRecords(records), room))

-----------------------------------------------------------------------------
(* What Grok appends (external).                                              *)

Chunk(kind, id, text, part, parts) ==
  [type |-> "chunk", kind |-> kind, id |-> id, text |-> text, part |-> part, parts |-> parts]

ToolUpdate(status, body) == [type |-> "tool_call_update", status |-> status, body |-> body]

GrokAppends(log, e) ==
  CASE e.kind \in MessageKinds ->
         <<Chunk(e.kind, Len(log), e.body.text, 1, 2), Chunk(e.kind, Len(log), e.body.text, 2, 2)>>
    [] e.kind = "called" ->
         <<[type |-> "tool_call", body |-> e.body], ToolUpdate("in_progress", e.body)>>
    [] e.kind \in {"completed", "failed"} -> <<ToolUpdate(e.kind, e.body)>>

\* build of grok_import.rs: a fresh id for each message, a result behind each call.
GrokUpdates(native) ==
  FlattenSeq([i \in DOMAIN native |->
    LET item == native[i]
    IN IF item.type = "message" THEN <<Chunk(item.role, i, item.text, 1, 1)>>
       ELSE <<[type |-> "tool_call",
               body |-> [id |-> item.id, name |-> item.name, value |-> item.value]],
              ToolUpdate(IF item.error THEN "failed" ELSE "completed",
                         [id |-> item.id, output |-> item.output])>>])
==============================================================================
