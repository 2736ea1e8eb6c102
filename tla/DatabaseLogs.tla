----------------------------- MODULE DatabaseLogs -----------------------------
(* Sessions kept in SQLite databases: those of Hermes, OpenCode and Antigravity. *)
EXTENDS Trajectory

-----------------------------------------------------------------------------
(* Sessions of Hermes: how omnis-adapters/src/hermes.rs reads the rows of a     *)
(* session and what hermes_import.rs writes.  A row is [role, texts, calls,     *)
(* result, failed, active]; rows the user rewound stay and are not active.      *)

HermesRow(role, texts, calls, result, failed) ==
  [role |-> role, texts |-> texts, calls |-> calls, result |-> result,
   failed |-> failed, active |-> TRUE]

\* push_message
RowEvents(row) ==
  CASE row.role = "user" -> [i \in DOMAIN row.texts |-> Said("user", row.texts[i])]
    [] row.role = "assistant" ->
         [i \in DOMAIN row.texts |-> Said("assistant", row.texts[i])]
           \o [i \in DOMAIN row.calls |-> Part("called", row.calls[i])]
    [] row.role = "tool" ->
         [i \in DOMAIN row.result |->
            Part(IF row.failed THEN "failed" ELSE "completed", row.result[i])]
    [] row.role = "unknown" -> <<Part("provider", NoOmission)>>

\* session_messages: the newest `limit` rows that are active.
SessionMessages(rows, limit) == Newest(SelectSeq(rows, LAMBDA row : row.active), limit)

\* read_snapshot
ReadSnapshot(rows, limit) ==
  FoldLeft(LAMBDA b, row : PushAll(b, RowEvents(row)),
           Metadata(NewBuilder), SessionMessages(rows, limit))

HermesRead(rows) == ReadSnapshot(rows, Len(rows))
HermesPreview(rows, room) == ReadSnapshot(rows, room.sample)

-----------------------------------------------------------------------------
(* What Hermes appends or changes (external).                                  *)

HermesAppends(e) ==
  CASE e.kind \in MessageKinds -> HermesRow(e.kind, <<e.body.text>>, <<>>, <<>>, FALSE)
    [] e.kind = "called" -> HermesRow("assistant", <<>>, <<e.body>>, <<>>, FALSE)
    [] e.kind \in {"completed", "failed"} ->
         HermesRow("tool", <<>>, <<>>, <<e.body>>, e.kind = "failed")
    [] e.kind = "context" -> HermesRow("unknown", <<>>, <<>>, <<>>, FALSE)

HermesRewinds(rows, from) ==
  [i \in DOMAIN rows |-> IF i >= from THEN [rows[i] EXCEPT !.active = FALSE] ELSE rows[i]]

\* representable_item: tool rows carry no error flag, the output says it.
RepresentableItem(item) ==
  IF item.type = "tool" /\ item.error
  THEN [item EXCEPT !.error = FALSE, !.output = <<"Tool failed", @[2]>>] ELSE item

RepresentableItems(native) == [i \in DOMAIN native |-> RepresentableItem(native[i])]

\* hermes_rows
HermesRows(native) ==
  FlattenSeq([i \in DOMAIN native |->
    LET item == native[i]
    IN IF item.type = "message"
       THEN <<HermesRow(item.role, <<item.text>>, <<>>, <<>>, FALSE)>>
       ELSE <<HermesRow("assistant", <<>>,
                        <<[id |-> item.id, name |-> item.name, value |-> item.value]>>,
                        <<>>, FALSE),
              HermesRow("tool", <<>>, <<>>, <<[id |-> item.id, output |-> item.output]>>,
                        FALSE)>>])

-----------------------------------------------------------------------------
(* Exports of OpenCode: how omnis-adapters/src/opencode.rs reads one and what   *)
(* opencode_import.rs hands to `opencode import`.  A message is [role, direct,  *)
(* parts]: release 2 keeps a user's text directly, release 1 as a part.  A tool *)
(* part holds the call and, once it returned, its result.                       *)

OpenCodeMessage(role, direct, parts) == [role |-> role, direct |-> direct, parts |-> parts]
TextPart(text, synthetic) == [type |-> "text", text |-> text, synthetic |-> synthetic]
ToolPart(body, status) == [type |-> "tool", body |-> body, status |-> status]

\* push_tool_part
ToolPartEvent(part) ==
  CASE part.status = "error"     -> Part("failed", part.body)
    [] part.status = "completed" -> Part("completed", part.body)
    [] part.status = "running"   -> Part("called", part.body)

Authored(message) ==
  /\ message.role = "user"
  /\ \E i \in DOMAIN message.parts : message.parts[i].type = "text" /\ ~message.parts[i].synthetic

\* Context that stands beside a typed prompt is not the user's text.
OpenCodeParts(message) ==
  [i \in DOMAIN message.parts |->
     LET part == message.parts[i]
     IN IF part.type = "tool" THEN ToolPartEvent(part)
        ELSE IF Authored(message) /\ part.synthetic THEN Part("provider", NoOmission)
        ELSE Said(message.role, part.text)]

\* push_export_content
ExportContent(message) ==
  [i \in DOMAIN message.direct |-> Said(message.role, message.direct[i])]
    \o OpenCodeParts(message)

\* push_export_events: the metadata of an assistant message goes first.
OpenCodeRead(messages) ==
  FoldLeft(LAMBDA b, message :
             PushAll(IF message.role = "assistant" THEN Metadata(b) ELSE b,
                     ExportContent(message)),
           NewBuilder, messages)

-----------------------------------------------------------------------------
(* What OpenCode appends or changes (external).                                *)

OpenCodeAppends(v2, e) ==
  CASE e.kind = "user" ->
         IF v2 THEN OpenCodeMessage("user", <<e.body.text>>, <<>>)
         ELSE OpenCodeMessage("user", <<>>, <<TextPart(e.body.text, FALSE)>>)
    [] e.kind = "assistant" ->
         OpenCodeMessage("assistant", <<>>, <<TextPart(e.body.text, FALSE)>>)
    [] e.kind = "called" ->
         OpenCodeMessage("assistant", <<>>, <<ToolPart(e.body, "running")>>)

\* The tool part of the message at i gets its result in place.
OpenCodeReturns(messages, i, body, error) ==
  [messages EXCEPT ![i].parts =
     <<ToolPart(body, IF error THEN "error" ELSE "completed")>>]

OpenCodeInjects(messages) ==
  [messages EXCEPT ![Len(messages)].parts = Append(@, TextPart(<<"said", 0>>, TRUE))]

\* native_messages: a visible boundary, then one message for each item.
NativeMessages(native) ==
  <<OpenCodeMessage("user", <<>>, <<TextPart(<<"boundary", 0>>, FALSE)>>)>>
    \o [i \in DOMAIN native |->
          LET item == native[i]
          IN IF item.type = "message"
             THEN OpenCodeMessage(item.role, <<>>, <<TextPart(item.text, FALSE)>>)
             ELSE OpenCodeMessage("assistant", <<>>,
                    <<ToolPart([id |-> item.id, name |-> item.name, value |-> item.value,
                                output |-> item.output],
                               IF item.error THEN "error" ELSE "completed")>>)]

\* to_v2_document, v2_tool
ToV2Document(messages) ==
  [i \in DOMAIN messages |->
     IF messages[i].role = "user"
     THEN OpenCodeMessage("user", <<messages[i].parts[1].text>>, <<>>)
     ELSE messages[i]]

OpenCodeImports(v2, native) ==
  IF v2 THEN ToV2Document(NativeMessages(native)) ELSE NativeMessages(native)

-----------------------------------------------------------------------------
(* Conversations of Antigravity: how antigravity.rs, antigravity_desktop.rs and *)
(* antigravity_ide.rs in omnis-adapters/src read a transcript log or the steps  *)
(* of a database, and what antigravity_import.rs writes.  A record or step is   *)
(* [kind, body]; "opaque" is one whose text the adapters cannot show.           *)

Opaque == [kind |-> "opaque"]

\* Calls carry no id, and what they returned is only a status.
TranscriptEvents(record) ==
  CASE record.kind \in MessageKinds -> <<record>>
    [] record.kind = "called" ->
         <<Part("called", [name |-> record.body.name, value |-> record.body.value])>>
    [] record.kind = "command" -> <<record>>
    [] record.kind = "opaque" -> <<Part("provider", NoOmission)>>

\* push_transcript_record; visit_json_lines only counts an oversized record.
TranscriptRead(records) ==
  LET shown == SelectSeq(records, LAMBDA r : r.kind # "oversized")
      b == FoldLeft(LAMBDA c, r : PushAll(c, TranscriptEvents(r)), NewBuilder, shown)
  IN Notice(b, Len(records) - Len(shown))

\* A mutant of StepsRead: an opaque step is not counted.
StepsReadQuietly(steps) ==
  LET said == SelectSeq(steps, LAMBDA s : s.kind \in MessageKinds)
      large == Len(SelectSeq(steps, LAMBDA s : s.kind = "oversized"))
  IN Notice(PushAll(NewBuilder, said), large)

\* push_database_steps: what is too large is omitted, what is opaque unsupported.
StepsRead(steps) ==
  LET b == PushAll(NewBuilder,
             FlattenSeq([i \in DOMAIN steps |->
                CASE steps[i].kind \in MessageKinds -> <<steps[i]>>
                  [] steps[i].kind = "opaque" -> <<Part("provider", NoOmission)>>
                  [] steps[i].kind = "oversized" -> <<>>]))
  IN Notice(b, Cardinality({i \in DOMAIN steps : steps[i].kind \in {"opaque", "oversized"}}))

\* HistoryRetention::push_record: what is shown, and the record as it was.
RetainRecord(b, r) ==
  Metadata(IF r.kind = "opaque" THEN b ELSE Push(b, r.kind, r.body))

\* HistoryRetention::finish: the schema of the log is not known, so it proves nothing.
FinishRetention(b, shown) ==
  Push(b, "provider",
       [omitted |-> Len(SelectSeq(shown, LAMBDA r : r.kind = "opaque")), unverified |-> TRUE])

\* read of the IDE adapter
UnverifiedRead(records) ==
  LET shown == SelectSeq(records, LAMBDA r : r.kind # "oversized")
  IN FinishRetention(Notice(FoldLeft(RetainRecord, NewBuilder, shown),
                            Len(records) - Len(shown)), shown)

TooLargeRecords(records) == {i \in DOMAIN records : records[i].kind = "oversized"}

\* The previews of both logs; the steps of a database are always read whole.
TranscriptPreview(records, room) ==
  TranscriptRead(JsonLinesPreview(records, TooLargeRecords(records), room))

UnverifiedPreview(records, room) ==
  LET shown == JsonLinesPreview(records, TooLargeRecords(records), room)
  IN FinishRetention(RetainPreviewEvents(FoldLeft(RetainRecord, NewBuilder, shown),
                                         room.events), shown)

-----------------------------------------------------------------------------
(* What Antigravity appends (external): only the transcript log of the CLI      *)
(* shows tools.                                                                 *)

AntigravityAppends(transcript, e) ==
  CASE e.kind \in MessageKinds -> e
    [] e.kind \in ToolKinds -> IF transcript THEN e ELSE Opaque

\* build_database of antigravity_import.rs
AntigravitySteps(expected) ==
  [i \in DOMAIN expected |-> Said(expected[i].role, expected[i].text)]
==============================================================================
