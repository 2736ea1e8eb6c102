----------------------------- MODULE SessionTexts ------------------------------
(* The texts OmniSession makes of a session's canonical events without writing  *)
(* it for another agent (omnis-core/src/lib.rs): the search document, the       *)
(* semantic handoff, the preview, and the Markdown export.                      *)
EXTENDS Trajectory

CONSTANTS
  DocumentEdge,    \* SEARCH_DOCUMENT_EDGE_BYTE_LIMIT
  ToolEdge,        \* SEARCH_DOCUMENT_TOOL_EDGE_BYTE_LIMIT
  NoticeSize,      \* the bytes of SEARCH_TRUNCATION_NOTICE
  RecentMessages,  \* RECENT_MESSAGE_LIMIT
  RecentOutcomes,  \* RECENT_TOOL_OUTCOME_LIMIT
  ExportTools,     \* MARKDOWN_TOOL_EVENT_LIMIT
  ExportRoom,      \* MARKDOWN_TOOL_HISTORY_CHARACTER_LIMIT
  CompactFirst,    \* first_count of compact_handoff
  CompactLast,     \* the messages at the end it shows, and prefers
  CompactRooms     \* what CLIPBOARD_BYTE_LIMIT leaves for the excerpts

ASSUME TextLimitsAssumption ==
  {DocumentEdge, ToolEdge, NoticeSize, RecentMessages, RecentOutcomes, ExportTools,
   ExportRoom, CompactFirst, CompactLast} \cup CompactRooms \subseteq Nat \ {0}

-----------------------------------------------------------------------------
(* Bytes.  A byte is [at, first]: its place in what the session says, 0 in the  *)
(* notice of a cut, and whether a character begins with it.                     *)

IsBoundary(bytes, n) == n = Len(bytes) \/ bytes[n + 1].first

\* utf8_prefix_boundary: the longest beginning of whole characters.
FirstBytes(bytes, limit) ==
  SubSeq(bytes, 1, Max({n \in 0..Len(bytes) : n <= limit /\ IsBoundary(bytes, n)}))

\* utf8_suffix_boundary: the longest end of whole characters.
LastBytes(bytes, limit) ==
  SubSeq(bytes, 1 + Min({n \in 0..Len(bytes) : Len(bytes) - n <= limit
                                               /\ IsBoundary(bytes, n)}), Len(bytes))

\* truncation_notice
CutNotice(limit) ==
  [i \in 1..Min({NoticeSize, limit}) |-> [at |-> 0, first |-> TRUE]]

\* Both ends that fit with the notice between them.
BothEnds(head, tail, edge) ==
  LET notice == CutNotice(2 * edge)
      room == 2 * edge - Len(notice)
  IN FirstBytes(head, (room + 1) \div 2) \o notice \o LastBytes(tail, room \div 2)

\* head_tail_text, for the text of one event.
HeadTail(bytes, edge) ==
  IF Len(bytes) <= 2 * edge THEN bytes ELSE BothEnds(bytes, bytes, edge)

\* HeadTailText::push: what does not fit into the head goes to the tail.
PushText(text, bytes) ==
  LET fits == FirstBytes(bytes, DocumentEdge - Len(text.head))
      rest == SubSeq(bytes, Len(fits) + 1, Len(bytes))
  IN [head |-> text.head \o fits,
      tail |-> LastBytes(text.tail \o rest, DocumentEdge),
      size |-> text.size + Len(bytes)]

IsCut(text) == text.size > 2 * DocumentEdge

\* HeadTailText::finish
FinishedText(text) ==
  IF IsCut(text) THEN BothEnds(text.head, text.tail, DocumentEdge) ELSE text.head \o text.tail

-----------------------------------------------------------------------------
(* The search document *)

IsSearched(event) ==
  \/ event.kind \in ToolKinds
  \/ event.kind \in MessageKinds /\ ~IsHarnessEnvelope(event.body.text)

\* The i-th text: a message is one character of two bytes, a tool record five of one.
BytesOf(event, i) ==
  IF event.kind \in MessageKinds
    THEN [k \in 1..2 |-> [at |-> 10 * i + k, first |-> k = 1]]
    ELSE [k \in 1..5 |-> [at |-> 10 * i + k, first |-> TRUE]]

\* The blank line in front of it.
Separator(i) ==
  IF i = 1 THEN <<>> ELSE [k \in 1..2 |-> [at |-> 10 * i - 3 + k, first |-> TRUE]]

\* search_event_text; a message never reaches the limit of an event here.
SearchEventText(event, i) ==
  IF event.kind \in ToolKinds THEN HeadTail(BytesOf(event, i), ToolEdge)
  ELSE BytesOf(event, i)

\* trajectory_search_document, search_truncation_strategy
SearchDocument(events) ==
  LET searched == SelectSeq(events, IsSearched)
      pieces == FlattenSeq([i \in DOMAIN searched |->
                  <<Separator(i), SearchEventText(searched[i], i)>>])
      text == FoldLeft(PushText, [head |-> <<>>, tail |-> <<>>, size |-> 0], pieces)
      cut == \E i \in DOMAIN searched :
               SearchEventText(searched[i], i) # BytesOf(searched[i], i)
  IN [bytes |-> FinishedText(text), complete |-> ~ReportsOmission(events),
      truncated |-> cut \/ IsCut(text) \/ ReportsOmission(events)]

-----------------------------------------------------------------------------
(* Handoff, preview and export *)

\* message_text and is_harness_envelope
VisibleMessages(events) ==
  LET said == SelectSeq(events, LAMBDA e : e.kind \in MessageKinds
                                           /\ ~IsHarnessEnvelope(e.body.text))
  IN [i \in DOMAIN said |-> [role |-> said[i].kind, text |-> said[i].body.text]]

\* tool_outcome: calls are never handed off.
ToolOutcomes(events) ==
  LET told == SelectSeq(events, LAMBDA e : e.kind \in ToolKinds \ {"called"})
  IN [i \in DOMAIN told |-> <<told[i].kind, told[i].body.output>>]

\* plan_semantic_handoff: what a new session is told of an old one.
SemanticHandoff(events) ==
  LET said == VisibleMessages(events)
  IN [objective |-> Newest(SelectSeq(said, LAMBDA m : m.role = "user"), 1),
      recent |-> Newest(said, RecentMessages),
      outcomes |-> Newest(ToolOutcomes(events), RecentOutcomes)]

\* session_preview
SessionPreview(events) ==
  LET said == VisibleMessages(events)
  IN [first |-> SubSeq(said, 1, Min({1, Len(said)})), latest |-> Newest(said, 1),
      messages |-> Len(said), tools |-> Cardinality(ToolPositions(events))]

MessageSize(message) == TextLength(message.text)

\* The newest that fit: the first that does not ends the selection.
Fitting(messages, room) ==
  {i \in DOMAIN messages :
     MapThenSumSet(LAMBDA j : MessageSize(messages[j]), i..Len(messages)) <= room}

\* import_conversation: the newest summary stays in front of what fits behind it.
ImportConversation(events, limit) ==
  LET said == SelectSeq(events, LAMBDA e : e.kind = "compaction" \/ (e.kind \in MessageKinds
                                           /\ ~IsHarnessEnvelope(e.body.text)))
      all == [i \in DOMAIN said |->
                IF said[i].kind = "compaction"
                  THEN [role |-> "assistant", text |-> <<"source summary", said[i].body.text[2]>>]
                  ELSE [role |-> said[i].kind, text |-> said[i].body.text]]
      start == Max({0} \cup {i \in DOMAIN said : said[i].kind = "compaction"})
      anchor == IF start > 0 /\ MessageSize(all[start]) <= limit THEN <<all[start]>> ELSE <<>>
      room == IF anchor = <<>> THEN limit ELSE limit - MessageSize(anchor[1])
      tail == SubSeq(all, start + 1, Len(all))
      kept == Fitting(tail, room)
  IN [messages |-> anchor \o At(tail, kept),
      truncated |-> \/ ReportsOmission(events) \/ start > 1 \/ kept # DOMAIN tail
                    \/ start > 0 /\ anchor = <<>>]

\* markdown_tool_activity: the oldest that fit.
ToolActivity(events) ==
  LET tools == SelectSeq(events, LAMBDA e : e.kind \in ToolKinds)
      count == Min({Len(tools), ExportTools, ExportRoom \div 2})
  IN [records |-> [i \in 1..count |-> <<ToolLabel(tools[i].kind), Detail(tools[i])>>],
      truncated |-> ReportsOmission(events) \/ count < Len(tools)]

\* render_markdown_export
MarkdownExport(events, limit) ==
  [conversation |-> ImportConversation(events, limit), activity |-> ToolActivity(events)]

\* bounded_excerpt: what a message may take of the room is cut out of its middle.
Excerpt(size, budget) == Min({size, budget})

\* compact_handoff: the first and the last messages of an ImportConversation, which share the
\* room by weight, and what is left out of a share goes to those after it.
CompactHandoff(conversation, room) ==
  LET count == Len(conversation.messages)
      first == Min({count, CompactFirst})
      last == Max({first, count - CompactLast})
      shown == [i \in 1..first |-> i] \o [i \in 1..(count - last) |-> last + i]
      weight(i) == IF i > count - CompactLast THEN 2 ELSE 1
      share(done, i) ==
        LET size == MessageSize(conversation.messages[i])
            taken == Excerpt(size, (done.room * weight(i)) \div done.weights)
        IN [room |-> done.room - taken, weights |-> done.weights - weight(i),
            sizes |-> Append(done.sizes, taken), cut |-> done.cut \/ taken < size]
      result == FoldLeft(share, [room |-> room, sizes |-> <<>>, cut |-> FALSE,
                                 weights |-> MapThenSumSet(weight, Range(shown))], shown)
  IN [messages |-> At(conversation.messages, Range(shown)), sizes |-> result.sizes,
      truncated |-> conversation.truncated \/ last > first \/ result.cut]

\* build_semantic_handoff_report_for_snapshot, semantic_handoff_report: what is said of a
\* handoff before it is used.
HandoffReport(source, events) ==
  [mode |-> "semantic_handoff", pairs |-> 0,
   conversation |-> IF source = "cursor-cli" /\ \A i \in DOMAIN events :
                         events[i].kind \notin MessageKinds
                      THEN "unsupported" ELSE "summarized"]
================================================================================
