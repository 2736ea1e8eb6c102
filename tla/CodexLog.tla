------------------------------- MODULE CodexLog --------------------------------
(* Rollouts of Codex: how omnis-adapters/src/codex.rs reads one, and how        *)
(* codex_import.rs hands a trajectory to the Codex app-server.  A record is     *)
(* [type, ...]: a message is written as a response item, as an event, or as     *)
(* both; a rolled back turn stays in the file behind a later marker.            *)
EXTENDS Trajectory

CONSTANTS CodexToolLimit,     \* MAX_CANONICAL_TOOL_EVENTS
          CodexInterval       \* TOOL_COMPACTION_RECORD_INTERVAL

ASSUME CodexAssumption == CodexToolLimit \in Nat /\ CodexInterval \in Nat \ {0}

NoText == [kind |-> "none", text |-> <<"none", 0>>, raw |-> "none"]
NoTurn == [sequence |-> -1, tools |-> 0]

\* CodexHistory::new
NewHistory ==
  [b |-> NewBuilder, last |-> NoText, turns |-> <<>>, pending |-> NoTurn,
   tools |-> 0, omitted |-> 0, seen |-> 0, oversized |-> 0]

\* CodexHistory::checkpoint
Checkpoint(h) == [sequence |-> h.b.next, tools |-> h.tools]

\* CodexHistory::compact; the cap on all events is out of the model's reach.
CompactTools(h) ==
  [h EXCEPT !.omitted = @ + Cardinality(SpareTools(h.b.events, CodexToolLimit)),
            !.b = RetainLatestToolEvents(@, CodexToolLimit)]

\* A mutant of RolledBack: omissions among the rolled back turns stay counted.
RolledBackOnly(h, count) ==
  LET retained == Max({0, Len(h.turns) - count})
  IN IF count = 0 THEN h
     ELSE IF retained = Len(h.turns)
          THEN [h EXCEPT !.last = NoText, !.pending = NoTurn]
          ELSE LET turn == h.turns[retained + 1]
               IN [h EXCEPT !.b = TruncateFrom(@, turn.sequence),
                            !.turns = SubSeq(@, 1, retained),
                            !.tools = turn.tools,
                            !.last = NoText, !.pending = NoTurn]

\* The rollback branch of CodexHistory::push.
RolledBack(h, count) ==
  LET retained == Max({0, Len(h.turns) - count})
  IN IF count = 0 THEN h
     ELSE IF retained = Len(h.turns)
          THEN [h EXCEPT !.last = NoText, !.pending = NoTurn]
          ELSE LET turn == h.turns[retained + 1]
               IN [h EXCEPT !.b = TruncateFrom(@, turn.sequence),
                            !.turns = SubSeq(@, 1, retained),
                            !.tools = turn.tools,
                            !.omitted = Min({@, turn.tools}),
                            !.last = NoText, !.pending = NoTurn]

\* push_message_text: the same text as response item and as event is one message.
Mirrored(h, r) ==
  h.last.kind = r.kind /\ h.last.text = r.text /\ h.last.raw # r.type

\* is_contextual_user_text
UserTurn(r) == r.kind = "user" /\ r.text[1] # "envelope"

\* push_response_item, push_event_message
PushedMessage(h, r) ==
  IF Mirrored(h, r) THEN h
  ELSE [h EXCEPT
          !.b = Push(@, r.kind, [text |-> r.text]),
          !.last = [kind |-> r.kind, text |-> r.text, raw |-> r.type],
          !.turns = IF ~UserTurn(r) THEN @
                    ELSE Append(@, IF h.pending # NoTurn THEN h.pending
                                   ELSE Checkpoint(h)),
          !.pending = IF UserTurn(r) THEN NoTurn ELSE @]

\* A turn context opens a turn unless one is open or its user text was just read.
TurnContext(h) ==
  [h EXCEPT !.pending = IF h.pending = NoTurn /\ h.last.kind # "user"
                        THEN Checkpoint(h) ELSE @,
            !.b = Metadata(@)]

\* CodexHistory::push
PushedRecord(h, r) ==
  CASE r.type = "thread_rolled_back" -> RolledBack(h, r.turns)
    [] r.type = "turn_started" -> [h EXCEPT !.pending = Checkpoint(h), !.last = NoText]
    [] r.type \in {"turn_complete", "turn_aborted"} ->
         [h EXCEPT !.pending = NoTurn, !.last = NoText]
    [] r.type = "turn_context" -> TurnContext(h)
    [] r.type \in {"response_item", "event_msg"} -> PushedMessage(h, r)
    [] r.type = "tool" ->
         [h EXCEPT !.b = Push(@, r.kind, r.body), !.last = NoText, !.tools = @ + 1]

\* One record of CodexSession::canonical_events: an oversized one is only counted.
ReadRecord(h, r) ==
  IF r.type = "oversized" THEN [h EXCEPT !.oversized = @ + 1]
  ELSE LET pushed == [PushedRecord(h, r) EXCEPT !.seen = @ + 1]
       IN IF pushed.seen % CodexInterval = 0 THEN CompactTools(pushed) ELSE pushed

\* CodexSession::canonical_events
CodexRead(records) ==
  LET h == CompactTools(FoldLeft(ReadRecord, NewHistory, records))
  IN Notice(Notice(h.b, h.omitted), h.oversized)

\* push_record: a preview knows no turns.
PreviewRecord(h, r) ==
  IF r.type \in {"turn_context", "response_item", "event_msg", "tool"}
  THEN PushedRecord(h, r) ELSE h

\* contains_rollback_marker
ContainsRollbackMarker(records) ==
  \E i \in DOMAIN records : records[i].type = "thread_rolled_back"

\* preview_session: a part of the file does not show which turns are gone.
CodexPreview(records, room) ==
  IF ContainsRollbackMarker(records)
  THEN RetainPreviewEvents(CodexRead(records), room.events)
  ELSE FoldLeft(PreviewRecord, NewHistory,
                JsonLinesPreview(records, LargeRecords(records), room)).b

-----------------------------------------------------------------------------
(* What Codex appends (external): older releases write response items only.   *)

CodexMessage(mirrored, kind, text) ==
  LET item == [type |-> "response_item", kind |-> kind, text |-> text]
      event == [type |-> "event_msg", kind |-> kind, text |-> text]
  IN IF ~mirrored THEN <<item>>
     ELSE IF kind = "user" THEN <<item, event>> ELSE <<event, item>>

CodexTurn(mirrored) ==
  (IF mirrored THEN <<[type |-> "turn_started"]>> ELSE <<>>)
    \o <<[type |-> "turn_context"]>>

CodexAppends(mirrored, e) ==
  CASE e.kind = "user" ->
         (IF e.body.text[1] = "envelope" THEN <<>> ELSE CodexTurn(mirrored))
           \o CodexMessage(mirrored, "user", e.body.text)
    [] e.kind = "assistant" -> CodexMessage(mirrored, "assistant", e.body.text)
    [] e.kind \in ToolKinds -> <<[type |-> "tool", kind |-> e.kind, body |-> e.body]>>

\* build of codex_import.rs: tool records become assistant texts, and a first
\* assistant text is preceded by the note that the history is imported.
CodexExpected(items) ==
  LET said == [i \in DOMAIN items |->
                 [role |-> IF items[i].kind = "user" THEN "user" ELSE "assistant",
                  text |-> items[i].text]]
  IN IF said # <<>> /\ said[1].role = "assistant"
     THEN <<[role |-> "user", text |-> <<"boundary", 0>>]>> \o said
     ELSE said

\* The rollout the app-server writes for them, with its own context around.
CodexImports(mirrored, expected) ==
  CodexAppends(mirrored, Said("user", <<"envelope", 0>>))
    \o FlattenSeq([i \in DOMAIN expected |->
                     CodexAppends(mirrored, Said(expected[i].role, expected[i].text))])
    \o CodexMessage(mirrored, "assistant", <<"marker", 0>>)

\* readback_report of codex_import.rs: the messages end with the expected ones
\* and no tool event is among them.
CodexReadsBack(events, expected) ==
  LET said == SelectSeq(events, LAMBDA e : /\ e.kind \in MessageKinds
                                           /\ e.body.text[1] # "marker")
      actual == [i \in DOMAIN said |-> [role |-> said[i].kind, text |-> said[i].body.text]]
  IN /\ IsSuffix(expected, actual)
     /\ ToolPositions(events) = {}
================================================================================
