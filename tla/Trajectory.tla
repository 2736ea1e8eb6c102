------------------------------ MODULE Trajectory -------------------------------
(* import_trajectory of omnis-core/src/lib.rs: the visible history of a session *)
(* as a native writer stores it and as a read-back finds it again.  A           *)
(* candidate is [kind, text, tool, summary]; its tool part is a call, a result, *)
(* a pair of both, or none.  Redaction and the bounds on one item are left out. *)
EXTENDS CanonicalEvents

NoPart == [part |-> "none"]

\* trajectory_tool_label
ToolLabel(kind) ==
  CASE kind = "called"    -> "tool call"
    [] kind = "completed" -> "tool result"
    [] kind = "failed"    -> "tool failure"
    [] kind = "command"   -> "command record"

ToolLabels == {ToolLabel(kind) : kind \in ToolKinds}

\* is_harness_envelope, is_import_boundary, is_documentary_tool_message
IsHarnessEnvelope(text) == text[1] \in {"envelope", "boundary", "marker"}
IsDocumentary(text) == text[1] \in ToolLabels

OmissionNotice == <<"notice", 0>>

\* Characters: a tool record is longer than a message.
TextLength(text) == IF IsDocumentary(text) THEN 2 ELSE 1

IsPair(body) == {"name", "output"} \subseteq DOMAIN body

\* native_tool_part, single_event_tool_pair
NativeToolPart(event) ==
  LET body == event.body
  IN CASE event.kind = "command" \/ "id" \notin DOMAIN body -> NoPart
       [] event.kind \in {"completed", "failed"} /\ "id" \in DOMAIN body /\ IsPair(body) ->
            [part |-> "pair", id |-> body.id, name |-> body.name, value |-> body.value,
             output |-> body.output, error |-> event.kind = "failed"]
       [] event.kind \in {"completed", "failed"} /\ "id" \in DOMAIN body /\ ~IsPair(body) ->
            [part |-> "result", id |-> body.id, output |-> body.output,
             error |-> event.kind = "failed"]
       [] event.kind = "called" /\ "id" \in DOMAIN body ->
            [part |-> "call", id |-> body.id, name |-> body.name, value |-> body.value]

\* What an event or entry shows: its text, the input of a call, or an output.
Detail(e) ==
  CASE e.kind \in MessageKinds \cup {"compaction"} -> e.body.text
    [] e.kind = "called" -> e.body.value
    [] e.kind \in ToolKinds \ {"called"} -> e.body.output

Item(kind, text, tool, summary) ==
  [kind |-> kind, text |-> text, tool |-> tool, summary |-> summary]

\* import_candidate: a sequence of at most one candidate.
ImportCandidate(event) ==
  CASE event.kind \in MessageKinds ->
         LET text == event.body.text
         IN IF IsHarnessEnvelope(text) THEN <<>>
            ELSE IF event.kind = "assistant" /\ IsDocumentary(text)
                 THEN <<Item("tool", text, NoPart, FALSE)>>
                 ELSE <<Item(event.kind, text, NoPart, FALSE)>>
    [] event.kind = "compaction" ->
         <<Item("assistant", <<"source summary", event.body.text[2]>>, NoPart, TRUE)>>
    [] event.kind \in ToolKinds ->
         <<Item("tool",
                <<ToolLabel(event.kind), Detail(event)>>,
                NativeToolPart(event), FALSE)>>
    [] OTHER -> <<>>

Candidates(events) ==
  FlattenSeq([i \in DOMAIN events |-> ImportCandidate(events[i])])

-----------------------------------------------------------------------------
(* validate_native_tools: a run of calls stays native when the results right   *)
(* behind it answer each of them, whatever their order, and no id repeats.     *)

IsPart(item, part) == item.tool.part = part

\* The last call of the run that starts at i.
RunEnd(items, i) ==
  Max({j \in i..Len(items) : \A k \in i..j : IsPart(items[k], "call")})

RunStarts(items) ==
  {i \in DOMAIN items : IsPart(items[i], "call")
                        /\ (i = 1 \/ ~IsPart(items[i - 1], "call"))}

Answered(items, first, last, k) ==
  /\ IsPart(items[last + k], "result")
  /\ LET id == items[last + k].tool.id
     IN Cardinality({j \in first..last : items[j].tool.id = id})
          >= Cardinality({j \in 1..k : items[last + j].tool.id = id})

\* How many results behind the run answer one of its pending calls.
Answers(items, first, last) ==
  Max({k \in 0..(Len(items) - last) :
         \A j \in 1..k : /\ IsPart(items[last + j], "result")
                         /\ Answered(items, first, last, j)})

RunIsWhole(items, first, last) ==
  /\ Answers(items, first, last) = last - first + 1
  /\ \A j, k \in first..last : items[j].tool.id = items[k].tool.id => j = k

\* The positions of the group that starts at i, or none.
Group(items, i) ==
  CASE IsPart(items[i], "pair") -> {i}
    [] i \in RunStarts(items) /\ RunIsWhole(items, i, RunEnd(items, i)) ->
         i..(RunEnd(items, i) + Answers(items, i, RunEnd(items, i)))
    [] OTHER -> {}

\* historical_tool_name: the first agent's name stays in front across hops.
HistoricalName(source, name) ==
  IF name[1] = "hist" THEN name ELSE <<"hist", source, name[1]>>

\* normalize_tool_group, historical_call_id
NormalizedTool(tool, source, group) ==
  IF tool.part = "result"
  THEN [tool EXCEPT !.id = <<group, @>>]
  ELSE [tool EXCEPT !.id = <<group, @>>, !.name = HistoricalName(source, @)]

ValidateNativeTools(items, source) ==
  LET starts == {i \in DOMAIN items : Group(items, i) # {}}
      members == [i \in starts |-> Group(items, i)]
      owner(i) == {s \in starts : i \in members[s]}
  IN [i \in DOMAIN items |->
        IF owner(i) = {} THEN [items[i] EXCEPT !.tool = NoPart]
        ELSE [items[i] EXCEPT !.tool =
                NormalizedTool(@, source,
                  Cardinality({s \in starts : \A o \in owner(i) : s < o}))]]

-----------------------------------------------------------------------------
(* import_trajectory_with_limits: the newest compaction summary and the newest *)
(* items behind it that fit; a tool record past its own limit is skipped.      *)

ImportTrajectory(events, source, historyLimit, toolLimit) ==
  LET all == Candidates(events)
      summaries == {i \in DOMAIN all : all[i].summary}
      start == IF summaries = {} THEN 0 ELSE Max(summaries)
      anchored == start > 0 /\ TextLength(all[start].text) <= historyLimit
      budget == IF anchored THEN historyLimit - TextLength(all[start].text)
                ELSE historyLimit
      tail == (start + 1)..Len(all)
      tools == {i \in tail : all[i].kind = "tool"}
      skipped == {i \in tools : Cardinality({j \in tools : j > i}) >= toolLimit}
      cost == [i \in tail |-> MapThenSumSet(LAMBDA j : TextLength(all[j].text),
                                            {j \in tail \ skipped : j >= i})]
      recent == {i \in tail \ skipped : cost[i] <= budget}
      truncated == \/ ReportsOmission(events)
                   \/ start > 1
                   \/ start > 0 /\ ~anchored
                   \/ recent # tail
      room == budget - TextLength(OmissionNotice)
      kept == IF truncated THEN {i \in recent : cost[i] <= room} ELSE recent
      notice == IF truncated /\ room >= 0
                THEN <<Item("assistant", OmissionNotice, NoPart, FALSE)>> ELSE <<>>
      anchor == IF anchored THEN <<all[start]>> ELSE <<>>
  IN [items |-> ValidateNativeTools(notice \o anchor \o At(all, kept), source),
      truncated |-> truncated]

\* readback_trajectory: nothing is bounded, and a reported omission fails it.
Unbounded == 1000
ReadbackTrajectory(events, source) ==
  ImportTrajectory(events, source, Unbounded, Unbounded)

-----------------------------------------------------------------------------
(* native_trajectory_items, native_trajectory_signature                        *)

\* A mutant of ResultOf: results answer the calls in their order.
ResultByOrder(items, i) ==
  LET first == Max({s \in RunStarts(items) : s <= i})
  IN RunEnd(items, first) + (i - first + 1)

\* The result of the group that answers the call at i.
ResultOf(items, i) ==
  LET first == Max({s \in RunStarts(items) : s <= i})
      last == RunEnd(items, first)
  IN CHOOSE j \in (last + 1)..(last + Answers(items, first, last)) :
       items[j].tool.id = items[i].tool.id

NativeItem(items, i) ==
  LET tool == items[i].tool
  IN CASE tool.part = "pair" ->
            <<[type |-> "tool", id |-> tool.id, name |-> tool.name, value |-> tool.value,
               output |-> tool.output, error |-> tool.error]>>
       [] tool.part = "call" ->
            LET result == items[ResultOf(items, i)].tool
            IN <<[type |-> "tool", id |-> tool.id, name |-> tool.name,
                  value |-> tool.value, output |-> result.output,
                  error |-> result.error]>>
       [] tool.part = "result" -> <<>>
       [] tool.part = "none" ->
            <<[type |-> "message",
               role |-> IF items[i].kind = "user" THEN "user" ELSE "assistant",
               text |-> items[i].text]>>

\* A read-back and a writer of messages only see a tool record as its text.
HandoffMessages(items) ==
  [i \in DOMAIN items |->
     [role |-> IF items[i].kind = "user" THEN "user" ELSE "assistant",
      text |-> items[i].text]]

NativeItems(items) == FlattenSeq([i \in DOMAIN items |-> NativeItem(items, i)])

\* without_call_ids: a read-back regenerates the ids.
WithoutCallIds(native) ==
  [i \in DOMAIN native |->
     IF native[i].type = "tool" THEN [native[i] EXCEPT !.id = <<>>] ELSE native[i]]
================================================================================
