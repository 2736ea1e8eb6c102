---------------------------- MODULE CanonicalEvents ----------------------------
(* Canonical events of one session: what every adapter makes of its provider's  *)
(* records with the EventBuilder of omnis-adapters/src/support.rs.  An event is *)
(* [sequence, kind, body]; the body of a message is [text], of a call           *)
(* [id, name, value], of a result [id, output], of a call stored with its       *)
(* result [id, name, value, output], of a provider notice [omitted, unverified].*)
(* A text, an input or an output is a pair <<what it is, which one>>; times and *)
(* paths are left out.                                                          *)
EXTENDS Integers, SequencesExt, FiniteSetsExt

MessageKinds == {"user", "assistant"}
ToolKinds == {"called", "completed", "failed", "command"}

\* EventBuilder::new: nothing is read yet.
NewBuilder == [next |-> 0, events |-> <<>>]

\* EventBuilder::push: sequences are never given out twice.
Push(b, kind, body) ==
  [next |-> b.next + 1,
   events |-> Append(b.events, [sequence |-> b.next, kind |-> kind, body |-> body])]

\* EventBuilder::truncate_from: a rolled back turn leaves with its events.
TruncateFrom(b, checkpoint) ==
  [b EXCEPT !.events = SelectSeq(@, LAMBDA e : e.sequence < checkpoint)]

\* The elements of s at the positions in kept, in order.
At(s, kept) ==
  FlattenSeq([i \in DOMAIN s |-> IF i \in kept THEN <<s[i]>> ELSE <<>>])

\* The last count elements of s.
Newest(s, count) == SubSeq(s, Max({1, Len(s) - count + 1}), Len(s))

ToolPositions(events) == {i \in DOMAIN events : events[i].kind \in ToolKinds}

\* The tool events older than the newest `limit` of them.
SpareTools(events, limit) ==
  {i \in ToolPositions(events) :
     Cardinality({j \in ToolPositions(events) : j >= i}) > limit}

\* EventBuilder::retain_latest_tool_events; its result is the size of SpareTools.
RetainLatestToolEvents(b, limit) ==
  [b EXCEPT !.events = At(@, DOMAIN @ \ SpareTools(@, limit))]

\* The notices that records or events are missing (push_oversized_record_notice
\* and the limit notices of the adapters); none is written for zero.
Notice(b, omitted) ==
  IF omitted = 0 THEN b
  ELSE Push(b, "provider", [omitted |-> omitted, unverified |-> FALSE])

NoOmission == [omitted |-> 0, unverified |-> FALSE]

\* Metadata events carry no text: model, usage, unsupported records.
Metadata(b) == Push(b, "provider", NoOmission)

\* What the notices among the events say is missing.
Omitted(events) ==
  FoldLeft(LAMBDA n, e : IF e.kind = "provider" THEN n + e.body.omitted ELSE n,
           0, events)

\* reports_omitted_events of omnis-core/src/lib.rs
ReportsOmission(events) ==
  \/ Omitted(events) > 0
  \/ \E i \in DOMAIN events : events[i].kind = "provider" /\ events[i].body.unverified

Part(kind, body) == [kind |-> kind, body |-> body]
Said(kind, text) == [kind |-> kind, body |-> [text |-> text]]

\* EventBuilder::retain_preview_events: both ends stay, and a notice of the rest.
RetainPreviewEvents(b, limit) ==
  LET n == Len(b.events)
  IN IF n <= limit THEN b
     ELSE Notice([b EXCEPT !.events = At(@, 1..(limit \div 2)
                                            \cup (n - limit + limit \div 2 + 1)..n)],
                 n - limit)

\* read_json_lines_with_end: the first lines, those too large among them.
PreviewHead(n, room) == 1..Min({n, room.sample})

\* json_lines_tail_with_offsets: the newest records of the last part of the file,
\* which a record that is larger still fills alone.
PreviewTail(n, large, room) ==
  LET start == Max({0, n - room.tail} \cup (IF room.fills THEN large ELSE {}))
      read == ((start + 1)..n) \ large
  IN {i \in read : Cardinality({j \in read : j >= i}) <= room.sample}

\* json_lines_preview: both ends of a file that is larger than a preview reads.  The
\* records at the positions in large are skipped.
JsonLinesPreview(records, large, room) ==
  LET n == Len(records)
      whole == n <= room.tail /\ (room.fills => large = {})
  IN At(records, IF whole THEN (1..n) \ large
                 ELSE (PreviewHead(n, room) \ large) \cup PreviewTail(n, large, room))

\* The positions of the records that are too large to read.
LargeRecords(records) ==
  {i \in DOMAIN records : "type" \in DOMAIN records[i] /\ records[i].type = "oversized"}

\* Pushes the entries of a record one after another.
PushAll(b, entries) ==
  FoldLeft(LAMBDA c, e : Push(c, e.kind, e.body), b, entries)
================================================================================
