------------------------------- MODULE Histories -------------------------------
(* One conversation through the agents of OmniSession: an agent stores it in    *)
(* its own form, an adapter reads it as canonical events, import_trajectory     *)
(* projects them, a writer stores the projection for another agent, and the     *)
(* adapter of that agent reads it back to verify the writer.                    *)
EXTENDS CodexLog, FileLogs, DatabaseLogs, CursorLog, SessionTexts

CONSTANTS
  Agents,           \* the agents a conversation may start with
  Targets,          \* the agents it may be written for
  MaxEntries,       \* bound: entries of a conversation that starts with each agent
  LateAnswers,      \* agents whose open calls may be answered one entry past that bound
  MaxRewinds,       \* bound: how often the user goes back
  MaxHops,          \* bound: how often it is written for another agent
  PreviewRooms,     \* MAX_PREVIEW_TAIL_SIZE, PREVIEW_RECORDS, PREVIEW_EVENTS: records
                    \* [sample, tail, events, fills]; an oversized record fills a tail
  Limits            \* IMPORT_HISTORY_CHARACTER_LIMIT, IMPORT_TOOL_EVENT_LIMIT: pairs of
                    \* values [history, tools], for short and for long conversations

VARIABLES
  agent,        \* the agent that holds the conversation
  newer,        \* whether it stores the newer of its two forms
  log,          \* what its store holds
  thread,       \* what the user sees in it, kept beside the code
  rewinds,      \* how often the user went back
  stage,        \* how far the transfer is
  events,       \* the canonical events read last
  trajectory,   \* the projection to be written
  verified,     \* whether every read-back so far matched
  hops          \* how often it was written

vars == <<agent, newer, log, thread, rewinds, stage, events, trajectory, verified, hops>>

NoTrajectory == [items |-> <<>>, truncated |-> FALSE]

\* Agents with an older form beside the newer one: Codex writes messages twice,
\* OpenCode 2 changed its export, the Cursor CLI added prompts, Antigravity a log.
FormsOf(a) == IF a \in {"codex", "opencode", "cursor-cli", "antigravity"} THEN BOOLEAN ELSE {FALSE}

EmptyLog(a) == IF a = "cursor-cli" THEN NewChat ELSE <<>>

Init ==
  /\ agent \in Agents
  /\ newer \in FormsOf(agent)
  /\ log = EmptyLog(agent) /\ thread = <<>>
  /\ rewinds = 0
  /\ stage = "live"
  /\ events = <<>> /\ trajectory = NoTrajectory
  /\ verified = TRUE /\ hops = 0

-----------------------------------------------------------------------------
(* The agents (external).                                                     *)

\* The store after the agent wrote the entry e.
Appended(e) ==
  CASE agent = "codex"      -> log \o CodexAppends(newer, e)
    [] agent = "claude"     -> log \o ClaudeAppends(e)
    [] agent = "pi"         -> PiAppends(log, Len(log), PiRecord(e))
    [] agent = "opencode"   -> Append(log, OpenCodeAppends(newer, e))
    [] agent = "grok"       -> log \o GrokAppends(log, e)
    [] agent = "hermes"     -> Append(log, HermesAppends(e))
    [] agent = "cursor-cli" -> CursorAppends(newer, log, e)
    [] agent = "cursor-ide" -> Append(log, CursorIdeAppends(e))
    [] agent = "antigravity" -> Append(log, AntigravityAppends(newer, e))
    [] agent \in {"antigravity-desktop", "antigravity-ide"} ->
         Append(log, AntigravityAppends(FALSE, e))

\* Agents whose tools stay opaque to the adapter, and those that keep a call and
\* its result in one record.
HidesTools == \/ agent \in {"antigravity-desktop", "antigravity-ide"}
              \/ agent \in {"antigravity", "cursor-cli"} /\ ~newer
InPlace == agent \in {"opencode", "cursor-ide"}

Place(grown) == IF agent = "cursor-cli" THEN 0 ELSE Len(grown)
Entry(kind, body, at) == [kind |-> kind, body |-> body, at |-> at]

Live == stage = "live" /\ hops = 0 /\ Len(thread) < MaxEntries[agent]

Stored(grown, shown) ==
  /\ log' = grown
  /\ thread' = shown
  /\ UNCHANGED <<agent, newer, rewinds, stage, events, trajectory, verified, hops>>

Grow(kind, body) ==
  \E grown \in {Appended(Part(kind, body))} :
    LET shown == IF kind = "called" /\ HidesTools THEN "opaque" ELSE kind
    IN Stored(grown, Append(thread, Entry(shown, body, Place(grown))))

\* What is said: the second of two messages repeats the first, the third does not.
Words == [text |-> <<"said", Len(thread) \div 2>>]

Ask == /\ Live
       /\ Grow("user", Words)

Answer == /\ Live /\ thread # <<>>
          /\ Grow("assistant", Words)

CallTool == /\ Live /\ thread # <<>>
            /\ Grow("called", [id |-> <<Len(thread)>>, name |-> <<"shell">>,
                               value |-> <<"input", Len(thread)>>])

\* The calls the user sees without an answer.
OpenCalls ==
  {i \in DOMAIN thread :
     /\ thread[i].kind = "called"
     /\ ~\E j \in DOMAIN thread : /\ thread[j].kind \in {"completed", "failed", "command"}
                                  /\ thread[j].body.id = thread[i].body.id}

\* How an agent shows an answer: Antigravity logs a status, and what the Cursor
\* CLI keeps of a result does not say that the tool failed.
AnswerKinds ==
  CASE agent = "antigravity" -> {"command"}
    [] agent = "cursor-cli"  -> {"completed"}
    [] OTHER                 -> {"completed", "failed"}

Return ==
  /\ stage = "live" /\ hops = 0 /\ ~InPlace
  /\ Len(thread) < MaxEntries[agent] + (IF agent \in LateAnswers THEN 1 ELSE 0)
  /\ \E i \in OpenCalls, kind \in AnswerKinds :
       Grow(kind, [id |-> thread[i].body.id, output |-> <<"output", Len(thread)>>])

ReturnInPlace ==
  /\ stage = "live" /\ hops = 0 /\ InPlace
  /\ \E i \in OpenCalls, kind \in AnswerKinds :
       LET call == thread[i].body
           body == [id |-> call.id, name |-> call.name, value |-> call.value,
                    output |-> <<"output", Len(thread)>>]
       IN Stored(IF agent = "opencode"
                 THEN OpenCodeReturns(log, thread[i].at, body, kind = "failed")
                 ELSE CursorIdeReturns(log, thread[i].at, body.value, body.output,
                                       kind = "failed"),
                 [thread EXCEPT ![i] = Entry(kind, body, @.at)])

Has(kind) == \E i \in DOMAIN thread : thread[i].kind = kind

\* Bound: one entry at a time that is not a part of the conversation, or is too large.
Plain == ~Has("context") /\ ~Has("oversized")

\* What an agent stores that is not said in this conversation: context of the
\* harness, a subagent's record, a row or an update of another kind.
Inject ==
  /\ Live /\ thread # <<>> /\ Plain
  /\ agent \in {"codex", "claude", "opencode", "grok", "hermes"}
  /\ agent = "opencode" => Last(thread).kind = "user" /\ ~newer
  /\ LET grown == CASE agent = "codex" ->
                         log \o CodexMessage(newer, "user", <<"envelope", 0>>)
                    [] agent = "claude" -> log \o ClaudeSide(Said("assistant", <<"said", 0>>))
                    [] agent = "opencode" -> OpenCodeInjects(log)
                    [] agent = "grok" -> Append(log, [type |-> "mode"])
                    [] agent = "hermes" -> Append(log, HermesAppends(Part("context", <<>>)))
     IN Stored(grown, Append(thread, Entry("context", <<>>, Len(grown))))

\* An extension of Pi tells the model something that the user sees or does not.
Extend ==
  /\ Live /\ Len(thread) = MaxEntries[agent] - 1 /\ Plain /\ agent = "pi"
  /\ \E display \in BOOLEAN :
       LET grown == PiAppends(log, Len(log), [type |-> "custom_message", text |-> 0,
                                              display |-> display])
       IN Stored(grown, Append(thread,
            IF display THEN Entry("user", [text |-> <<"extension", 0>>], Len(grown))
            ELSE Entry("context", <<>>, Len(grown))))

\* A record past the size an adapter reads.
Oversize ==
  /\ Live /\ thread # <<>> /\ Plain
  /\ agent \notin {"opencode", "hermes", "cursor-cli"}
  /\ LET grown == CASE agent \in {"codex", "claude", "grok"} ->
                         Append(log, [type |-> "oversized"])
                    [] agent = "pi" ->
                         PiAppends(log, Len(log), [type |-> "oversized"])
                    [] agent = "cursor-ide" ->
                         Append(log, [Bubble("assistant", <<>>, <<>>) EXCEPT !.whole = FALSE])
                    [] OTHER -> Append(log, [kind |-> "oversized"])
     IN Stored(grown, Append(thread, Entry("oversized", <<>>, Len(grown))))

\* A compaction: Claude Code appends a summary, Pi shows it before what it keeps.
Summarize ==
  /\ Live /\ thread # <<>> /\ ~Has("compaction")
  /\ agent \in {"claude", "pi"}
  /\ LET summary == Part("compaction", [text |-> <<"said", 9>>])
     IN IF agent = "claude"
        THEN Grow(summary.kind, summary.body)
        ELSE \E k \in DOMAIN thread :
               LET grown == Append(log, PiEntry(log, Len(log),
                          [type |-> "compaction", summary |-> summary.body.text,
                           kept |-> thread[k].at]))
               IN Stored(grown, <<Entry(summary.kind, summary.body, Len(grown))>>
                                  \o SubSeq(thread, k, Len(thread)))

Turns == {i \in DOMAIN thread : thread[i].kind = "user"}

\* The user goes back before a prompt: Codex notes how many turns are gone, Hermes
\* makes their rows inactive, the Cursor CLI returns to the state of the turn.
RollBack ==
  /\ stage = "live" /\ hops = 0 /\ rewinds < MaxRewinds
  /\ agent \in {"codex", "hermes", "cursor-cli"}
  /\ \E cut \in Turns :
       /\ log' = CASE agent = "codex" ->
                        Append(log, [type |-> "thread_rolled_back",
                                     turns |-> Cardinality({i \in Turns : i >= cut})])
                   [] agent = "hermes" -> HermesRewinds(log, thread[cut].at)
                   [] agent = "cursor-cli" ->
                        CursorRewinds(log, Cardinality({i \in Turns : i <= cut}))
       /\ thread' = SubSeq(thread, 1, cut - 1)
  /\ rewinds' = rewinds + 1
  /\ UNCHANGED <<agent, newer, stage, events, trajectory, verified, hops>>

\* The user of Pi goes on from an earlier entry; the branch left behind stays, and a
\* summary of it, which may be empty, leads to the new one.
Branch ==
  /\ stage = "live" /\ hops = 0 /\ rewinds < MaxRewinds
  /\ agent = "pi" /\ ~Has("compaction") /\ ~Has("oversized")
  /\ \E k \in 1..(Len(thread) - 1), summary \in {<<>>, <<0>>} :
       LET noted == PiAppends(log, thread[k].at,
                              [type |-> "branch_summary", summary |-> summary])
           grown == PiAppends(noted, Len(noted), UserMessage(Words.text))
       IN /\ log' = grown
          /\ thread' = SubSeq(thread, 1, k)
                         \o [i \in DOMAIN summary |->
                              Entry("assistant", [text |-> <<"branch", summary[i]>>],
                                    Len(noted))]
                         \o <<Entry("user", Words, Len(grown))>>
  /\ rewinds' = rewinds + 1
  /\ UNCHANGED <<agent, newer, stage, events, trajectory, verified, hops>>

-----------------------------------------------------------------------------
(* OmniSession.                                                               *)

\* read_session of the adapter of the agent; only a broken tree of Pi cannot be read.
Reading ==
  CASE agent = "codex"      -> CodexRead(log)
    [] agent = "claude"     -> ClaudeRead(log)
    [] agent = "pi"         -> PiRead(log).b
    [] agent = "opencode"   -> OpenCodeRead(log)
    [] agent = "grok"       -> GrokRead(log)
    [] agent = "hermes"     -> HermesRead(log)
    [] agent = "cursor-cli" -> CursorRead(log)
    [] agent = "cursor-ide" -> CursorIdeRead(log)
    [] agent = "antigravity" -> IF newer THEN TranscriptRead(log) ELSE StepsRead(log)
    [] agent = "antigravity-desktop" -> StepsRead(log)
    [] agent = "antigravity-ide" -> UnverifiedRead(log)

Readable == [read |-> agent = "pi" => PiRead(log).read, events |-> Reading.events]

\* preview_session: only what it takes to show both ends; the other adapters, and the
\* one of databases of Antigravity, read it all.
Previews == \/ agent \in {"codex", "claude", "pi", "grok", "hermes", "antigravity-ide"}
            \/ agent = "antigravity" /\ newer

Preview(room) ==
  CASE agent = "codex"  -> CodexPreview(log, room)
    [] agent = "claude" -> ClaudePreview(log, room)
    [] agent = "pi"     -> PiPreview(log, room)
    [] agent = "grok"   -> GrokPreview(log, room)
    [] agent = "hermes" -> HermesPreview(log, room)
    [] agent = "antigravity" -> TranscriptPreview(log, room)
    [] agent = "antigravity-ide" -> UnverifiedPreview(log, room)

\* import_snapshot of transfer.rs: the source is read as it is now.
Read ==
  /\ stage = "live" /\ thread # <<>>
  /\ \E got \in {Readable} :
       /\ events' = got.events
       /\ stage' = IF got.read THEN "read" ELSE "unreadable"
  /\ UNCHANGED <<agent, newer, log, thread, rewinds, trajectory, verified, hops>>

\* import_trajectory, the first step of every writer's build
Project ==
  /\ stage = "read"
  /\ \E limit \in Limits :
       trajectory' = ImportTrajectory(events, agent, limit.history, limit.tools)
  /\ stage' = "projected"
  /\ events' = <<>> /\ log' = <<>>
  /\ UNCHANGED <<agent, newer, thread, rewinds, verified, hops>>

\* What the writers of the agents make of the items.
Written(a, form, items) ==
  LET native == NativeItems(items)
      said == HandoffMessages(items)
  IN CASE a = "codex"       -> CodexImports(form, CodexExpected(items))
       [] a = "claude"      -> ClaudeRecords(native)
       [] a = "pi"          -> PiRecords(native)
       [] a = "opencode"    -> OpenCodeImports(form, native)
       [] a = "grok"        -> GrokUpdates(native)
       [] a = "hermes"      -> HermesRows(RepresentableItems(native))
       [] a = "cursor-cli"  -> CursorGraph(said)
       [] a = "cursor-ide"  -> CursorIdeMaterial(said)
       [] a = "antigravity" -> AntigravitySteps(said)

WritesMessages(a) == a \in {"codex", "cursor-cli", "cursor-ide", "antigravity"}

\* inspect_import_stats: the tools that stay calls, and the records there are of any.
ImportStats(a) ==
  [truncated |-> trajectory.truncated,
   tools |-> Len(SelectSeq(trajectory.items, LAMBDA item : item.kind = "tool")),
   pairs |-> IF WritesMessages(a) THEN 0
             ELSE Len(SelectSeq(NativeItems(trajectory.items), LAMBDA n : n.type = "tool"))]

\* inspect_report: what `omni inspect` and a dry run promise of the transfer to a.
InspectReport(a) ==
  LET stats == ImportStats(a)
  IN [mode |-> IF a = agent THEN "native_resume"
               ELSE IF trajectory.items = <<>> THEN "semantic_handoff"
               ELSE IF a = "opencode" THEN "official_import" ELSE "native_materialization",
      conversation |-> IF stats.truncated THEN "summarized" ELSE "preserved",
      pairs |-> stats.pairs, tools |-> stats.tools]

\* What the user of the target should see.
ThreadOf(a, items) ==
  LET said == HandoffMessages(items)
      native == NativeItems(items)
      tool(item) ==
        IF a = "hermes" /\ item.error
        THEN <<"completed", <<"Tool failed", item.output[2]>>>>
        ELSE <<IF item.error THEN "failed" ELSE "completed", item.output>>
      shown(item) ==
        IF item.type = "message" THEN <<Entry(item.role, [text |-> item.text], 0)>>
        ELSE LET result == Entry(tool(item)[1],
                                 [id |-> item.id, name |-> item.name, value |-> item.value,
                                  output |-> tool(item)[2]], 0)
             IN IF a = "opencode" THEN <<result>>
                ELSE <<Entry("called", result.body, 0), result>>
  IN IF WritesMessages(a)
     THEN [i \in DOMAIN said |-> Entry(said[i].role, [text |-> said[i].text], 0)]
     ELSE FlattenSeq([i \in DOMAIN native |-> shown(native[i])])

Write ==
  /\ stage = "projected" /\ trajectory.items # <<>> /\ hops < MaxHops
  /\ \E a \in Targets :
       /\ agent' = a
       /\ newer' \in (IF a \in {"codex", "opencode"} THEN BOOLEAN ELSE {a = "cursor-cli"})
       /\ log' = Written(a, newer', trajectory.items)
       /\ thread' = ThreadOf(a, trajectory.items)
  /\ stage' = "written"
  /\ UNCHANGED <<rewinds, events, trajectory, verified, hops>>

Signature(items) == WithoutCallIds(NativeItems(items))

\* What the read-back of a writer of native tools must find.
ExpectedItems(a, items) ==
  IF a = "hermes" THEN WithoutCallIds(RepresentableItems(NativeItems(items)))
  ELSE Signature(items)

\* readback_matches or readback_report of the writer
ReadsBack(found, items) ==
  IF agent = "codex" THEN CodexReadsBack(found, CodexExpected(items))
  ELSE \E back \in {ReadbackTrajectory(found, agent)} :
         IF WritesMessages(agent) THEN MessagesReadBack(back, HandoffMessages(items))
         ELSE ~back.truncated /\ Signature(back.items) = ExpectedItems(agent, items)

Verify ==
  /\ stage = "written"
  /\ \E got \in {Readable} :
       verified' = (got.read /\ ReadsBack(got.events, trajectory.items))
  /\ stage' = "live" /\ hops' = hops + 1
  /\ trajectory' = NoTrajectory
  /\ UNCHANGED <<agent, newer, log, thread, rewinds, events>>

Next == \/ Ask \/ Answer \/ CallTool \/ Return \/ ReturnInPlace \/ Inject \/ Extend \/ Oversize
        \/ Summarize \/ RollBack \/ Branch
        \/ Read \/ Project \/ Write \/ Verify

Spec == Init /\ [][Next]_vars

-----------------------------------------------------------------------------
Face(e) == <<e.kind, Detail(e)>>
IsShown(e) == /\ e.kind \in MessageKinds \cup ToolKinds \cup {"compaction"}
              /\ e.kind \in MessageKinds => ~IsHarnessEnvelope(e.body.text)
Faces(s) == LET shown == SelectSeq(s, IsShown) IN [i \in DOMAIN shown |-> Face(shown[i])]

Missing(kinds) == Cardinality({i \in DOMAIN thread : thread[i].kind \in kinds})

\* The records too large to read: Codex counts those of rolled back turns too.
Oversized ==
  IF agent = "codex" THEN Len(SelectSeq(log, LAMBDA r : r.type = "oversized"))
  ELSE Missing({"oversized"})

\* Cursor's opaque steps and missing bubbles leave a marker that counts nothing.
TellsOmissions == agent \notin {"cursor-cli", "cursor-ide"}

\* Whether f shows the entry g; the chunks of a message that were read show it in part.
Shows(f, g) == \/ f = g
               \/ f[1] = g[1] /\ f[2] = <<"torn", 0>>

\* Whether the faces of a preview show entries of the thread, in their order.
Within(shown, whole) ==
  FoldLeft(LAMBDA from, f :
             LET next == {i \in DOMAIN whole : i > from /\ Shows(f, whole[i])}
             IN IF next = {} THEN Len(whole) + 1 ELSE Min(next),
           0, shown) <= Len(whole)

\* A record of Pi that fills the whole tail hides where the conversation is: the preview
\* takes the last entry of the head for its end, which may have been left since.
HidesLeaf(room) == agent = "pi" /\ room.fills /\ Len(log) \in TooLarge(log)

\* A preview shows nothing but what the user sees, in order, and the entry written last.
PreviewShowsThread(T) ==
  \A room \in PreviewRooms : \E P \in {Faces(Preview(room).events)} :
    /\ Within(P, T) \/ HidesLeaf(room)
    /\ Last(thread).at = Len(log) /\ IsShown(Last(thread)) =>
         P # <<>> /\ Shows(Last(P), Last(T))

\* What an adapter reads is the conversation the user sees: no message of a turn
\* that was rolled back or of a branch left behind, none twice, none missing; only
\* the oldest tool records of Codex may be missing, and the notices count exactly
\* what is.  What an adapter previews is a part of it that ends where it ends.
ReadShowsThread ==
  stage = "read" =>
    \E T \in {Faces(thread)}, E \in {Faces(events)} :
      LET tools == {i \in DOMAIN T : T[i][1] \in ToolKinds}
          spare == Len(T) - Len(E)
          oldest == {i \in tools : Cardinality({j \in tools : j <= i}) <= spare}
      IN /\ Previews => PreviewShowsThread(T)
         /\ E = At(T, DOMAIN T \ oldest)
         /\ agent # "codex" => spare = 0
         /\ TellsOmissions => Omitted(events) = spare + Oversized + Missing({"opaque"})

\* A tool a writer stores natively was called and answered in the conversation,
\* with that input, that output and that outcome.
ToolsAnswerTheirCalls ==
  stage = "projected" =>
    \E native \in {NativeItems(trajectory.items)} :
      \A i \in DOMAIN native :
        native[i].type = "tool" =>
          \E c, r \in ToolPositions(thread) :
            /\ \/ c < r /\ thread[c].kind = "called"
               \/ c = r /\ IsPair(thread[r].body)
            /\ thread[r].kind = (IF native[i].error THEN "failed" ELSE "completed")
            /\ thread[c].body.id = thread[r].body.id
            /\ thread[c].body.value = native[i].value
            /\ thread[r].body.output = native[i].output

ShownText(face) ==
  CASE face[1] \in MessageKinds -> face[2]
    [] face[1] = "compaction"   -> <<"source summary", face[2][2]>>
    [] face[1] \in ToolKinds    -> <<ToolLabel(face[1]), face[2]>>

\* Something of the conversation cannot be read, and the adapter knows.
HasGap == TellsOmissions /\ Missing({"oversized", "opaque"}) > 0

Told(s) == SelectSeq(s, LAMBDA text : text # OmissionNotice)

\* Written for another agent: the newest part, all of it unless it says it is truncated;
\* and what was promised before is what the target's user is going to see.
TransferIsHonest ==
  stage = "projected" =>
    \E F \in {Faces(thread)} :
      LET texts == Told([i \in DOMAIN F |-> ShownText(F[i])])
          kept == Told([i \in DOMAIN trajectory.items |-> trajectory.items[i].text])
          said(s) == SelectSeq(s, LAMBDA text : text[1] = "said")
      IN /\ ~trajectory.truncated => kept = texts
         /\ IsSuffix(said(kept), said(texts))
         /\ HasGap => trajectory.truncated
         /\ \A a \in Targets : \E report \in {InspectReport(a)}, seen \in {ThreadOf(a, trajectory.items)} :
              report.mode \in {"official_import", "native_materialization"} =>
                /\ report.conversation = "preserved" => kept = texts
                /\ report.pairs <= report.tools
                /\ report.pairs = Len(SelectSeq(seen, LAMBDA e : e.kind \in {"completed", "failed"}))

\* Indexed for search: bounded, both ends of what is said are there, and without a cut
\* every byte.  The order is that of the session but for one byte: a character that does
\* not fit into the head any more goes to the tail, what follows it may fill the head.
SearchTextIsHonest ==
  \E F \in {SelectSeq(Faces(thread), LAMBDA f : f[1] # "compaction")},
     document \in {SearchDocument(events)} :
    LET places == SelectSeq([i \in DOMAIN document.bytes |-> document.bytes[i].at],
                            LAMBDA at : at > 0)
        size == MapThenSumSet(LAMBDA i : Len(Separator(i)) + IF F[i][1] \in ToolKinds
                                           THEN 5 ELSE 2, DOMAIN F)
    IN /\ Len(document.bytes) <= 2 * DocumentEdge
       /\ IsInjective(places)
       /\ \E i \in 0..Len(places) :
            LET others == At(places, DOMAIN places \ {i})
            IN \A j \in 2..Len(others) : others[j - 1] < others[j]
       /\ ~document.truncated => Len(places) = size
       /\ document.complete /\ F # <<>> => Head(places) = 11 /\ Last(places) \div 10 = Len(F)
       /\ HasGap => ~document.complete

\* Handed off or previewed: the newest that is said and has come of tools, and the
\* prompt that is the objective, as the user sees them.
HandoffIsCurrent ==
  \E F \in {Faces(thread)}, plan \in {SemanticHandoff(events)},
     preview \in {SessionPreview(events)} :
    LET said == SelectSeq(F, LAMBDA f : f[1] \in MessageKinds)
        asked == SelectSeq(said, LAMBDA f : f[1] = "user")
        came == SelectSeq(F, LAMBDA f : f[1] \in ToolKinds \ {"called"})
        faces(messages) == [i \in DOMAIN messages |-> <<messages[i].role, messages[i].text>>]
    IN /\ faces(plan.recent) = Newest(said, RecentMessages)
       /\ faces(plan.objective) = Newest(asked, 1)
       /\ IsSuffix(plan.outcomes, came)
       /\ agent # "codex" => Len(plan.outcomes) = Min({RecentOutcomes, Len(came)})
       /\ preview.messages = Len(said) /\ faces(preview.latest) = Newest(said, 1)
       /\ said # <<>> => faces(preview.first) = <<said[1]>>
       /\ HandoffReport(agent, events).conversation = "unsupported" => said = <<>>

\* Exported as Markdown: the newest messages and the oldest tool records; each part is
\* all of it unless it says that it is truncated.  In the clipboard: within its room, the
\* last message always, and every message whole unless it says that it is truncated.
ExportIsHonest ==
  \E F \in {Faces(thread)} : \A limit \in Limits :
    \E export \in {MarkdownExport(events, limit.history)} :
      LET shown(kinds) == SelectSeq(F, LAMBDA f : f[1] \in kinds)
          texts(faces) == [i \in DOMAIN faces |-> ShownText(faces[i])]
          spoken == texts(shown(MessageKinds \cup {"compaction"}))
          records == texts(shown(ToolKinds))
          conversation == export.conversation
          activity == export.activity
          exported == [i \in DOMAIN conversation.messages |-> conversation.messages[i].text]
      IN /\ ~conversation.truncated => exported = spoken
         /\ IsSuffix(SelectSeq(exported, LAMBDA text : text[1] = "said"),
                     SelectSeq(spoken, LAMBDA text : text[1] = "said"))
         /\ ~activity.truncated => activity.records = records
         /\ Len(activity.records) <= ExportTools
         /\ HasGap => conversation.truncated /\ activity.truncated
         /\ \A room \in CompactRooms : \E compact \in {CompactHandoff(conversation, room)} :
              /\ MapThenSumSet(LAMBDA i : compact.sizes[i], DOMAIN compact.sizes) <= room
              /\ Newest(compact.messages, 1) = Newest(conversation.messages, 1)
              /\ ~compact.truncated =>
                   /\ [i \in DOMAIN compact.messages |-> compact.messages[i].text] = spoken
                   /\ compact.sizes = [i \in DOMAIN compact.messages |->
                                         MessageSize(compact.messages[i])]

\* Whatever OmniSession makes of a session, for another agent, for a search, for a new
\* session or for a file, shows what the user sees, and says so when it leaves out a part.
NothingLostSilently ==
  /\ TransferIsHonest
  /\ stage = "read" => SearchTextIsHonest /\ HandoffIsCurrent /\ ExportIsHonest

\* Every read-back finds what its writer wrote: a transfer never fails for the
\* shape of the history.
ReadBackVerifies == verified
================================================================================
