------------------------------- MODULE CursorLog -------------------------------
(* Chats of the Cursor CLI and conversations of the Cursor IDE: how             *)
(* omnis-adapters/src/cursor.rs reads them and what cursor_import.rs and        *)
(* cursor_ide_import.rs write.  A chat is its root state [prompts, turns]; a    *)
(* blob is addressed by its content, so a reference is the content itself.  A   *)
(* conversation is the sequence of bubbles its headers name.                    *)
EXTENDS Trajectory

Prompt(role, parts) == [role |-> role, parts |-> parts]
NewChat == [prompts |-> <<Prompt("system", <<>>)>>, turns |-> <<>>]

\* cursor_structural_events: tool steps are opaque.
StructuralEvents(turns) ==
  FlattenSeq([i \in DOMAIN turns |->
    <<Said("user", turns[i].user)>>
      \o [j \in DOMAIN turns[i].steps |->
            LET step == turns[i].steps[j]
            IN IF step.kind = "assistant" THEN step ELSE Part("provider", NoOmission)]])

\* cursor_prompt_events: a result never says that it failed.
PromptEvents(prompts) ==
  FlattenSeq([i \in DOMAIN prompts |->
    IF prompts[i].role = "system" THEN <<Part("provider", NoOmission)>> ELSE prompts[i].parts])

\* cursor_events: the prompts when they hold the conversation, else the turns.
CursorEvents(chat) ==
  LET prompts == PromptEvents(chat.prompts)
      turns == StructuralEvents(chat.turns)
      IsVisible(e) == e.kind # "provider"
  IN IF \E i \in DOMAIN prompts : IsVisible(prompts[i])
     THEN prompts \o SelectSeq(turns, LAMBDA e : ~IsVisible(e))
     ELSE turns

CursorRead(chat) == PushAll(NewBuilder, CursorEvents(chat))

-----------------------------------------------------------------------------
(* What the Cursor CLI appends (external): older chats hold turns only.       *)

WithStep(turns, step) == [turns EXCEPT ![Len(turns)].steps = Append(@, step)]

CursorAppends(prompted, chat, e) ==
  [prompts |-> IF ~prompted THEN chat.prompts
               ELSE Append(chat.prompts,
                      Prompt(CASE e.kind \in MessageKinds -> e.kind
                               [] e.kind = "called" -> "assistant"
                               [] e.kind = "completed" -> "tool", <<e>>)),
   turns |-> CASE e.kind = "user" ->
                    Append(chat.turns, [user |-> e.body.text, steps |-> <<>>,
                                        prompts |-> Len(chat.prompts)])
               [] e.kind \in {"assistant", "called"} -> WithStep(chat.turns, e)
               [] e.kind = "completed" -> chat.turns]

\* The chat goes back to the state its turn was anchored to.
CursorRewinds(chat, turn) ==
  [prompts |-> SubSeq(chat.prompts, 1, chat.turns[turn].prompts),
   turns |-> SubSeq(chat.turns, 1, turn - 1)]

\* A mutant of StoredMessages: a history may begin with an answer.
StoredAsIs(expected) == expected

\* stored_messages: turns start with a prompt, so an answer gets a boundary first.
StoredMessages(expected) ==
  IF expected # <<>> /\ expected[1].role # "user"
  THEN <<[role |-> "user", text |-> <<"boundary", 0>>]>> \o expected ELSE expected

\* group_turns, build_graph: an answer belongs to the turn before it, if any.
WithMessage(chat, message) ==
  IF message.role = "assistant" /\ chat.turns = <<>> THEN chat
  ELSE CursorAppends(TRUE, chat, Said(message.role, message.text))

CursorGraph(expected) == FoldLeft(WithMessage, NewChat, StoredMessages(expected))

\* readback_matches of the writers that store messages only
MessagesReadBack(trajectory, expected) ==
  ~trajectory.truncated /\ HandoffMessages(trajectory.items) = expected

-----------------------------------------------------------------------------
(* The IDE.  A bubble is [kind, texts, tool, whole]; one that is missing or     *)
(* too large leaves a marker that counts for nothing (unsupported_cursor_ide_   *)
(* event); a tool is [value, output, status].                                   *)

Bubble(kind, texts, tool) == [kind |-> kind, texts |-> texts, tool |-> tool, whole |-> TRUE]

IdeTool(tool) ==
  CASE tool.status = "error"   -> Part("failed", tool.body)
    [] tool.status = "done"    -> Part("completed", tool.body)
    [] tool.status = "running" -> Part("called", tool.body)

\* push_cursor_ide_bubble
BubbleEvents(bubble) ==
  [i \in DOMAIN bubble.texts |-> Said(bubble.kind, bubble.texts[i])]
    \o [i \in DOMAIN bubble.tool |-> IdeTool(bubble.tool[i])]

\* cursor_ide_events, cursor_ide_bubble_bytes
CursorIdeRead(bubbles) ==
  FoldLeft(LAMBDA b, bubble : IF bubble.whole THEN PushAll(b, BubbleEvents(bubble))
                              ELSE Metadata(b),
           Metadata(Metadata(NewBuilder)), bubbles)

\* What the IDE appends or changes (external).
CursorIdeAppends(e) ==
  CASE e.kind \in MessageKinds -> Bubble(e.kind, <<e.body.text>>, <<>>)
    [] e.kind = "called" ->
         Bubble("assistant", <<>>, <<[body |-> [value |-> e.body.value], status |-> "running"]>>)

CursorIdeReturns(bubbles, i, value, output, error) ==
  [bubbles EXCEPT ![i].tool =
     <<[body |-> [value |-> value, output |-> output],
        status |-> IF error THEN "error" ELSE "done"]>>]

\* cursor_ide_material, cursor_bubble
CursorIdeMaterial(expected) ==
  LET stored == StoredMessages(expected)
  IN [i \in DOMAIN stored |-> Bubble(stored[i].role, <<stored[i].text>>, <<>>)]
================================================================================
