---------------------------- MODULE CommandStores ----------------------------
(* The stores omni leaves to the provider's own program: Codex's app-server         *)
(* (codex_import.rs) and Grok's ACP agent (grok_import.rs), which are asked one     *)
(* request after the other over a pipe, and the programs that OpenCode (transfer.rs)*)
(* and Hermes (hermes_import.rs) run once per command.  The program works at its    *)
(* own pace: an answer may be late, and may never come.                             *)
EXTENDS StoreState

VARIABLE
  helper  \* the program: whether it runs, what it is asked and what it has said

Commanded == {"codex", "grok", "opencode", "hermes"}

\* Not started, or shut down (10 seconds to end by itself) and killed when dropped.
Nobody == [up |-> FALSE, asked |-> <<>>, said |-> <<>>]

Asked(state, id, what) ==
  [state EXCEPT !.asked = Append(state.asked, [id |-> id, what |-> what])]

\* GrokServer::start and initialize (AppServer's are the same).
Initialized == [Nobody EXCEPT !.up = TRUE]

\* AppServer::start, or a program that is run for this one command, with its first request.
Started(id, what) == Asked(Initialized, id, what)

\* It does what it was asked for, or not, and says so, or that it failed.
Serve ==
  /\ helper.up /\ helper.asked # <<>>
  /\ \E request \in {Head(helper.asked)}, says \in {"done", "refused"} \cup Contents :
       /\ helper' = [helper EXCEPT !.asked = Tail(helper.asked),
                       !.said = Append(helper.said, [id |-> request.id, to |-> request.what,
                                                     says |-> says])]
       /\ \/ /\ request.what = "import" /\ disk["thread"] = "none"
             /\ says \in {"done", "refused"} /\ Put("thread", "made")
          \/ /\ request.what = "delete" /\ disk["thread"] # "none"
             /\ says \in {"done", "refused"} /\ Put("thread", "none")
          \/ request.what = "read" /\ says = disk["thread"] /\ UNCHANGED disk
          \/ says = "refused" /\ UNCHANGED disk
  /\ UNCHANGED <<around, aside, pc, locals, outcome>>

Exit ==
  /\ helper.up /\ helper' = [helper EXCEPT !.up = FALSE, !.asked = <<>>]
  /\ UNCHANGED <<around, store, pc, locals, outcome>>

-----------------------------------------------------------------------------
(* What omni hears *)

\* request: messages with another id are passed over.
Replies(id) ==
  {i \in DOMAIN helper.said :
     helper.said[i].id = id /\ \A j \in 1..(i - 1) : helper.said[j].id # id}

Reply(id) == CHOOSE i \in Replies(id) : TRUE

Hears(id, good) == \E i \in Replies(id) : helper.said[i].says \in good

Passed(id) ==
  [helper EXCEPT !.said = SubSeq(helper.said, Reply(id) + 1, Len(helper.said))]

\* Without an answer in time (20 seconds and more) omni goes on, whatever comes later.
Gone == helper' = Nobody

Begun(first) ==
  \/ Step("import", first) /\ helper' = Started(1, "import")
  \/ End("import", "failed") /\ Gone

TakeBack(here) == Goto(here, "undo") /\ AimAt("failed") /\ Gone

\* materialize_*_import: the adapter reads back what the program says it has stored.
ReadBackTarget ==
  \/ disk["thread"] = "made" /\ End("read_back", "imported") /\ Gone
  \/ TakeBack("read_back")

\* The deletion a rollback waits for, in a program of its own.
Deleted ==
  \/ Hears(1, {"done"}) /\ End("deleting", locals.goal) /\ Gone
  \/ EndBadly("deleting") /\ Gone

-----------------------------------------------------------------------------
(* Codex and Grok: a server that is asked several things *)

\* The number of the request that deletes what the same server could not verify.
DeletionId == [codex |-> 2, grok |-> 5]

\* Codex: the response and the notification that the import is complete.  An error
\* before the verification is returned as it is, and the server is killed.
Imported ==
  \/ /\ Hears(1, {"done"}) /\ Step("import_sent", "reading")
     /\ helper' = Asked(Passed(1), 2, "read")
  \/ kind = "codex" /\ End("import_sent", "unanswered") /\ Gone
  \/ kind = "grok" /\ Step("import_sent", "looking") /\ helper' = Started(2, "read")

\* stored_import_matches, after an import Grok did not confirm.
Looked ==
  \/ Hears(2, {"made"}) /\ TakeBack("looking")
  \/ End("looking", "unanswered") /\ Gone

\* verify_visible_turns, verify_import; what it does not find as generated is deleted.
Verified ==
  \/ Hears(2, {"made"}) /\ Step("reading", "shutdown") /\ helper' = Passed(2)
  \/ /\ Goto("reading", "taking_back") /\ AimAt("failed")
     /\ \/ Hears(2, {"refused"} \cup (Contents \ {"made"}))
           /\ helper' = Asked(Passed(2), DeletionId[kind], "delete")
        \/ helper' = Asked(helper, DeletionId[kind], "delete")

TakenBack ==
  \/ \E id \in {DeletionId[kind]} :
       /\ Hears(id, {"done"} \cup IF kind = "codex" THEN Contents ELSE {})
       /\ pc = "taking_back" /\ pc' = "idle" /\ outcome' = "failed" /\ Gone
       /\ locals' = [locals EXCEPT !.found = helper.said[Reply(id)].to]
       /\ UNCHANGED around
  \/ EndBadly("taking_back") /\ Gone

ShutDown ==
  \/ Step("shutdown", "read_back") /\ Gone
  \/ TakeBack("shutdown")

\* Codex deletes the thread, Grok only the session it finds as generated.
ServerUndo ==
  \/ kind = "codex" /\ Step("undo", "deleting") /\ helper' = Started(1, "delete")
  \/ kind = "grok" /\ Step("undo", "comparing") /\ helper' = Started(2, "read")
  \/ EndBadly("undo") /\ Gone

Compared ==
  \/ /\ Hears(2, {"made"}) /\ Step("comparing", "deleting")
     /\ helper' = Asked(Passed(2), 1, "delete")
  \/ EndBadly("comparing") /\ Gone

ServerStep ==
  /\ kind \in {"codex", "grok"}
  /\ \/ Begun("import_sent") \/ Imported \/ Looked \/ Verified \/ TakenBack \/ ShutDown
     \/ ReadBackTarget \/ ServerUndo \/ Compared \/ Deleted
  /\ UNCHANGED store

-----------------------------------------------------------------------------
(* OpenCode and Hermes: a program that is run once *)

\* run_provider_import: 30 seconds; then an error that takes nothing back.
HermesImported ==
  \/ Hears(1, {"done"}) /\ Step("import_sent", "finish") /\ Gone
  \/ End("import_sent", "unanswered") /\ Gone

\* finish_provider_import, with its own verification.
HermesFinish ==
  \/ disk["thread"] = "made" /\ Step("finish", "read_back") /\ Gone
  \/ TakeBack("finish")

\* rollback: only the session as generated, compared and then deleted.
HermesUndo ==
  \/ disk["thread"] = "made" /\ Step("undo", "deleting") /\ helper' = Started(1, "delete")
  \/ EndBadly("undo") /\ Gone

HermesDeleted ==
  \/ disk["thread"] = "none" /\ Deleted
  \/ disk["thread"] # "none" /\ EndBadly("deleting") /\ Gone

HermesStep ==
  /\ kind = "hermes"
  /\ \/ Begun("import_sent") \/ HermesImported \/ HermesFinish \/ ReadBackTarget
     \/ HermesUndo \/ HermesDeleted
  /\ UNCHANGED store

\* materialize_opencode_import: a failed import may have created nothing.
OpenCodeImported ==
  \/ Hears(1, {"done"}) /\ Step("import_sent", "read_back") /\ Gone
  \/ /\ Goto("import_sent", "undo") /\ Gone
     /\ locals' = [locals EXCEPT !.goal = "failed", !.found = "unsure"]

\* rollback_opencode_import, and what a failed import makes of its failure.
OpenCodeUndo ==
  \/ Step("undo", "deleting") /\ helper' = Started(1, "delete")
  \/ EndBadly("undo") /\ Gone

OpenCodeDeleted ==
  \/ Deleted
  \/ /\ locals.found = "unsure" /\ Gone
     /\ End("deleting", IF disk["thread"] = "none" THEN "failed" ELSE "unanswered")

OpenCodeStep ==
  /\ kind = "opencode"
  /\ \/ Begun("import_sent") \/ OpenCodeImported \/ ReadBackTarget
     \/ OpenCodeUndo \/ OpenCodeDeleted
  /\ UNCHANGED store

CommandStep == Serve \/ Exit \/ ServerStep \/ HermesStep \/ OpenCodeStep
==============================================================================
