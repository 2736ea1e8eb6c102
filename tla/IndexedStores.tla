---------------------------- MODULE IndexedStores ----------------------------
(* The stores whose sessions a database lists: those of Antigravity and Cursor IDE. *)
EXTENDS StoreState

-----------------------------------------------------------------------------
(* Antigravity's conversations (antigravity_import.rs): a database per conversation, *)
(* a directory beside it, and a row of the summary database that lists it.           *)

Payload == {"conversation", "brain"}

\* ensure_no_active_antigravity_process.
AntigravityIdle == Checked /\ UNCHANGED store

\* summary_database_is_missing: one is made ("fresh") when there is none, and nothing
\* that belongs to one.
AntigravitySummaries ==
  /\ \/ Goto("import", "publish") /\ locals' = [locals EXCEPT !.found = "fresh"]
     \/ Goto("import", "validate") /\ locals' = [locals EXCEPT !.found = "theirs"]
     \/ End("import", "failed")
  /\ UNCHANGED store

\* validate_summary_database_at: a database with another schema is not touched.
AntigravityValidate ==
  /\ \/ Step("validate", "publish") \/ End("validate", "failed")
     \/ Step("delete", "plan") \/ End("delete", "failed")
  /\ UNCHANGED store

\* materialize_store_with_verification: the conversation, then its row.
AntigravityPublish ==
  \/ /\ disk["conversation"] = "none" /\ disk["row"] = "none"
     /\ Step("publish", "row") /\ Put("conversation", "made") /\ UNCHANGED aside
  \/ End("publish", "failed") /\ UNCHANGED store

\* insert_summary, in the database that is there or in the one that is made.
AntigravityAddRow ==
  \/ /\ disk["row"] = "none" /\ Step("row", "published")
     /\ Put("row", "made") /\ UNCHANGED aside
  \/ Goto("row", "undo") /\ AimAt("failed") /\ UNCHANGED store

\* validate_generated_file and summary_row.
ConversationAsGenerated == disk["conversation"] = "made"
RowAsGenerated == disk["row"] = "made"

AntigravityVerify ==
  /\ \/ /\ ConversationAsGenerated /\ RowAsGenerated
        /\ End("published", "imported")
     \/ Goto("published", "undo") /\ AimAt("failed")
  /\ UNCHANGED store

\* rollback_fresh_profile and rollback_after_publish of an import that failed, and
\* rollback_store_locked of one that has its row.
AntigravityCompare ==
  /\ UNCHANGED store
  /\ \/ /\ ConversationAsGenerated
        /\ \/ /\ locals.goal = "failed" /\ locals.found = "fresh"
              /\ (RowAsGenerated \/ disk["row"] = "none") /\ Step("undo", "remove_summaries")
           \/ /\ locals.goal = "failed" /\ locals.found = "theirs"
              /\ ~RowAsGenerated /\ Step("undo", "remove_conversation")
           \/ /\ locals.goal = "undone" \/ locals.found = "theirs"
              /\ RowAsGenerated /\ Step("undo", "move_aside")
     \/ EndBadly("undo")

AntigravityRemoveSummaries ==
  /\ \/ Step("remove_summaries", "remove_conversation") /\ Put("row", "none")
     \/ EndBadly("remove_summaries") /\ disk' \in {disk, [disk EXCEPT !["row"] = "none"]}
  /\ UNCHANGED aside

AntigravityRemoveConversation ==
  /\ \/ /\ Put("conversation", "none")
        /\ End("remove_conversation", locals.goal) \/ EndBadly("remove_conversation")
     \/ EndBadly("remove_conversation") /\ UNCHANGED disk
  /\ UNCHANGED aside

\* The row's transaction is open from here to its commit.
AntigravityMoveAside ==
  \/ SetAside("conversation") /\ Step("move_aside", "commit")
  \/ EndBadly("move_aside") /\ UNCHANGED store

AntigravityCommit ==
  \/ Step("commit", "remove") /\ Put("row", "none") /\ UNCHANGED aside
  \/ EndBadly("commit") /\ (PutBack("conversation") \/ UNCHANGED store)

AntigravityRemove ==
  /\ \/ /\ aside' = [aside EXCEPT !["conversation"] = "none"]
        /\ End("remove", locals.goal) \/ EndBadly("remove")
     \/ EndBadly("remove") /\ UNCHANGED aside
  /\ UNCHANGED disk

-----------------------------------------------------------------------------
(* Deletion: delete_session_at_locked *)

AntigravityPlan ==
  /\ UNCHANGED store
  /\ \/ /\ Listed /\ Goto("plan", "stage")
        /\ \A n \in Payload : aside[n] = "none"
        /\ locals' = [locals EXCEPT !.plan = InOrder("conversation", "brain", Existing)]
     \/ End("plan", "failed")

\* Inside the row's transaction the payload is staged, and then the transaction commits.
AntigravityStage ==
  \/ /\ locals.moved < Len(locals.plan)
     /\ SetAside(locals.plan[locals.moved + 1])
     /\ Goto("stage", "stage") /\ locals' = [locals EXCEPT !.moved = @ + 1]
  \/ /\ locals.moved = Len(locals.plan)
     /\ Step("stage", "discard") /\ Put("row", "none") /\ UNCHANGED aside
  \/ Step("stage", "restore") /\ UNCHANGED store

\* In reverse order; the first that cannot be restored ends it.
AntigravityRestore ==
  \/ /\ locals.moved > 0 /\ PutBack(locals.plan[locals.moved])
     /\ Goto("restore", "restore") /\ locals' = [locals EXCEPT !.moved = @ - 1]
  \/ locals.moved > 0 /\ EndBadly("restore") /\ UNCHANGED store
  \/ locals.moved = 0 /\ End("restore", "failed") /\ UNCHANGED store

\* The staged payload is removed as far as possible, without an error.
AntigravityDiscard ==
  /\ \E left \in SUBSET ToSet(locals.plan) :
       aside' = [n \in Names |->
                   IF n \in ToSet(locals.plan) \ left THEN "none" ELSE aside[n]]
  /\ End("discard", "deleted") \/ End("discard", "remains")
  /\ UNCHANGED disk

\* A mutant of Pending: staged entries are removed whatever the row says.
EveryPending == {n \in Payload : aside[n] # "none"}

\* What retry_pending_antigravity_deletions may remove.
Pending == {n \in Payload : aside[n] # "none" /\ disk["row"] = "none"}

\* The deletion of another session begins with what earlier ones left of this one.
AntigravitySweep ==
  /\ End("sweep", "swept") /\ UNCHANGED disk
  /\ \E left \in SUBSET Pending :
       aside' = [n \in Names |-> IF n \in Pending \ left THEN "none" ELSE aside[n]]

AntigravityStep ==
  /\ kind = "antigravity"
  /\ \/ AntigravityIdle \/ AntigravitySummaries \/ AntigravityValidate
     \/ AntigravityPublish \/ AntigravityAddRow \/ AntigravityVerify
     \/ AntigravityCompare \/ AntigravityRemoveSummaries
     \/ AntigravityRemoveConversation \/ AntigravityMoveAside \/ AntigravityCommit
     \/ AntigravityRemove
     \/ AntigravityPlan \/ AntigravityStage \/ AntigravityRestore \/ AntigravityDiscard
     \/ AntigravitySweep

-----------------------------------------------------------------------------
(* Cursor IDE's composers (cursor_ide_import.rs): header and records in one database, *)
(* blobs that composers may share, and the selection of every workspace in a database *)
(* of its own.                                                                        *)

Workspaces == {"selection", "elsewhere"}
NamesUs == {"ours", "both"}

\* A selection without this composer, and the one it came from.
Dropped == [ours |-> "emptied", both |-> "others"]
Undropped == [emptied |-> "ours", others |-> "both"]

\* ensure_cursor_idle.
IdeIdle == Checked /\ UNCHANGED store

\* created_record_keys: a blob that is stored already is not created again.
BlobIsNew == disk["blob"] = "none"

\* validate_schema: a database of another version is not written to.
IdeValidate ==
  /\ Step("import", "insert") \/ End("import", "failed")
  /\ UNCHANGED store

\* materialize_store_locked: one transaction for header and records.
IdeInsert ==
  \/ /\ disk["records"] = "none" /\ Goto("insert", "select") /\ UNCHANGED aside
     /\ locals' = [locals EXCEPT !.created = BlobIsNew]
     /\ disk' = [disk EXCEPT !["records"] = "made",
                             !["blob"] = IF BlobIsNew THEN "made" ELSE disk["blob"]]
  \/ End("insert", "failed") /\ UNCHANGED store

\* safe_workspace_database: a workspace without a database has no selection.
IdeNoWorkspace == Step("select", "published") /\ UNCHANGED store

\* materialize_workspace_selection.
IdeSelect ==
  /\ UNCHANGED aside
  /\ \/ /\ Goto("select", "published") /\ Put("selection", "ours")
        /\ locals' = [locals EXCEPT !.found = disk["selection"]]
     \/ Goto("select", "undo") /\ AimAt("failed") /\ UNCHANGED disk

\* verify_workspace_selection.
SelectionRetained == locals.found = "none" \/ disk["selection"] = "ours"

\* verify_readback.
IdeVerify ==
  /\ UNCHANGED store
  /\ \/ /\ disk["records"] = "made" /\ SelectionRetained
        /\ End("published", "imported")
     \/ Goto("published", "undo") /\ AimAt("failed")

-----------------------------------------------------------------------------
(* rollback_store_locked, inside one transaction of the main database *)

\* validate_exact_rows.
IdeCompare ==
  /\ (disk["records"] = "made" /\ Step("undo", "unselect")) \/ EndBadly("undo")
  /\ UNCHANGED store

\* A mutant of IdeUnselect: the rows are deleted while a selection names them.
IdeStaySelected == Step("unselect", "rows") /\ UNCHANGED store

\* restore_workspace_selection commits before the rows are deleted.
IdeUnselect ==
  /\ UNCHANGED aside
  /\ \/ /\ locals.found \in {"none", disk["selection"]}
        /\ Step("unselect", "rows") /\ UNCHANGED disk
     \/ /\ locals.found # "none" /\ disk["selection"] = "ours"
        /\ Step("unselect", "rows") /\ Put("selection", locals.found)
     \/ EndBadly("unselect") /\ UNCHANGED disk

\* Only a blob that the import created and no other composer refers to.
Collected == locals.created /\ disk["blob"] # "shared"

\* Blobs stay when the references of the other composers cannot be read.
IdeDeleteRows ==
  /\ UNCHANGED aside
  /\ \/ /\ Step("rows", "read_back")
        /\ \/ Collected /\ disk' = [disk EXCEPT !["records"] = "none", !["blob"] = "none"]
           \/ Put("records", "none")
     \/ EndBadly("rows") /\ UNCHANGED disk

\* generated_rows_absent.
IdeReadBack ==
  /\ End("read_back", locals.goal) \/ EndBadly("read_back")
  /\ UNCHANGED store

-----------------------------------------------------------------------------
(* Deletion: delete_session_at_locked *)

IdePlan ==
  /\ UNCHANGED store
  /\ \/ /\ Listed /\ Goto("delete", "apply")
        /\ LET naming == {w \in Workspaces : disk[w] \in NamesUs}
           IN  locals' = [locals EXCEPT !.plan = InOrder("selection", "elsewhere", naming)]
     \/ End("delete", "failed")

\* apply_workspace_deletion_plans, one transaction per workspace, and then the commit of
\* the main database.
IdeApply ==
  /\ UNCHANGED aside
  /\ \/ /\ locals.moved < Len(locals.plan)
        /\ Goto("apply", "apply") /\ locals' = [locals EXCEPT !.moved = @ + 1]
        /\ LET w == locals.plan[locals.moved + 1] IN Put(w, Dropped[disk[w]])
     \/ /\ locals.moved = Len(locals.plan)
        /\ Step("apply", "read_back_deletion") /\ Put("records", "none")
     \/ Step("apply", "restore") /\ UNCHANGED disk

\* restore_workspace_deletion_plans stops at the first that cannot be restored.
IdeRestore ==
  /\ UNCHANGED aside
  /\ \/ /\ locals.moved > 0
        /\ Goto("restore", "restore") /\ locals' = [locals EXCEPT !.moved = @ - 1]
        /\ LET w == locals.plan[locals.moved] IN Put(w, Undropped[disk[w]])
     \/ locals.moved > 0 /\ EndBadly("restore") /\ UNCHANGED disk
     \/ locals.moved = 0 /\ End("restore", "failed") /\ UNCHANGED disk

\* verify_cursor_deletion.
IdeReadBackDeletion ==
  /\ End("read_back_deletion", "deleted") \/ End("read_back_deletion", "remains")
  /\ UNCHANGED store

IdeStep ==
  /\ kind = "cursor_ide"
  /\ \/ IdeIdle \/ IdeValidate \/ IdeInsert \/ IdeSelect \/ IdeNoWorkspace \/ IdeVerify
     \/ IdeCompare \/ IdeUnselect \/ IdeDeleteRows \/ IdeReadBack
     \/ IdePlan \/ IdeApply \/ IdeRestore \/ IdeReadBackDeletion
==============================================================================
