----------------------------- MODULE FileStores -----------------------------
(* The stores that are files: Claude Code's transcripts (claude_import.rs,         *)
(* claude_delete.rs), Pi's session files (pi_import.rs) and Cursor CLI's           *)
(* directories of a database and the metadata file a session is listed by          *)
(* (cursor_import.rs).  The agents may run while a session is imported or taken    *)
(* back, and must be closed for a deletion.                                        *)
EXTENDS StoreState

-----------------------------------------------------------------------------
(* Claude Code: import and rollback *)

\* verify_project_identity: the project directory may be another working directory's.
ClaudeIdentify ==
  /\ Step("import", "publish") \/ End("import", "failed")
  /\ UNCHANGED store

\* materialize_records_locked: a rename that never replaces a file, then what follows
\* the publication, which ends in a rollback when it fails.
ClaudePublish ==
  \/ /\ disk["transcript"] = "none" /\ Step("publish", "published")
     /\ Put("transcript", "made") /\ UNCHANGED aside
  \/ End("publish", "failed") /\ UNCHANGED store

ClaudeValidate ==
  \/ disk["transcript"] = "made" /\ End("published", "imported") /\ UNCHANGED store
  \/ Goto("published", "undo") /\ AimAt("failed") /\ UNCHANGED store

\* rollback_records_locked: the transcript moves aside before it is compared.
ClaudeMoveAside ==
  \/ SetAside("transcript") /\ Step("undo", "compare")
  \/ EndBadly("undo") /\ UNCHANGED store

ClaudeCompare ==
  /\ \/ aside["transcript"] = "made" /\ Step("compare", "remove")
     \/ Step("compare", "put_back")
  /\ UNCHANGED store

\* hard_link never replaces what Claude wrote meanwhile.
ClaudePutBack ==
  /\ EndBadly("put_back")
  /\ \/ disk["transcript"] = "none" /\ PutBack("transcript")
     \/ disk["transcript"] = "none" /\ Put("transcript", aside["transcript"])
        /\ UNCHANGED aside
     \/ UNCHANGED store

\* remove_file, and the synchronisation that may still fail.
ClaudeRemove ==
  /\ \/ aside' = [aside EXCEPT !["transcript"] = "none"]
        /\ (End("remove", locals.goal) \/ EndBadly("remove"))
     \/ EndBadly("remove") /\ UNCHANGED aside
  /\ UNCHANGED disk

-----------------------------------------------------------------------------
(* Claude Code: deletion *)

\* A mutant of DeletionPlan: sidecars are staged before the transcript.
SidecarsFirst == InOrder("sidecar", "transcript", Existing)

\* DeletionPlan::resolve: the transcript, then the sidecars there are.
DeletionPlan == InOrder("transcript", "sidecar", Existing)

\* ensure_no_active_claude_process.
ClaudeIdle == Checked /\ UNCHANGED store

ClaudePlan ==
  \/ /\ Listed /\ Goto("delete", "stage")
     /\ locals' = [locals EXCEPT !.plan = DeletionPlan] /\ UNCHANGED store
  \/ End("delete", "failed") /\ UNCHANGED store

\* verify_absent, and the last look of stage_entries.
ClaudeAbsent == \A n \in ToSet(locals.plan) : disk[n] = "none"

\* stage_entries, one rename after the other.
ClaudeStage ==
  \/ /\ locals.moved < Len(locals.plan)
     /\ SetAside(locals.plan[locals.moved + 1])
     /\ Goto("stage", "stage")
     /\ locals' = [locals EXCEPT !.moved = @ + 1]
  \/ /\ locals.moved = Len(locals.plan) /\ UNCHANGED store
     /\ ClaudeAbsent /\ Step("stage", "discard")
  \/ Step("stage", "restore") /\ UNCHANGED store

\* restore_staged: in reverse order, and never over a path that was recreated: each
\* is looked at, and then renamed.
ClaudeLook ==
  /\ locals.moved > 0 /\ UNCHANGED store
  /\ \/ disk[locals.plan[locals.moved]] = "none" /\ Step("restore", "move_back")
     \/ /\ Goto("restore", "restore")
        /\ locals' = [locals EXCEPT !.moved = @ - 1, !.bad = TRUE, !.owed = TRUE]

ClaudeMoveBack ==
  /\ Goto("move_back", "restore")
  /\ \/ PutBack(locals.plan[locals.moved]) /\ locals' = [locals EXCEPT !.moved = @ - 1]
     \/ /\ UNCHANGED store
        /\ locals' = [locals EXCEPT !.moved = @ - 1, !.bad = TRUE, !.owed = TRUE]

ClaudeRestored ==
  /\ locals.moved = 0 /\ UNCHANGED store
  /\ (~locals.bad /\ End("restore", "failed")) \/ EndBadly("restore")

\* remove_dir_all may stop anywhere; delete_native_session then looks for the session.
ClaudeDiscard ==
  /\ \E left \in SUBSET ToSet(locals.plan) :
       /\ aside' = [n \in Names |->
                       IF n \in ToSet(locals.plan) \ left THEN "none" ELSE aside[n]]
       /\ \/ left = {} /\ disk["transcript"] = "none" /\ End("discard", "deleted")
          \/ End("discard", "remains")
  /\ UNCHANGED disk

ClaudeStep ==
  /\ kind = "claude"
  /\ \/ ClaudeIdentify \/ ClaudePublish \/ ClaudeValidate \/ ClaudeIdle
     \/ ClaudeMoveAside \/ ClaudeCompare \/ ClaudePutBack \/ ClaudeRemove
     \/ ClaudePlan \/ ClaudeStage \/ ClaudeLook \/ ClaudeMoveBack \/ ClaudeRestored
     \/ ClaudeDiscard

-----------------------------------------------------------------------------
(* Pi *)

\* verify_session_directory_identity.
PiIdentify ==
  /\ Step("import", "publish") \/ End("import", "failed")
  /\ UNCHANGED store

\* materialize_records, with rollback_after_publish when the directory cannot be
\* synchronised.  An error of the last validation leaves the file.
PiPublish ==
  \/ /\ disk["file"] = "none" /\ Step("publish", "published")
     /\ Put("file", "made") /\ UNCHANGED aside
  \/ End("publish", "failed") /\ UNCHANGED store

PiValidate ==
  /\ \/ disk["file"] = "made" /\ End("published", "imported")
     \/ End("published", "failed")
     \/ Goto("published", "undo") /\ AimAt("failed")
  /\ UNCHANGED store

\* rollback: only the file as generated, compared and then removed.
PiCompare ==
  /\ (disk["file"] = "made" /\ Step("undo", "remove")) \/ EndBadly("undo")
  /\ UNCHANGED store

PiRemove ==
  /\ \/ disk["file"] # "none" /\ Put("file", "none")
        /\ (End("remove", locals.goal) \/ EndBadly("remove"))
     \/ EndBadly("remove") /\ UNCHANGED disk
  /\ UNCHANGED aside

\* ensure_no_active_pi_process.
PiIdle == Checked /\ UNCHANGED store

\* pi_header_id: a file without the header of this session is none of omni's business.
PiIdentified ==
  /\ (disk["file"] \in Generated /\ Step("delete", "unlink")) \/ End("delete", "failed")
  /\ UNCHANGED store

\* delete_session_at: whatever the file is by now, and the directory it leaves empty.
PiDelete ==
  /\ \/ /\ disk["file"] # "none" /\ Put("file", "none")
        /\ End("unlink", "deleted") \/ End("unlink", "remains")
     \/ End("unlink", "failed") /\ UNCHANGED disk
  /\ UNCHANGED aside

PiStep ==
  /\ kind = "pi"
  /\ \/ PiIdentify \/ PiPublish \/ PiValidate \/ PiCompare \/ PiRemove
     \/ PiIdle \/ PiIdentified \/ PiDelete

-----------------------------------------------------------------------------
(* Cursor CLI: import and rollback *)

Directory == {"database", "metadata"}

\* verify_workspace_identity.
CursorIdentify ==
  /\ Step("import", "prepare") \/ End("import", "failed")
  /\ UNCHANGED store

\* write_database: the session as it will be published, in a private directory.
CursorPrepare ==
  /\ \/ (\A n \in Directory : disk[n] = "none") /\ Step("prepare", "link")
     \/ End("prepare", "failed")
  /\ UNCHANGED store

\* materialize_store: hard links out of that directory, the metadata last.
CursorLink ==
  \/ /\ disk["database"] = "none" /\ Step("link", "link")
     /\ Put("database", "made") /\ UNCHANGED aside
  \/ /\ disk["database"] # "none" /\ disk["metadata"] = "none"
     /\ Step("link", "published")
     /\ Put("metadata", "made") /\ UNCHANGED aside
  \/ Goto("link", "undo") /\ AimAt("failed") /\ UNCHANGED store

CursorPublished ==
  /\ \/ End("published", "imported")
     \/ Goto("published", "undo") /\ AimAt("failed")
  /\ UNCHANGED store

\* validate_generated: of a failed publication, whatever is there; of an import that
\* is taken back, both files.
CursorCompare ==
  /\ \/ /\ \A n \in Directory :
             disk[n] = "made" \/ (disk[n] = "none" /\ locals.goal = "failed")
        /\ Step("undo", "remove")
     \/ EndBadly("undo")
  /\ UNCHANGED store

\* remove_generated_directory.
RemovedFirst == IF disk["metadata"] # "none" THEN "metadata" ELSE "database"

CursorRemove ==
  /\ \/ Step("remove", "remove") /\ disk[RemovedFirst] # "none" /\ Put(RemovedFirst, "none")
     \/ /\ UNCHANGED disk
        /\ \/ (\A n \in Directory : disk[n] = "none") /\ End("remove", locals.goal)
           \/ EndBadly("remove")
  /\ UNCHANGED aside

-----------------------------------------------------------------------------
(* Cursor CLI: deletion (staged_delete_session, restore_staged_session) *)

\* ensure_no_active_cursor_agent_process.
CursorIdle == Checked /\ UNCHANGED store

CursorStage ==
  \/ /\ Listed /\ Step("delete", "verify")
     /\ aside' = [n \in Names |-> IF n \in Directory THEN disk[n] ELSE aside[n]]
     /\ disk' = [n \in Names |-> IF n \in Directory THEN "none" ELSE disk[n]]
  \/ End("delete", "failed") /\ UNCHANGED store

CursorVerify ==
  /\ (disk["metadata"] = "none" /\ Step("verify", "discard")) \/ Step("verify", "restore")
  /\ UNCHANGED store

CursorRestore ==
  \/ /\ \A n \in Directory : disk[n] = "none"
     /\ disk' = [n \in Names |-> IF n \in Directory THEN aside[n] ELSE disk[n]]
     /\ aside' = [n \in Names |-> "none"]
     /\ End("restore", "failed") \/ EndBadly("restore")
  \/ EndBadly("restore") /\ UNCHANGED store

CursorDiscard ==
  /\ \E left \in SUBSET Directory :
       /\ aside' = [n \in Names |-> IF n \in left THEN aside[n] ELSE "none"]
       /\ \/ left = {} /\ disk["metadata"] = "none" /\ End("discard", "deleted")
          \/ End("discard", "remains")
  /\ UNCHANGED disk

CursorStep ==
  /\ kind = "cursor_cli"
  /\ \/ CursorIdentify \/ CursorPrepare \/ CursorIdle \/ CursorLink
     \/ CursorPublished \/ CursorCompare \/ CursorRemove
     \/ CursorStage \/ CursorVerify \/ CursorRestore \/ CursorDiscard
==============================================================================
