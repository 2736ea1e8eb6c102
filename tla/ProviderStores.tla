--------------------------- MODULE ProviderStores ----------------------------
(***************************************************************************)
(* Imports, rollbacks and deletions in the five private stores omni writes  *)
(* itself, one file operation or transaction at a time, and imports and     *)
(* rollbacks in the four it leaves to the provider's own program: each step *)
(* may fail, omni may be killed between any two, and the agent goes on with *)
(* the session wherever the code lets it run.                               *)
(***************************************************************************)
EXTENDS FileStores, CommandStores, IndexedStores

\* Providers that have to be closed for an import and a rollback too.
Closed == {"antigravity", "cursor_ide"}

First(step) == IF kind \in Closed THEN "check" ELSE step

\* The program a killed command had started has ended before the next command.
Import ==
  /\ command = "none" /\ ~helper.up
  /\ Begin("import", First("import"))
  /\ UNCHANGED locals

\* The flow takes back an import it has not launched.
Undo ==
  /\ command = "import" /\ outcome = "imported"
  /\ Begin("undo", First("undo"))
  /\ AimAt("undone")

\* A listed session (delete_native_session).  A provider seen running before the lock is
\* taken refuses at once.
Delete ==
  /\ kind \notin Commanded /\ Listed /\ agent = "closed"
  /\ Begin("delete", "check")
  /\ locals' = [Empty EXCEPT !.owed = locals.owed]

\* Another session of the same store is deleted.
DeleteAnother ==
  /\ kind = "antigravity" /\ agent = "closed"
  /\ Begin("sweep", "check")
  /\ UNCHANGED locals

\* Antigravity's payload is away from its row while the row's transaction is open.
Staged == kind = "antigravity" /\ pc \in {"stage", "restore", "commit"}

Kill ==
  /\ pc # "idle" /\ pc' = "idle" /\ outcome' = "killed"
  /\ locals' = [locals EXCEPT !.owed = @ \/ Staged]
  /\ UNCHANGED <<around, store>>

-----------------------------------------------------------------------------
(* The agent *)

Around(next) ==
  /\ next /\ UNCHANGED <<kind, aside, command, pc, locals, outcome, count>>

\* Antigravity and Cursor are not started while omni, which found them closed, works.
Open ==
  /\ agent = "closed" /\ (kind \in Closed => pc \in {"idle", "check"})
  /\ agent' = "open" /\ UNCHANGED <<disk, knows>>

Close == agent = "open" /\ agent' = "closed" /\ knows' = FALSE /\ UNCHANGED disk

\* A turn of the agent, with what belongs to it.
TouchedBy ==
  [claude |-> {"transcript", "sidecar"}, pi |-> {"file"},
   cursor_cli |-> {"database", "metadata"},
   antigravity |-> {"conversation", "brain", "row"}, cursor_ide |-> {"records"},
   codex |-> {"thread"}, grok |-> {"thread"}, opencode |-> {"thread"},
   hermes |-> {"thread"}]

Continue ==
  /\ agent = "open" /\ Listed /\ \A n \in Needed[kind] : disk[n] \in Generated
  /\ knows' = TRUE /\ UNCHANGED agent
  /\ disk' = [n \in Names |-> IF n \in TouchedBy[kind] THEN "grown" ELSE disk[n]]

\* A session that was open is written to by its path, where nothing is any more.
Recreate ==
  /\ kind \in {"claude", "pi", "cursor_cli"} /\ agent = "open" /\ knows
  /\ \A n \in TouchedBy[kind] : disk[n] = "none"
  /\ Put(Listing[kind], "new") /\ UNCHANGED <<agent, knows>>

\* In Cursor somebody selects the composer in its workspace, or a composer that a turn
\* added below it in another one; or another composer comes to share its blob.
SelectOrShare ==
  /\ kind = "cursor_ide" /\ agent = "open" /\ UNCHANGED <<agent, knows>>
  /\ \/ Listed /\ Put("selection", "both")
     \/ disk["records"] = "grown" /\ Put("elsewhere", "both")
     \/ disk["blob"] = "made" /\ Put("blob", "shared")

AgentStep ==
  Around(Open) \/ Around(Close) \/ Around(Continue) \/ Around(Recreate)
  \/ Around(SelectOrShare)

-----------------------------------------------------------------------------

Command ==
  ClaudeStep \/ PiStep \/ CursorStep \/ AntigravityStep \/ IdeStep

\* The program of a command that is killed goes on by itself.
Next ==
  \/ CommandStep
  \/ /\ Import \/ Undo \/ Delete \/ DeleteAnother \/ Command \/ Kill \/ AgentStep
     /\ UNCHANGED helper

WritingInit == StoreInit /\ helper = Nobody

Spec == WritingInit /\ [][Next]_<<vars, helper>>

-----------------------------------------------------------------------------
(* Properties *)

Incomplete ==
  \/ \E n \in Needed[kind] : disk[n] \notin Generated
  \/ \E n \in Mine : aside[n] # "none" /\ disk[n] = "none"

\* A rollback knows only a workspace whose database was there when it was imported.
Dangling ==
  /\ kind = "cursor_ide" /\ \E w \in Workspaces : disk[w] \in NamesUs
  /\ ~(command = "undo" /\ locals.found = "none")

Damaged == IF Listed THEN Incomplete ELSE Dangling

View == IF Damaged THEN "damaged" ELSE IF Listed THEN "whole" ELSE "none"

\* An error has said so, or will; or a kill left what Antigravity had staged.
Owed == locals.owed \/ Staged

Answer ==
  IF outcome = "imported" THEN "there"
  ELSE IF outcome \in {"undone", "deleted"} THEN "gone" ELSE "open"

Sessions == INSTANCE AtomicSessions WITH view <- View, owed <- Owed, answer <- Answer

\* The stores implement AtomicSessions: file by file and row by row, a listed session
\* is never in pieces and no selection names a composer that is not there, unless a
\* restoration failed and says so, or Antigravity's payload was being staged.
ListedIsWhole == Sessions!Spec

Turns == {"grown", "new"}

\* The turns and blobs that are stored somewhere.
Kept(n) == disk[n] \in Turns \/ aside[n] \in Turns
KeptNext(n) == disk'[n] \in Turns \/ aside'[n] \in Turns

TurnsStay ==
  \A n \in Names : Kept(n) /\ ~KeptNext(n) =>
    \/ command = "delete" /\ (~Listed' \/ pc = "move_back")
    \/ command = "sweep" /\ ~Listed
    \/ kind \in {"pi", "cursor_cli"} /\ pc = "remove"
    \/ kind \in Commanded /\ helper.asked # <<>> /\ Head(helper.asked).what = "delete"

BlobsStay == disk["blob"] \in {"theirs", "shared"} => disk'["blob"] = disk["blob"]

\* What the agent wrote is destroyed by a deletion only, and only when the session is no
\* longer listed; Claude's "a live turn is never removed" (claude_import.rs:394).  The
\* exceptions are a session a provider's program deletes, a turn written between a
\* comparison and the removal by path it allows (Pi, Cursor CLI), and one written to a
\* recreated transcript between the look and the rename of a restoration.  A blob another
\* composer refers to is never removed.
NothingLost == [][TurnsStay /\ BlobsStay]_<<vars, helper>>

\* An import or a rollback that ends without saying that something could not be restored
\* leaves the store as it was, except for what the agent wrote anew, for a blob whose
\* other references could not be read, and for a Pi file that could not be validated;
\* and nothing a provider's program was asked for can come true afterwards.  In Codex a
\* late answer to the reading is taken for the deletion's, which has the same number.
ErrorsAreClean ==
  /\ command \in {"import", "undo"} /\ outcome \in {"failed", "undone"}
  /\ ~(kind = "pi" /\ command = "import") /\ ~(kind = "codex" /\ locals.found = "read")
  => /\ \A n \in Mine : disk[n] \in {"none", "new"} /\ aside[n] = "none"
     /\ \A w \in Workspaces : disk[w] \in {"before", "both"}
     /\ ~helper.up
==============================================================================
