---------------------------- MODULE NativeImport -----------------------------
(***************************************************************************)
(* The lifecycle of a native import: how omni continues a session in       *)
(* another agent by writing a generated session into that agent's store    *)
(* (the prepare_*, resume_via_* and materialize_* functions of transfer.rs  *)
(* and the materialize and rollback functions of the *_import.rs files).    *)
(*                                                                         *)
(* Each process runs one command.  Around it, the terminal sends Ctrl+C,   *)
(* the process is killed, the target agent continues the generated session *)
(* when it finds it, and another omni deletes it natively.                 *)
(***************************************************************************)
EXTENDS Naturals

CONSTANTS
  Procs,        \* the omni processes
  Kinds,        \* the import kinds the commands may target
  MaxAttempts,  \* bound on the retries of a command
  NoProc

AllKinds == {"claude", "codex", "opencode", "grok", "hermes", "antigravity", "pi",
             "cursor_cli", "cursor_ide"}

ASSUME KindsAssumption == Kinds \subseteq AllKinds
ASSUME MaxAttemptsAssumption == MaxAttempts \in Nat \ {0}
ASSUME NoProcAssumption == NoProc \notin Procs

\* Kinds whose materialization returns the lock of the provider root.
Locked == {"claude", "antigravity", "cursor_ide"}

\* Kinds whose flow reads a target back after a failed, interrupted materialization.
Reports == {"opencode", "grok", "hermes", "cursor_cli", "pi"}

\* Kinds whose rollback first compares what is stored with what was generated.
Compares == AllKinds \ {"codex", "opencode"}

\* Kinds whose import may publish and still return an error that no rollback
\* preceded: a request or helper that fails or times out after the provider stored
\* the session, or, for Pi, a validation that cannot read the published file.
Unreported == {"codex", "opencode", "grok", "hermes", "pi"}

\* Kinds written by a provider process, which finishes on its own if omni dies.
Helped == {"codex", "opencode", "grok", "hermes"}

\* Kinds that fork their own sessions by importing them (requires_materialized_fork).
ForkedByImport == {"antigravity", "cursor_cli", "cursor_ide", "hermes"}

\* cross: the source is another provider; only: --materialize-only; asks: a person
\* can answer at the terminal (import_choice::can_ask).
Jobs == {j \in [kind : Kinds, cross : BOOLEAN, only : BOOLEAN, asks : BOOLEAN] :
           j.cross \/ j.kind \in ForkedByImport}

Targets == Procs \X (1..MaxAttempts)

VARIABLES
  job,        \* what each command was asked to do
  attempt,    \* the number of its current attempt
  pc,
  goal,       \* why it rolls back, "none" before it does
  tagged,     \* its error carries RollbackFailed
  muted,      \* its standard error is gone
  armed,      \* its guard holds the next Ctrl+C
  requested,  \* the guard's stop request
  outcome,
  stored,     \* every target in its provider's store
  lineage,    \* the targets recorded in the OmniSession store
  lock        \* who holds the lock of each provider root

vars == <<job, attempt, pc, goal, tagged, muted, armed, requested, outcome,
          stored, lineage, lock>>

Steps == {"prepare", "begin", "write", "verify", "materialized", "plan", "planned",
          "record", "recorded", "launch", "rollback", "remove", "undo", "failed",
          "fallback", "done"}

Goals == {"none", "fallback", "error", "interrupted", "undo"}

Outcomes == {"none", "launched", "created", "handoff", "fork", "rolled_back",
             "incomplete", "failed", "killed"}

Target(p) == <<p, attempt[p]>>
Kind(p) == job[p].kind
Present(t) == stored[t] \in {"generated", "changed"}

Init ==
  /\ job \in [Procs -> Jobs]
  /\ attempt = [p \in Procs |-> 1]
  /\ pc = [p \in Procs |-> "prepare"]
  /\ goal = [p \in Procs |-> "none"]
  /\ tagged = [p \in Procs |-> FALSE] /\ muted = [p \in Procs |-> FALSE]
  /\ armed = [p \in Procs |-> FALSE] /\ requested = [p \in Procs |-> FALSE]
  /\ outcome = [p \in Procs |-> "none"]
  /\ stored = [t \in Targets |-> "absent"]
  /\ lineage = {}
  /\ lock = [k \in Locked |-> NoProc]

Goto(p, here, there) == pc[p] = here /\ pc' = [pc EXCEPT ![p] = there]

\* A mutant of Unlock: a lock outlives the command that took it.
KeepLock(p) == UNCHANGED lock

Unlock(p) == lock' = [k \in Locked |-> IF lock[k] = p THEN NoProc ELSE lock[k]]

\* The command returns, dropping the lock it holds.
End(p, here, result) ==
  /\ Goto(p, here, "done")
  /\ outcome' = [outcome EXCEPT ![p] = result]
  /\ Unlock(p)

\* What a step of the flow leaves alone unless it says otherwise.
Flow == <<job, attempt, muted>>
Guard == <<armed, requested>>

-----------------------------------------------------------------------------
(* From the source to a written target *)

\* ImportInterrupt::install, once the import is built.
Prepare(p) ==
  /\ Goto(p, "prepare", "begin")
  /\ armed' = [armed EXCEPT ![p] = TRUE]
  /\ requested' = [requested EXCEPT ![p] = FALSE]
  /\ UNCHANGED <<Flow, goal, tagged, outcome, stored, lineage, lock>>

\* No accepted binary, or a source that cannot be expressed in the target's format.
PrepareFails(p) ==
  /\ Goto(p, "prepare", "fallback")
  /\ UNCHANGED <<Flow, Guard, goal, tagged, outcome, stored, lineage, lock>>

\* Progress that cannot be written, or an OpenCode launch that cannot be planned.
PrepareStops(p) ==
  /\ End(p, "prepare", "failed")
  /\ UNCHANGED <<Flow, Guard, goal, tagged, stored, lineage>>

Begin(p) ==
  /\ Goto(p, "begin", "write")
  /\ \/ /\ Kind(p) \in Locked /\ lock[Kind(p)] = NoProc
        /\ lock' = [lock EXCEPT ![Kind(p)] = p]
     \/ Kind(p) \notin Locked /\ UNCHANGED lock
  /\ UNCHANGED <<Flow, Guard, goal, tagged, outcome, stored, lineage>>

\* The provider is not supported any more, or its own process is running.
BeginFails(p) ==
  /\ Goto(p, "begin", "failed")
  /\ UNCHANGED <<Flow, Guard, goal, tagged, outcome, stored, lineage, lock>>

\* progress_line returns an error around the write, and `?` passes it on.
ProgressFails(p) ==
  /\ Goto(p, "begin", "failed") \/ Goto(p, "verify", "failed")
  /\ muted' = [muted EXCEPT ![p] = TRUE]
  /\ Unlock(p)
  /\ UNCHANGED <<job, attempt, Guard, goal, tagged, outcome, stored, lineage>>

Publish(p) ==
  /\ Goto(p, "write", "verify")
  /\ stored' = [stored EXCEPT ![Target(p)] = "generated"]
  /\ UNCHANGED <<Flow, Guard, goal, tagged, outcome, lineage, lock>>

\* The importer's own verification or synchronisation fails after publishing.  Grok's
\* importer deletes what its verification refused without comparing it once more.
PublishUnverified(p) ==
  /\ Goto(p, "write", "rollback") \/ (Kind(p) = "grok" /\ Goto(p, "write", "remove"))
  /\ stored' = [stored EXCEPT ![Target(p)] = "generated"]
  /\ goal' = [goal EXCEPT ![p] = "fallback"]
  /\ UNCHANGED <<Flow, Guard, tagged, outcome, lineage, lock>>

\* The write fails, and what it left behind is not rolled back.
WriteFails(p) ==
  /\ Goto(p, "write", "failed")
  /\ stored' \in {stored} \cup
       {[stored EXCEPT ![Target(p)] = "generated"] : k \in Unreported \cap {Kind(p)}}
  /\ Unlock(p)
  /\ UNCHANGED <<Flow, Guard, goal, tagged, outcome, lineage>>

\* A mutant of Verify: the write guard is dropped when the target is verified.
VerifyAndUnlock(p) ==
  /\ stored[Target(p)] = "generated" /\ Goto(p, "verify", "materialized")
  /\ Unlock(p)
  /\ UNCHANGED <<Flow, Guard, goal, tagged, outcome, stored, lineage>>

Verify(p) ==
  /\ stored[Target(p)] = "generated" /\ Goto(p, "verify", "materialized")
  /\ UNCHANGED <<Flow, Guard, goal, tagged, outcome, stored, lineage, lock>>

\* The read-back fails or does not match.
Mismatch(p) ==
  /\ Goto(p, "verify", "rollback")
  /\ goal' = [goal EXCEPT ![p] = "fallback"]
  /\ UNCHANGED <<Flow, Guard, tagged, outcome, stored, lineage, lock>>

-----------------------------------------------------------------------------
(* From a verified target to its launch *)

\* ImportInterrupt::check.
Check(p, here, there) ==
  /\ \/ ~requested[p] /\ Goto(p, here, there) /\ UNCHANGED goal
     \/ requested[p] /\ Goto(p, here, "rollback")
        /\ goal' = [goal EXCEPT ![p] = "interrupted"]
  /\ UNCHANGED <<Flow, Guard, tagged, outcome, stored, lineage, lock>>

CheckMaterialized(p) ==
  Check(p, "materialized", IF Kind(p) = "opencode" THEN "record" ELSE "plan")

\* A mutant of CheckPlanned: --materialize-only skips the lineage.
CheckPlannedOnly(p) == Check(p, "planned", IF job[p].only THEN "recorded" ELSE "record")

CheckPlanned(p) == Check(p, "planned", "record")

Plan(p) ==
  /\ Goto(p, "plan", "planned")
  /\ UNCHANGED <<Flow, Guard, goal, tagged, outcome, stored, lineage, lock>>

RecordLineage(p) ==
  /\ Goto(p, "record", "recorded")
  /\ lineage' = lineage \cup {Target(p)}
  /\ UNCHANGED <<Flow, Guard, goal, tagged, outcome, stored, lock>>

\* The launch cannot be planned, or the store cannot be written.
PlanOrRecordFails(p) ==
  /\ \/ /\ Goto(p, "plan", "rollback")
        /\ ~(Kind(p) = "cursor_ide" /\ job[p].only)
     \/ Goto(p, "record", "rollback")
  /\ goal' = [goal EXCEPT ![p] = "error"]
  /\ UNCHANGED <<Flow, Guard, tagged, outcome, stored, lineage, lock>>

\* A mutant of Finish: the stop request is not read after the guard is disarmed.
FinishUnchecked(p) ==
  /\ armed' = [armed EXCEPT ![p] = FALSE]
  /\ \/ ~job[p].only /\ Goto(p, "recorded", "launch") /\ UNCHANGED <<outcome, lock>>
     \/ job[p].only /\ End(p, "recorded", "created")
  /\ UNCHANGED <<Flow, requested, goal, tagged, stored, lineage>>

\* ImportInterrupt::finish, and --materialize-only returns.
Finish(p) ==
  /\ armed' = [armed EXCEPT ![p] = FALSE]
  /\ \/ /\ requested[p] /\ Goto(p, "recorded", "rollback")
        /\ goal' = [goal EXCEPT ![p] = "undo"]
        /\ UNCHANGED <<outcome, lock>>
     \/ /\ ~requested[p] /\ ~job[p].only /\ Goto(p, "recorded", "launch")
        /\ UNCHANGED <<goal, outcome, lock>>
     \/ ~requested[p] /\ job[p].only /\ End(p, "recorded", "created") /\ UNCHANGED goal
  /\ UNCHANGED <<Flow, requested, tagged, stored, lineage>>

\* The provider process is spawned, or cannot be: the session and its lineage stay.
Launch(p) ==
  /\ End(p, "launch", "launched") \/ End(p, "launch", "failed")
  /\ UNCHANGED <<Flow, Guard, goal, tagged, stored, lineage>>

-----------------------------------------------------------------------------
(* Exact rollback *)

BeginRollback(p) ==
  /\ Goto(p, "rollback", "remove")
  /\ Kind(p) \in Compares => stored[Target(p)] = "generated"
  /\ UNCHANGED <<Flow, Guard, goal, tagged, outcome, stored, lineage, lock>>

\* What the command does after a rollback, given its result: a materialization
\* failure is handled further, an interrupt is reported or its lineage undone, and
\* every other error returns.
AfterRollback(p, here, ok) ==
  /\ tagged' = [tagged EXCEPT ![p] = ~ok]
  /\ \/ goal[p] = "fallback" /\ Goto(p, here, "failed") /\ Unlock(p) /\ UNCHANGED outcome
     \/ goal[p] = "interrupted" /\ ok /\ End(p, here, "rolled_back")
     \/ goal[p] = "undo" /\ ok /\ Goto(p, here, "undo") /\ UNCHANGED <<outcome, lock>>
     \/ goal[p] = "error" /\ End(p, here, "failed")
     \/ goal[p] \in {"interrupted", "undo"} /\ ~ok /\ End(p, here, "failed")
  /\ UNCHANGED <<Flow, Guard, goal, lineage>>

\* The target is removed; synchronising the directory or closing the provider's
\* process may still fail, and the rollback with it.
Remove(p) ==
  /\ Present(Target(p))
  /\ stored' = [stored EXCEPT ![Target(p)] = "absent"]
  /\ \E ok \in BOOLEAN : AfterRollback(p, "remove", ok)

\* The target changed, is gone, or the provider does not remove it.
RollbackFails(p) ==
  /\ AfterRollback(p, "rollback", FALSE) \/ AfterRollback(p, "remove", FALSE)
  /\ UNCHANGED stored

\* A mutant of UndoLineage: an interrupted import keeps the lineage it recorded.
KeepLineage(p) ==
  /\ End(p, "undo", "rolled_back")
  /\ UNCHANGED <<Flow, Guard, goal, tagged, stored, lineage>>

\* RecordedLineage::undo (UndoLineage and UndoFails of TaskCommands).
UndoLineage(p) ==
  /\ \/ End(p, "undo", "rolled_back") /\ lineage' = lineage \ {Target(p)}
     \/ End(p, "undo", "failed") /\ UNCHANGED lineage
  /\ UNCHANGED <<Flow, Guard, goal, tagged, stored>>

-----------------------------------------------------------------------------
(* After a materialization that failed *)

\* ImportInterrupt::materialization_failed.
MaterializationFailed(p) ==
  /\ armed' = [armed EXCEPT ![p] = FALSE]
  /\ \/ ~requested[p] /\ ~job[p].only /\ Goto(p, "failed", "fallback")
        /\ UNCHANGED <<goal, outcome, lock>>
     \/ /\ IF requested[p] THEN tagged[p] ELSE job[p].only
        /\ End(p, "failed", "failed") /\ UNCHANGED goal
     \/ /\ requested[p] /\ ~tagged[p] /\ Kind(p) \in Reports /\ Present(Target(p))
        /\ Goto(p, "failed", "rollback")
        /\ goal' = [goal EXCEPT ![p] = "interrupted"]
        /\ UNCHANGED <<outcome, lock>>
     \/ requested[p] /\ ~tagged[p] /\ End(p, "failed", "incomplete") /\ UNCHANGED goal
  /\ UNCHANGED <<Flow, requested, tagged, stored, lineage>>

\* native_import_fallback and cursor_ide_import_failed: Cursor IDE has no handoff,
\* and a fork of the same provider neither a handoff nor a native fork.
HasHandoff(p) == job[p].cross /\ Kind(p) # "cursor_ide"

\* A mutant of MayFallBack: an error tagged with RollbackFailed falls back too.
AlwaysFallsBack(p) == ~job[p].only /\ ~muted[p]

MayFallBack(p) == ~job[p].only /\ ~tagged[p] /\ ~muted[p]

FallBack(p) ==
  /\ \/ MayFallBack(p) /\ HasHandoff(p) /\ ~job[p].asks /\ End(p, "fallback", "handoff")
     \/ ~MayFallBack(p) /\ End(p, "fallback", "failed")
     \/ ~job[p].asks /\ ~HasHandoff(p) /\ End(p, "fallback", "failed")
  /\ UNCHANGED <<Flow, Guard, goal, tagged, stored, lineage>>

\* The person at the terminal answers, or cancels.
Answer(p) ==
  /\ MayFallBack(p) /\ job[p].asks
  /\ \/ HasHandoff(p) /\ End(p, "fallback", "handoff")
     \/ job[p].cross /\ End(p, "fallback", "fork")
     \/ End(p, "fallback", "failed")
  /\ UNCHANGED <<Flow, Guard, goal, tagged, stored, lineage>>

\* RetryNativeImport: the source is read again and a new identifier generated.
Retry(p) ==
  /\ MayFallBack(p) /\ job[p].asks /\ attempt[p] < MaxAttempts
  /\ Goto(p, "fallback", "prepare")
  /\ attempt' = [attempt EXCEPT ![p] = @ + 1]
  /\ goal' = [goal EXCEPT ![p] = "none"]
  /\ UNCHANGED <<job, muted, Guard, tagged, outcome, stored, lineage, lock>>

-----------------------------------------------------------------------------
(* Around the command *)

\* The guard turns the first Ctrl+C into a request and restores the default action.
CtrlC(p) ==
  /\ pc[p] # "done" /\ armed[p]
  /\ armed' = [armed EXCEPT ![p] = FALSE]
  /\ requested' = [requested EXCEPT ![p] = TRUE]
  /\ UNCHANGED <<Flow, pc, goal, tagged, outcome, stored, lineage, lock>>

\* Any other Ctrl+C, a kill or a crash.  A provider's process finishes on its own.
Killed(p) ==
  /\ pc[p] # "done" /\ End(p, pc[p], "killed")
  /\ stored' \in {stored}
       \cup {[stored EXCEPT ![Target(p)] = "generated"] :
               k \in IF pc[p] = "write" THEN Helped \cap {Kind(p)} ELSE {}}
       \cup {[stored EXCEPT ![Target(p)] = "absent"] :
               k \in IF pc[p] = "remove" /\ Present(Target(p))
                     THEN Helped \cap {Kind(p)} ELSE {}}
  /\ UNCHANGED <<Flow, Guard, goal, tagged, lineage>>

\* The target agent lists the session, and a person continues it there.  Claude's
\* transcript is renamed before it is compared, so between the two it has no path.
Continue(p, t) ==
  /\ t[1] = p /\ stored[t] = "generated"
  /\ ~(Kind(p) = "claude" /\ pc[p] = "remove" /\ t = Target(p))
  /\ stored' = [stored EXCEPT ![t] = "changed"]
  /\ UNCHANGED <<Flow, Guard, pc, goal, tagged, outcome, lineage, lock>>

\* Another omni deletes the session natively, under the lock of its provider root.
Delete(p, t) ==
  /\ t[1] = p /\ Present(t)
  /\ Kind(p) \in Locked => lock[Kind(p)] = NoProc
  /\ stored' = [stored EXCEPT ![t] = "deleted"]
  /\ UNCHANGED <<Flow, Guard, pc, goal, tagged, outcome, lineage, lock>>

-----------------------------------------------------------------------------

\* The steps omni takes by itself: neither failures nor the answers of a person.
Advance(p) ==
  \/ Prepare(p) \/ Publish(p) \/ Verify(p) \/ Mismatch(p)
  \/ CheckMaterialized(p) \/ Plan(p) \/ CheckPlanned(p) \/ RecordLineage(p)
  \/ Finish(p) \/ Launch(p) \/ BeginRollback(p) \/ Remove(p) \/ RollbackFails(p)
  \/ UndoLineage(p) \/ MaterializationFailed(p) \/ FallBack(p)

Fails(p) ==
  \/ PrepareFails(p) \/ PrepareStops(p) \/ BeginFails(p) \/ ProgressFails(p)
  \/ PublishUnverified(p) \/ WriteFails(p) \/ PlanOrRecordFails(p)

Around(p) ==
  \/ Answer(p) \/ Retry(p) \/ CtrlC(p) \/ Killed(p)
  \/ \E t \in Targets : Continue(p, t) \/ Delete(p, t)

Next == \E p \in Procs : Begin(p) \/ Advance(p) \/ Fails(p) \/ Around(p)

Spec == Init /\ [][Next]_vars

\* omni never waits for anything but the lock of a provider root (a blocking
\* lock_exclusive) and a person's answer.
Fairness == \A p \in Procs : WF_vars(Begin(p)) /\ WF_vars(Advance(p))

FairSpec == Spec /\ Fairness

-----------------------------------------------------------------------------
(* Properties *)

\* The types, and who may hold a lock: a command between its write and its end.
TypeOK ==
  /\ job \in [Procs -> Jobs] /\ attempt \in [Procs -> 1..MaxAttempts]
  /\ pc \in [Procs -> Steps] /\ goal \in [Procs -> Goals]
  /\ tagged \in [Procs -> BOOLEAN] /\ muted \in [Procs -> BOOLEAN]
  /\ armed \in [Procs -> BOOLEAN] /\ requested \in [Procs -> BOOLEAN]
  /\ outcome \in [Procs -> Outcomes]
  /\ stored \in [Targets -> {"absent", "generated", "changed", "deleted"}]
  /\ lineage \subseteq Targets
  /\ lock \in [Locked -> Procs \cup {NoProc}]
  /\ \A k \in Locked, p \in Procs : lock[k] = p =>
       /\ Kind(p) = k
       /\ pc[p] \notin {"prepare", "begin", "failed", "fallback", "done"}

\* From its publication to the spawn of its agent, no other omni deletes a target of a
\* locked kind: the write guard lives across read-back, planning and the store's
\* transaction (RFC 007, "keep provider-root writer lock").
LockedTargetSurvives ==
  \A p \in Procs :
    /\ Kind(p) \in Locked
    /\ pc[p] \in {"verify", "materialized", "plan", "planned", "record", "recorded", "launch"}
    => Present(Target(p))

\* A second transfer, be it a handoff, a fork or a retry, starts only when no attempt
\* before it left a session behind, whatever failed, was retried or was continued by
\* the agent meanwhile.  The kinds of Unreported are the exception.
NothingLeftBeforeSecondTransfer ==
  \A p \in Procs, a \in 1..MaxAttempts :
    /\ Kind(p) \notin Unreported
    /\ a < attempt[p] \/ (a = attempt[p] /\ outcome[p] \in {"handoff", "fork"})
    => ~Present(<<p, a>>)

\* omni reports that it rolled an interrupted import back only when neither the
\* provider nor the OmniSession store holds anything of it.
RolledBackMeansGone ==
  \A p \in Procs : outcome[p] = "rolled_back" =>
    stored[Target(p)] = "absent" /\ Target(p) \notin lineage

\* The lineage of a session that a rollback removed is the trace of a command that
\* said so or was killed: a success never leaves one, nor does a later attempt.
LineageHasItsSession ==
  \A t \in lineage :
    /\ t[2] = attempt[t[1]]
    /\ stored[t] = "absent" =>
         pc[t[1]] = "undo" \/ outcome[t[1]] \in {"failed", "killed"}

\* The launched or created session is one the store records.
SuccessIsRecorded ==
  \A p \in Procs : outcome[p] \in {"launched", "created"} =>
    Target(p) \in lineage /\ stored[Target(p)] # "absent"

\* The recorded lineage and the sessions agree, in both directions.
LineageIsTrue == LineageHasItsSession /\ SuccessIsRecorded

\* Once the guard holds a Ctrl+C, nothing starts any more, whatever the import was
\* doing: no launch, no handoff, no fork and no further attempt.
InterruptStops ==
  [][\A p \in Procs : requested[p] =>
       /\ attempt'[p] = attempt[p]
       /\ outcome'[p] \notin {"launched", "created", "handoff", "fork"}]_vars

\* Every command ends, or asks a person who does not answer: in particular no command
\* waits for ever for a lock, because none is held while a person is asked.
EndsOrAsks ==
  \A p \in Procs :
    <>(pc[p] = "done" \/ (pc[p] = "fallback" /\ job[p].asks))

\* What the source says of the type that marks a failed rollback: "Typed so fallbacks can
\* refuse to launch while a generated session may remain" (transfer.rs:2656).
NoHandoffWhileSessionRemains ==
  \A p \in Procs : outcome[p] = "handoff" => ~Present(Target(p))

\* What the callers of the locked kinds rely on: "the writer already rolls back anything
\* it published before returning an error" (transfer.rs:1700).
LockedWriterErrsClean ==
  \A p \in Procs :
    Kind(p) \in Locked /\ pc[p] = "failed" /\ ~tagged[p] => ~Present(Target(p))
==============================================================================
