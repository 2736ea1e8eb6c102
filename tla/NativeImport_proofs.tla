------------------------- MODULE NativeImport_proofs -------------------------
(***************************************************************************)
(* Proofs about NativeImport, for any number of commands, kinds and        *)
(* retries: its types, what the lock of a provider root protects, and that *)
(* rollback, lineage, interrupts and a second transfer agree with what is  *)
(* in both stores.                                                         *)
(***************************************************************************)
EXTENDS NativeImport, TLAPS

Step(p) == Begin(p) \/ Advance(p) \/ Fails(p) \/ Around(p)

Typed ==
  /\ job \in [Procs -> Jobs] /\ attempt \in [Procs -> 1..MaxAttempts]
  /\ pc \in [Procs -> Steps] /\ goal \in [Procs -> Goals]
  /\ tagged \in [Procs -> BOOLEAN] /\ muted \in [Procs -> BOOLEAN]
  /\ armed \in [Procs -> BOOLEAN] /\ requested \in [Procs -> BOOLEAN]
  /\ outcome \in [Procs -> Outcomes]
  /\ stored \in [Targets -> {"absent", "generated", "changed", "deleted"}]
  /\ lineage \subseteq Targets
  /\ lock \in [Locked -> Procs \cup {NoProc}]

\* The outcome of a rollback keeps the types of all but the store of the provider.
LEMMA AfterRollbackTyped ==
  ASSUME Typed, NEW p \in Procs, NEW here \in Steps, NEW ok \in BOOLEAN,
         AfterRollback(p, here, ok)
  PROVE  /\ UNCHANGED <<job, attempt, muted, armed, requested, goal, lineage>>
         /\ tagged' \in [Procs -> BOOLEAN] /\ pc' \in [Procs -> Steps]
         /\ outcome' \in [Procs -> Outcomes]
         /\ lock' \in [Locked -> Procs \cup {NoProc}]
<1> USE DEF Typed, Goto, Unlock, End, Steps, Outcomes
<1>1. UNCHANGED <<job, attempt, muted, armed, requested, goal, lineage>>
  BY DEF AfterRollback, Flow, Guard
<1>2. tagged' \in [Procs -> BOOLEAN]
  BY DEF AfterRollback
<1>3. pc' \in [Procs -> Steps]
  BY DEF AfterRollback
<1>4. outcome' \in [Procs -> Outcomes]
  BY DEF AfterRollback
<1>5. lock' \in [Locked -> Procs \cup {NoProc}]
  BY DEF AfterRollback
<1> QED
  BY <1>1, <1>2, <1>3, <1>4, <1>5

\* Every step of a command, and around it, keeps the types.
LEMMA TypedStep ==
  ASSUME Typed, NEW p \in Procs, Step(p)
  PROVE  Typed'
<1> USE MaxAttemptsAssumption DEF Typed, Goto, Unlock, Flow, Guard, Target, Targets,
   Steps, Goals, Outcomes
<1>1. CASE Prepare(p)
  BY <1>1 DEF Prepare
<1>2. CASE Begin(p)
  BY <1>2 DEF Begin
<1>3. CASE Publish(p)
  BY <1>3 DEF Publish
<1>4. CASE Verify(p)
  BY <1>4 DEF Verify
<1>5. CASE Mismatch(p)
  BY <1>5 DEF Mismatch
<1>6. CASE CheckMaterialized(p)
  BY <1>6 DEF CheckMaterialized, Check
<1>7. CASE Plan(p)
  BY <1>7 DEF Plan
<1>8. CASE CheckPlanned(p)
  BY <1>8 DEF CheckPlanned, Check
<1>9. CASE RecordLineage(p)
  BY <1>9 DEF RecordLineage
<1>10. CASE Finish(p)
  BY <1>10 DEF Finish, End
<1>11. CASE Launch(p)
  <2>1. PICK result \in {"launched", "failed"} : End(p, "launch", result)
    BY <1>11 DEF Launch
  <2>2. UNCHANGED <<job, attempt, muted, armed, requested, goal, tagged, stored, lineage>>
    BY <1>11 DEF Launch
  <2> QED
    BY <2>1, <2>2 DEF End
<1>12. CASE BeginRollback(p)
  BY <1>12 DEF BeginRollback
<1>13. CASE Remove(p)
  <2>1. PICK ok \in BOOLEAN : AfterRollback(p, "remove", ok)
    BY <1>13 DEF Remove
  <2>2. stored' \in [Targets -> {"absent", "generated", "changed", "deleted"}]
    BY <1>13 DEF Remove
  <2> QED
    BY <2>1, <2>2, AfterRollbackTyped
<1>14. CASE RollbackFails(p)
  <2>1. PICK here \in {"rollback", "remove"} : AfterRollback(p, here, FALSE)
    BY <1>14 DEF RollbackFails
  <2>2. UNCHANGED stored
    BY <1>14 DEF RollbackFails
  <2>3. here \in Steps /\ FALSE \in BOOLEAN
    BY <2>1
  <2>4. /\ UNCHANGED <<job, attempt, muted, armed, requested, goal, lineage>>
        /\ tagged' \in [Procs -> BOOLEAN] /\ pc' \in [Procs -> Steps]
        /\ outcome' \in [Procs -> Outcomes]
        /\ lock' \in [Locked -> Procs \cup {NoProc}]
    BY <2>1, <2>3, AfterRollbackTyped
  <2> QED
    BY <2>2, <2>4
<1>15. CASE UndoLineage(p)
  <2>1. PICK result \in {"rolled_back", "failed"} : End(p, "undo", result)
    BY <1>15 DEF UndoLineage
  <2>2. lineage' \subseteq lineage
    BY <1>15 DEF UndoLineage
  <2>3. UNCHANGED <<job, attempt, muted, armed, requested, goal, tagged, stored>>
    BY <1>15 DEF UndoLineage
  <2> QED
    BY <2>1, <2>2, <2>3 DEF End
<1>16. CASE MaterializationFailed(p)
  BY <1>16 DEF MaterializationFailed, End
<1>17. CASE FallBack(p)
  BY <1>17 DEF FallBack, End
<1>18. CASE PrepareFails(p)
  BY <1>18 DEF PrepareFails
<1>19. CASE PrepareStops(p)
  BY <1>19 DEF PrepareStops, End
<1>20. CASE BeginFails(p)
  BY <1>20 DEF BeginFails
<1>21. CASE ProgressFails(p)
  BY <1>21 DEF ProgressFails
<1>22. CASE PublishUnverified(p)
  BY <1>22 DEF PublishUnverified
<1>23. CASE WriteFails(p)
  BY <1>23 DEF WriteFails
<1>24. CASE PlanOrRecordFails(p)
  BY <1>24 DEF PlanOrRecordFails
<1>25. CASE Answer(p)
  BY <1>25 DEF Answer, End
<1>26. CASE Retry(p)
  BY <1>26 DEF Retry
<1>27. CASE CtrlC(p)
  BY <1>27 DEF CtrlC
<1>28. CASE Killed(p)
  BY <1>28 DEF Killed, End
<1>29. CASE \E t \in Targets : Continue(p, t)
  BY <1>29 DEF Continue
<1>30. CASE \E t \in Targets : Delete(p, t)
  BY <1>30 DEF Delete
<1> QED
  BY <1>1, <1>2, <1>3, <1>4, <1>5, <1>6, <1>7, <1>8, <1>9, <1>10, <1>11, <1>12, <1>13,
     <1>14, <1>15, <1>16, <1>17, <1>18, <1>19, <1>20, <1>21, <1>22, <1>23, <1>24, <1>25,
     <1>26, <1>27, <1>28, <1>29, <1>30 DEF Step, Advance, Fails, Around
-----------------------------------------------------------------------------
(* The lock of a provider root *)

\* A step of another process, or around it, leaves a process, its targets and the lock
\* it holds alone.
LEMMA OtherStep ==
  ASSUME Typed, NEW p \in Procs, Step(p), NEW q \in Procs, q # p
  PROVE  /\ pc'[q] = pc[q] /\ job' = job /\ attempt'[q] = attempt[q]
         /\ goal'[q] = goal[q] /\ tagged'[q] = tagged[q] /\ muted'[q] = muted[q]
         /\ armed'[q] = armed[q] /\ requested'[q] = requested[q]
         /\ outcome'[q] = outcome[q]
         /\ \A k \in Locked : (lock'[k] = q) <=> (lock[k] = q)
         /\ \A a \in 1..MaxAttempts :
              /\ stored'[<<q, a>>] = stored[<<q, a>>]
              /\ (<<q, a>> \in lineage') <=> (<<q, a>> \in lineage)
<1> USE NoProcAssumption, MaxAttemptsAssumption
    DEF Typed, Goto, Unlock, Flow, Guard, Target, Targets
<1>1. CASE Prepare(p)
  BY <1>1 DEF Prepare
<1>2. CASE Begin(p)
  BY <1>2 DEF Begin
<1>3. CASE Publish(p)
  BY <1>3 DEF Publish
<1>4. CASE Verify(p)
  BY <1>4 DEF Verify
<1>5. CASE Mismatch(p)
  BY <1>5 DEF Mismatch
<1>6. CASE CheckMaterialized(p)
  BY <1>6 DEF CheckMaterialized, Check
<1>7. CASE Plan(p)
  BY <1>7 DEF Plan
<1>8. CASE CheckPlanned(p)
  BY <1>8 DEF CheckPlanned, Check
<1>9. CASE RecordLineage(p)
  BY <1>9 DEF RecordLineage
<1>10. CASE Finish(p)
  BY <1>10 DEF Finish, End
<1>11. CASE Launch(p)
  BY <1>11 DEF Launch, End
<1>12. CASE BeginRollback(p)
  BY <1>12 DEF BeginRollback
<1>13. CASE Remove(p)
  BY <1>13 DEF Remove, AfterRollback, End
<1>14. CASE RollbackFails(p)
  BY <1>14 DEF RollbackFails, AfterRollback, End
<1>15. CASE UndoLineage(p)
  BY <1>15 DEF UndoLineage, End
<1>16. CASE MaterializationFailed(p)
  BY <1>16 DEF MaterializationFailed, End
<1>17. CASE FallBack(p)
  BY <1>17 DEF FallBack, End
<1>18. CASE PrepareFails(p)
  BY <1>18 DEF PrepareFails
<1>19. CASE PrepareStops(p)
  BY <1>19 DEF PrepareStops, End
<1>20. CASE BeginFails(p)
  BY <1>20 DEF BeginFails
<1>21. CASE ProgressFails(p)
  BY <1>21 DEF ProgressFails
<1>22. CASE PublishUnverified(p)
  BY <1>22 DEF PublishUnverified
<1>23. CASE WriteFails(p)
  BY <1>23 DEF WriteFails
<1>24. CASE PlanOrRecordFails(p)
  BY <1>24 DEF PlanOrRecordFails
<1>25. CASE Answer(p)
  BY <1>25 DEF Answer, End
<1>26. CASE Retry(p)
  BY <1>26 DEF Retry
<1>27. CASE CtrlC(p)
  BY <1>27 DEF CtrlC
<1>28. CASE Killed(p)
  BY <1>28 DEF Killed, End
<1>29. CASE \E t \in Targets : Continue(p, t)
  BY <1>29 DEF Continue
<1>30. CASE \E t \in Targets : Delete(p, t)
  BY <1>30 DEF Delete
<1> QED
  BY <1>1, <1>2, <1>3, <1>4, <1>5, <1>6, <1>7, <1>8, <1>9, <1>10, <1>11, <1>12, <1>13,
     <1>14, <1>15, <1>16, <1>17, <1>18, <1>19, <1>20, <1>21, <1>22, <1>23, <1>24, <1>25,
     <1>26, <1>27, <1>28, <1>29, <1>30 DEF Step, Advance, Fails, Around

\* Where a command of a locked kind holds its lock.
HoldsLock ==
  {"write", "verify", "materialized", "plan", "planned", "record", "recorded", "launch"}

\* A lock is held by a command of its kind that is past the acquisition and has not
\* returned from its materialization's error; a command between its write and its
\* launch holds its lock, and its published target is there.
LockRule(p) ==
  /\ \A k \in Locked : lock[k] = p =>
       Kind(p) = k /\ pc[p] \notin {"prepare", "begin", "failed", "fallback", "done"}
  /\ Kind(p) \in Locked /\ pc[p] \in HoldsLock => lock[Kind(p)] = p
  /\ Kind(p) \in Locked /\ pc[p] \in HoldsLock \ {"write"} => Present(Target(p))

\* A process' own steps, and what happens around it, keep its lock rule.
LEMMA LockStep ==
  ASSUME Typed, NEW p \in Procs, LockRule(p), Step(p)
  PROVE  LockRule(p)'
<1> USE NoProcAssumption, MaxAttemptsAssumption
    DEF Typed, LockRule, HoldsLock, Goto, Unlock, Flow, Guard, Kind, Target, Targets,
       Present
<1>1. CASE Prepare(p)
  BY <1>1 DEF Prepare
<1>2. CASE Begin(p)
  BY <1>2 DEF Begin
<1>3. CASE Publish(p)
  BY <1>3 DEF Publish
<1>4. CASE Verify(p)
  BY <1>4 DEF Verify
<1>5. CASE Mismatch(p)
  BY <1>5 DEF Mismatch
<1>6. CASE CheckMaterialized(p)
  BY <1>6 DEF CheckMaterialized, Check
<1>7. CASE Plan(p)
  BY <1>7 DEF Plan
<1>8. CASE CheckPlanned(p)
  BY <1>8 DEF CheckPlanned, Check
<1>9. CASE RecordLineage(p)
  BY <1>9 DEF RecordLineage
<1>10. CASE Finish(p)
  BY <1>10 DEF Finish, End
<1>11. CASE Launch(p)
  BY <1>11 DEF Launch, End
<1>12. CASE BeginRollback(p)
  BY <1>12 DEF BeginRollback
<1>13. CASE Remove(p)
  BY <1>13 DEF Remove, AfterRollback, End
<1>14. CASE RollbackFails(p)
  BY <1>14 DEF RollbackFails, AfterRollback, End
<1>15. CASE UndoLineage(p)
  BY <1>15 DEF UndoLineage, End
<1>16. CASE MaterializationFailed(p)
  BY <1>16 DEF MaterializationFailed, End
<1>17. CASE FallBack(p)
  BY <1>17 DEF FallBack, End
<1>18. CASE PrepareFails(p)
  BY <1>18 DEF PrepareFails
<1>19. CASE PrepareStops(p)
  BY <1>19 DEF PrepareStops, End
<1>20. CASE BeginFails(p)
  BY <1>20 DEF BeginFails
<1>21. CASE ProgressFails(p)
  BY <1>21 DEF ProgressFails
<1>22. CASE PublishUnverified(p)
  BY <1>22 DEF PublishUnverified
<1>23. CASE WriteFails(p)
  BY <1>23 DEF WriteFails
<1>24. CASE PlanOrRecordFails(p)
  BY <1>24 DEF PlanOrRecordFails
<1>25. CASE Answer(p)
  BY <1>25 DEF Answer, End
<1>26. CASE Retry(p)
  BY <1>26 DEF Retry
<1>27. CASE CtrlC(p)
  BY <1>27 DEF CtrlC
<1>28. CASE Killed(p)
  BY <1>28 DEF Killed, End
<1>29. CASE \E t \in Targets : Continue(p, t)
  BY <1>29 DEF Continue
<1>30. CASE \E t \in Targets : Delete(p, t)
  BY <1>30 DEF Delete
<1> QED
  BY <1>1, <1>2, <1>3, <1>4, <1>5, <1>6, <1>7, <1>8, <1>9, <1>10, <1>11, <1>12, <1>13,
     <1>14, <1>15, <1>16, <1>17, <1>18, <1>19, <1>20, <1>21, <1>22, <1>23, <1>24, <1>25,
     <1>26, <1>27, <1>28, <1>29, <1>30 DEF Step, Advance, Fails, Around

-----------------------------------------------------------------------------
(* The guard *)

\* A guard is down, and its request unset, wherever something could start; and nothing
\* has started while the request is set.
GuardRule(p) ==
  /\ armed[p] \/ requested[p] => pc[p] \notin {"prepare", "fallback", "launch"}
  /\ requested[p] => outcome[p] \notin {"launched", "created", "handoff", "fork"}
  /\ pc[p] # "done" => outcome[p] = "none"

\* A process' own steps, and what happens around it, keep its guard rule.
LEMMA GuardStep ==
  ASSUME Typed, NEW p \in Procs, GuardRule(p), Step(p)
  PROVE  GuardRule(p)'
<1> USE NoProcAssumption, MaxAttemptsAssumption
    DEF Typed, GuardRule, Goto, Unlock, Flow, Guard, Kind, Target, Targets, Present
<1>1. CASE Prepare(p)
  BY <1>1 DEF Prepare
<1>2. CASE Begin(p)
  BY <1>2 DEF Begin
<1>3. CASE Publish(p)
  BY <1>3 DEF Publish
<1>4. CASE Verify(p)
  BY <1>4 DEF Verify
<1>5. CASE Mismatch(p)
  BY <1>5 DEF Mismatch
<1>6. CASE CheckMaterialized(p)
  BY <1>6 DEF CheckMaterialized, Check
<1>7. CASE Plan(p)
  BY <1>7 DEF Plan
<1>8. CASE CheckPlanned(p)
  BY <1>8 DEF CheckPlanned, Check
<1>9. CASE RecordLineage(p)
  BY <1>9 DEF RecordLineage
<1>10. CASE Finish(p)
  BY <1>10 DEF Finish, End
<1>11. CASE Launch(p)
  BY <1>11 DEF Launch, End
<1>12. CASE BeginRollback(p)
  BY <1>12 DEF BeginRollback
<1>13. CASE Remove(p)
  BY <1>13 DEF Remove, AfterRollback, End
<1>14. CASE RollbackFails(p)
  BY <1>14 DEF RollbackFails, AfterRollback, End
<1>15. CASE UndoLineage(p)
  BY <1>15 DEF UndoLineage, End
<1>16. CASE MaterializationFailed(p)
  BY <1>16 DEF MaterializationFailed, End
<1>17. CASE FallBack(p)
  BY <1>17 DEF FallBack, End
<1>18. CASE PrepareFails(p)
  BY <1>18 DEF PrepareFails
<1>19. CASE PrepareStops(p)
  BY <1>19 DEF PrepareStops, End
<1>20. CASE BeginFails(p)
  BY <1>20 DEF BeginFails
<1>21. CASE ProgressFails(p)
  BY <1>21 DEF ProgressFails
<1>22. CASE PublishUnverified(p)
  BY <1>22 DEF PublishUnverified
<1>23. CASE WriteFails(p)
  BY <1>23 DEF WriteFails
<1>24. CASE PlanOrRecordFails(p)
  BY <1>24 DEF PlanOrRecordFails
<1>25. CASE Answer(p)
  BY <1>25 DEF Answer, End
<1>26. CASE Retry(p)
  BY <1>26 DEF Retry
<1>27. CASE CtrlC(p)
  BY <1>27 DEF CtrlC
<1>28. CASE Killed(p)
  BY <1>28 DEF Killed, End
<1>29. CASE \E t \in Targets : Continue(p, t)
  BY <1>29 DEF Continue
<1>30. CASE \E t \in Targets : Delete(p, t)
  BY <1>30 DEF Delete
<1> QED
  BY <1>1, <1>2, <1>3, <1>4, <1>5, <1>6, <1>7, <1>8, <1>9, <1>10, <1>11, <1>12, <1>13,
     <1>14, <1>15, <1>16, <1>17, <1>18, <1>19, <1>20, <1>21, <1>22, <1>23, <1>24, <1>25,
     <1>26, <1>27, <1>28, <1>29, <1>30 DEF Step, Advance, Fails, Around

-----------------------------------------------------------------------------
(* What a rollback leaves *)

\* A target is recorded only where the flow knows it, later targets are untouched, and
\* a rollback that is reported left nothing.
UndoRule(p) ==
  /\ Target(p) \in lineage =>
       \/ pc[p] \in {"recorded", "launch", "undo", "done"}
       \/ pc[p] \in {"rollback", "remove"} /\ goal[p] = "undo"
  /\ \A a \in 1..MaxAttempts : a > attempt[p] => <<p, a>> \notin lineage
  /\ pc[p] = "undo" => stored[Target(p)] = "absent"
  /\ pc[p] # "done" => outcome[p] = "none"
  /\ outcome[p] = "rolled_back" => stored[Target(p)] = "absent" /\ Target(p) \notin lineage

\* A process' own steps, and what happens around it, keep its undo rule.
LEMMA UndoStep ==
  ASSUME Typed, NEW p \in Procs, UndoRule(p), Step(p)
  PROVE  UndoRule(p)'
<1> USE NoProcAssumption, MaxAttemptsAssumption
    DEF Typed, UndoRule, Goto, Unlock, Flow, Guard, Kind, Target, Targets, Present
<1>1. CASE Prepare(p)
  BY <1>1 DEF Prepare
<1>2. CASE Begin(p)
  BY <1>2 DEF Begin
<1>3. CASE Publish(p)
  BY <1>3 DEF Publish
<1>4. CASE Verify(p)
  BY <1>4 DEF Verify
<1>5. CASE Mismatch(p)
  BY <1>5 DEF Mismatch
<1>6. CASE CheckMaterialized(p)
  BY <1>6 DEF CheckMaterialized, Check
<1>7. CASE Plan(p)
  BY <1>7 DEF Plan
<1>8. CASE CheckPlanned(p)
  BY <1>8 DEF CheckPlanned, Check
<1>9. CASE RecordLineage(p)
  BY <1>9 DEF RecordLineage
<1>10. CASE Finish(p)
  BY <1>10 DEF Finish, End
<1>11. CASE Launch(p)
  BY <1>11 DEF Launch, End
<1>12. CASE BeginRollback(p)
  BY <1>12 DEF BeginRollback
<1>13. CASE Remove(p)
  BY <1>13 DEF Remove, AfterRollback, End
<1>14. CASE RollbackFails(p)
  BY <1>14 DEF RollbackFails, AfterRollback, End
<1>15. CASE UndoLineage(p)
  BY <1>15 DEF UndoLineage, End
<1>16. CASE MaterializationFailed(p)
  BY <1>16 DEF MaterializationFailed, End
<1>17. CASE FallBack(p)
  BY <1>17 DEF FallBack, End
<1>18. CASE PrepareFails(p)
  BY <1>18 DEF PrepareFails
<1>19. CASE PrepareStops(p)
  BY <1>19 DEF PrepareStops, End
<1>20. CASE BeginFails(p)
  BY <1>20 DEF BeginFails
<1>21. CASE ProgressFails(p)
  BY <1>21 DEF ProgressFails
<1>22. CASE PublishUnverified(p)
  BY <1>22 DEF PublishUnverified
<1>23. CASE WriteFails(p)
  BY <1>23 DEF WriteFails
<1>24. CASE PlanOrRecordFails(p)
  BY <1>24 DEF PlanOrRecordFails
<1>25. CASE Answer(p)
  BY <1>25 DEF Answer, End
<1>26. CASE Retry(p)
  BY <1>26 DEF Retry
<1>27. CASE CtrlC(p)
  BY <1>27 DEF CtrlC
<1>28. CASE Killed(p)
  BY <1>28 DEF Killed, End
<1>29. CASE \E t \in Targets : Continue(p, t)
  BY <1>29 DEF Continue
<1>30. CASE \E t \in Targets : Delete(p, t)
  BY <1>30 DEF Delete
<1> QED
  BY <1>1, <1>2, <1>3, <1>4, <1>5, <1>6, <1>7, <1>8, <1>9, <1>10, <1>11, <1>12, <1>13,
     <1>14, <1>15, <1>16, <1>17, <1>18, <1>19, <1>20, <1>21, <1>22, <1>23, <1>24, <1>25,
     <1>26, <1>27, <1>28, <1>29, <1>30 DEF Step, Advance, Fails, Around

\* Where the target of a command has been published and no step of it removed it.
Published ==
  {"verify", "materialized", "plan", "planned", "record", "recorded", "launch",
   "rollback", "remove"}

\* The store records no attempt but the current one; what was published stays until the
\* command removes it; the session of a recorded lineage is missing only where its undoing
\* is under way, failed or was cut off; a success has both.
LineageRule(p) ==
  /\ \A a \in 1..MaxAttempts : <<p, a>> \in lineage => a = attempt[p]
  /\ pc[p] \in Published => stored[Target(p)] # "absent"
  /\ pc[p] \in {"recorded", "launch"} => Target(p) \in lineage
  /\ Target(p) \in lineage /\ stored[Target(p)] = "absent" =>
       pc[p] = "undo" \/ outcome[p] \in {"failed", "killed"}
  /\ outcome[p] \in {"launched", "created"} =>
       Target(p) \in lineage /\ stored[Target(p)] # "absent"

\* A process' own steps, and what happens around it, keep its lineage rule.
LEMMA LineageStep ==
  ASSUME Typed, NEW p \in Procs, UndoRule(p), LineageRule(p), Step(p)
  PROVE  LineageRule(p)'
<1> USE NoProcAssumption, MaxAttemptsAssumption
    DEF Typed, UndoRule, LineageRule, Published, Goto, Unlock, Flow, Guard, Kind, Target,
       Targets, Present
<1>1. CASE Prepare(p)
  BY <1>1 DEF Prepare
<1>2. CASE Begin(p)
  BY <1>2 DEF Begin
<1>3. CASE Publish(p)
  BY <1>3 DEF Publish
<1>4. CASE Verify(p)
  BY <1>4 DEF Verify
<1>5. CASE Mismatch(p)
  BY <1>5 DEF Mismatch
<1>6. CASE CheckMaterialized(p)
  BY <1>6 DEF CheckMaterialized, Check
<1>7. CASE Plan(p)
  BY <1>7 DEF Plan
<1>8. CASE CheckPlanned(p)
  BY <1>8 DEF CheckPlanned, Check
<1>9. CASE RecordLineage(p)
  BY <1>9 DEF RecordLineage
<1>10. CASE Finish(p)
  BY <1>10 DEF Finish, End
<1>11. CASE Launch(p)
  BY <1>11 DEF Launch, End
<1>12. CASE BeginRollback(p)
  BY <1>12 DEF BeginRollback
<1>13. CASE Remove(p)
  BY <1>13 DEF Remove, AfterRollback, End
<1>14. CASE RollbackFails(p)
  BY <1>14 DEF RollbackFails, AfterRollback, End
<1>15. CASE UndoLineage(p)
  BY <1>15 DEF UndoLineage, End
<1>16. CASE MaterializationFailed(p)
  BY <1>16 DEF MaterializationFailed, End
<1>17. CASE FallBack(p)
  BY <1>17 DEF FallBack, End
<1>18. CASE PrepareFails(p)
  BY <1>18 DEF PrepareFails
<1>19. CASE PrepareStops(p)
  BY <1>19 DEF PrepareStops, End
<1>20. CASE BeginFails(p)
  BY <1>20 DEF BeginFails
<1>21. CASE ProgressFails(p)
  BY <1>21 DEF ProgressFails
<1>22. CASE PublishUnverified(p)
  BY <1>22 DEF PublishUnverified
<1>23. CASE WriteFails(p)
  BY <1>23 DEF WriteFails
<1>24. CASE PlanOrRecordFails(p)
  BY <1>24 DEF PlanOrRecordFails
<1>25. CASE Answer(p)
  BY <1>25 DEF Answer, End
<1>26. CASE Retry(p)
  BY <1>26 DEF Retry
<1>27. CASE CtrlC(p)
  BY <1>27 DEF CtrlC
<1>28. CASE Killed(p)
  BY <1>28 DEF Killed, End
<1>29. CASE \E t \in Targets : Continue(p, t)
  BY <1>29 DEF Continue
<1>30. CASE \E t \in Targets : Delete(p, t)
  BY <1>30 DEF Delete
<1> QED
  BY <1>1, <1>2, <1>3, <1>4, <1>5, <1>6, <1>7, <1>8, <1>9, <1>10, <1>11, <1>12, <1>13,
     <1>14, <1>15, <1>16, <1>17, <1>18, <1>19, <1>20, <1>21, <1>22, <1>23, <1>24, <1>25,
     <1>26, <1>27, <1>28, <1>29, <1>30 DEF Step, Advance, Fails, Around

\* Before it writes, a command has nothing stored, and where it may start over only an
\* error that forbids it leaves something.
CleanRule(p) ==
  /\ pc[p] # "done" => outcome[p] = "none"
  /\ \A a \in 1..MaxAttempts : a > attempt[p] => ~Present(<<p, a>>)
  /\ Kind(p) \notin Unreported =>
       /\ \A a \in 1..MaxAttempts : a < attempt[p] => ~Present(<<p, a>>)
       /\ pc[p] \in {"prepare", "begin", "write"} => ~Present(Target(p))
       /\ pc[p] \in {"failed", "fallback"} => tagged[p] \/ muted[p] \/ ~Present(Target(p))
       /\ outcome[p] \in {"handoff", "fork"} => ~Present(Target(p))

\* A process' own steps, and what happens around it, keep its clean rule.
LEMMA CleanStep ==
  ASSUME Typed, NEW p \in Procs, CleanRule(p), Step(p)
  PROVE  CleanRule(p)'
<1> USE NoProcAssumption, MaxAttemptsAssumption
    DEF Typed, CleanRule, MayFallBack, Goto, Unlock, Flow, Guard, Kind, Target, Targets,
       Present
<1>1. CASE Prepare(p)
  BY <1>1 DEF Prepare
<1>2. CASE Begin(p)
  BY <1>2 DEF Begin
<1>3. CASE Publish(p)
  BY <1>3 DEF Publish
<1>4. CASE Verify(p)
  BY <1>4 DEF Verify
<1>5. CASE Mismatch(p)
  BY <1>5 DEF Mismatch
<1>6. CASE CheckMaterialized(p)
  BY <1>6 DEF CheckMaterialized, Check
<1>7. CASE Plan(p)
  BY <1>7 DEF Plan
<1>8. CASE CheckPlanned(p)
  BY <1>8 DEF CheckPlanned, Check
<1>9. CASE RecordLineage(p)
  BY <1>9 DEF RecordLineage
<1>10. CASE Finish(p)
  BY <1>10 DEF Finish, End
<1>11. CASE Launch(p)
  BY <1>11 DEF Launch, End
<1>12. CASE BeginRollback(p)
  BY <1>12 DEF BeginRollback
<1>13. CASE Remove(p)
  BY <1>13 DEF Remove, AfterRollback, End
<1>14. CASE RollbackFails(p)
  <2>1. PICK here \in {"rollback", "remove"} : AfterRollback(p, here, FALSE)
    BY <1>14 DEF RollbackFails
  <2>2. UNCHANGED <<stored, job, attempt>>
    BY <1>14, <2>1 DEF RollbackFails, AfterRollback
  <2>3. pc[p] # "done" /\ tagged'[p]
    BY <2>1 DEF AfterRollback, End
  <2>4. \/ pc'[p] = "failed" /\ outcome' = outcome
        \/ pc'[p] = "done" /\ outcome'[p] = "failed"
    BY <2>1 DEF AfterRollback, End
  <2>5. outcome'[p] \notin {"handoff", "fork"}
    BY <2>3, <2>4
  <2>6. pc'[p] \notin {"prepare", "begin", "write"}
    BY <2>4
  <2> QED
    BY <2>2, <2>3, <2>4, <2>5, <2>6
<1>15. CASE UndoLineage(p)
  BY <1>15 DEF UndoLineage, End
<1>16. CASE MaterializationFailed(p)
  BY <1>16 DEF MaterializationFailed, End
<1>17. CASE FallBack(p)
  BY <1>17 DEF FallBack, End
<1>18. CASE PrepareFails(p)
  BY <1>18 DEF PrepareFails
<1>19. CASE PrepareStops(p)
  BY <1>19 DEF PrepareStops, End
<1>20. CASE BeginFails(p)
  BY <1>20 DEF BeginFails
<1>21. CASE ProgressFails(p)
  BY <1>21 DEF ProgressFails
<1>22. CASE PublishUnverified(p)
  BY <1>22 DEF PublishUnverified
<1>23. CASE WriteFails(p)
  BY <1>23 DEF WriteFails
<1>24. CASE PlanOrRecordFails(p)
  BY <1>24 DEF PlanOrRecordFails
<1>25. CASE Answer(p)
  BY <1>25 DEF Answer, End
<1>26. CASE Retry(p)
  BY <1>26 DEF Retry
<1>27. CASE CtrlC(p)
  BY <1>27 DEF CtrlC
<1>28. CASE Killed(p)
  BY <1>28 DEF Killed, End
<1>29. CASE \E t \in Targets : Continue(p, t)
  BY <1>29 DEF Continue
<1>30. CASE \E t \in Targets : Delete(p, t)
  BY <1>30 DEF Delete
<1> QED
  BY <1>1, <1>2, <1>3, <1>4, <1>5, <1>6, <1>7, <1>8, <1>9, <1>10, <1>11, <1>12, <1>13,
     <1>14, <1>15, <1>16, <1>17, <1>18, <1>19, <1>20, <1>21, <1>22, <1>23, <1>24, <1>25,
     <1>26, <1>27, <1>28, <1>29, <1>30 DEF Step, Advance, Fails, Around
-----------------------------------------------------------------------------
(* The theorems *)

Rule(p) ==
  LockRule(p) /\ GuardRule(p) /\ UndoRule(p) /\ LineageRule(p) /\ CleanRule(p)

IInv == Typed /\ \A p \in Procs : Rule(p)

\* The invariant holds initially.
LEMMA InitInv == Init => IInv
<1> SUFFICES ASSUME Init PROVE IInv
  OBVIOUS
<1> USE MaxAttemptsAssumption, NoProcAssumption DEF Init, Target, Targets
<1>1. Typed
  BY DEF Typed, Steps, Goals, Outcomes
<1>2. ASSUME NEW p \in Procs PROVE LockRule(p) /\ GuardRule(p)
  BY DEF LockRule, HoldsLock, GuardRule
<1>3. ASSUME NEW p \in Procs PROVE UndoRule(p) /\ CleanRule(p)
  BY DEF UndoRule, CleanRule, Present
<1>4. ASSUME NEW p \in Procs PROVE LineageRule(p)
  BY DEF LineageRule, Published
<1> QED
  BY <1>1, <1>2, <1>3, <1>4 DEF IInv, Rule

\* Every step keeps the invariant.
LEMMA StepInv == IInv /\ [Next]_vars => IInv'
<1> SUFFICES ASSUME IInv, [Next]_vars PROVE IInv'
  OBVIOUS
<1>1. CASE UNCHANGED vars
  <2>1. Typed'
    BY <1>1 DEF IInv, Typed, vars
  <2>2. ASSUME NEW p \in Procs PROVE LockRule(p)' /\ GuardRule(p)'
    BY <1>1 DEF IInv, Rule, LockRule, GuardRule, vars, Kind, Present, Target
  <2>3. ASSUME NEW p \in Procs PROVE UndoRule(p)' /\ CleanRule(p)'
    BY <1>1 DEF IInv, Rule, UndoRule, CleanRule, vars, Kind, Present, Target
  <2>4. ASSUME NEW p \in Procs PROVE LineageRule(p)'
    BY <1>1 DEF IInv, Rule, LineageRule, vars, Target
  <2> QED
    BY <2>1, <2>2, <2>3, <2>4 DEF IInv, Rule
<1>2. ASSUME NEW p \in Procs, Step(p) PROVE IInv'
  <2>1. Typed'
    BY <1>2, TypedStep DEF IInv
  <2>2. Rule(p)'
    BY <1>2, LockStep, GuardStep, UndoStep, LineageStep, CleanStep DEF IInv, Rule
  <2>3. ASSUME NEW q \in Procs, q # p PROVE Rule(q)'
    <3>1. Typed /\ Rule(q) /\ attempt[q] \in 1..MaxAttempts
      BY DEF IInv, Typed
    <3>2. LockRule(q)' /\ GuardRule(q)'
      BY <1>2, <2>3, <3>1, OtherStep DEF Rule, LockRule, GuardRule, Kind, Present, Target
    <3>3. UndoRule(q)' /\ CleanRule(q)'
      BY <1>2, <2>3, <3>1, OtherStep DEF Rule, UndoRule, CleanRule, Kind, Present, Target
    <3>4. LineageRule(q)'
      BY <1>2, <2>3, <3>1, OtherStep DEF Rule, LineageRule, Target
    <3> QED
      BY <3>2, <3>3, <3>4 DEF Rule
  <2> QED
    BY <2>1, <2>2, <2>3 DEF IInv
<1> QED
  BY <1>1, <1>2 DEF Next, Step

\* The types, and who may hold a lock.
THEOREM ImportTypeCorrect == Spec => []TypeOK
<1>1. IInv => TypeOK
  BY DEF IInv, Typed, Rule, LockRule, TypeOK
<1> QED
  BY InitInv, StepInv, <1>1, PTL DEF Spec

\* The write guard protects a published target of a locked kind from every other omni
\* until its agent is spawned (run_private_import_launch, transfer.rs:2250).
THEOREM LockProtects == Spec => []LockedTargetSurvives
<1>1. IInv => LockedTargetSurvives
  BY DEF IInv, Rule, LockRule, HoldsLock, LockedTargetSurvives
<1> QED
  BY InitInv, StepInv, <1>1, PTL DEF Spec

\* A second transfer starts only over nothing, whatever the number of retries
\* (native_import_fallback, transfer.rs:1055).
THEOREM OneTransfer == Spec => []NothingLeftBeforeSecondTransfer
<1>1. IInv => NothingLeftBeforeSecondTransfer
  <2> SUFFICES ASSUME IInv, NEW p \in Procs, NEW a \in 1..MaxAttempts,
                      Kind(p) \notin Unreported,
                      a < attempt[p] \/ (a = attempt[p] /\ outcome[p] \in {"handoff", "fork"})
               PROVE  ~Present(<<p, a>>)
    BY DEF NothingLeftBeforeSecondTransfer
  <2>1. CleanRule(p)
    BY DEF IInv, Rule
  <2> QED
    BY <2>1 DEF CleanRule, Target
<1> QED
  BY InitInv, StepInv, <1>1, PTL DEF Spec

\* A rollback that is reported to the user is complete, in the provider's store and in
\* omni's own (interrupted_import, transfer.rs:1465).
THEOREM RollbackComplete == Spec => []RolledBackMeansGone
<1>1. IInv => RolledBackMeansGone
  BY DEF IInv, Rule, UndoRule, RolledBackMeansGone
<1> QED
  BY InitInv, StepInv, <1>1, PTL DEF Spec

\* The lineage the store records and the sessions in the providers' stores agree in both
\* directions: no lineage without its session but where its undoing failed or was cut off,
\* no success without both (RecordedLineage, transfer.rs).
THEOREM LineageAgrees == Spec => []LineageIsTrue
<1>1. IInv => LineageHasItsSession
  <2> SUFFICES ASSUME IInv, NEW t \in lineage
               PROVE  /\ t[2] = attempt[t[1]]
                      /\ stored[t] = "absent" =>
                           pc[t[1]] = "undo" \/ outcome[t[1]] \in {"failed", "killed"}
    BY DEF LineageHasItsSession
  <2>1. PICK p \in Procs, a \in 1..MaxAttempts : t = <<p, a>>
    BY DEF IInv, Typed, Targets
  <2>2. LineageRule(p)
    BY DEF IInv, Rule
  <2>3. t[1] = p /\ t[2] = a /\ a = attempt[p]
    BY <2>1, <2>2 DEF LineageRule
  <2> QED
    BY <2>1, <2>2, <2>3 DEF LineageRule, Target
<1>2. IInv => SuccessIsRecorded
  BY DEF IInv, Rule, LineageRule, SuccessIsRecorded
<1> QED
  BY InitInv, StepInv, <1>1, <1>2, PTL DEF Spec, LineageIsTrue

\* Where a Ctrl+C is held, no step starts anything (ImportInterrupt, transfer.rs:1369).
LEMMA RequestStops ==
  ASSUME Typed, NEW p \in Procs, GuardRule(p), requested[p], Step(p)
  PROVE  attempt'[p] = attempt[p]
         /\ outcome'[p] \notin {"launched", "created", "handoff", "fork"}
<1> USE DEF Typed, GuardRule, Goto, Flow
<1>1. CASE Prepare(p)
  BY <1>1 DEF Prepare
<1>2. CASE Begin(p)
  BY <1>2 DEF Begin
<1>3. CASE Publish(p)
  BY <1>3 DEF Publish
<1>4. CASE Verify(p)
  BY <1>4 DEF Verify
<1>5. CASE Mismatch(p)
  BY <1>5 DEF Mismatch
<1>6. CASE CheckMaterialized(p)
  BY <1>6 DEF CheckMaterialized, Check
<1>7. CASE Plan(p)
  BY <1>7 DEF Plan
<1>8. CASE CheckPlanned(p)
  BY <1>8 DEF CheckPlanned, Check
<1>9. CASE RecordLineage(p)
  BY <1>9 DEF RecordLineage
<1>10. CASE Finish(p)
  BY <1>10 DEF Finish, End
<1>11. CASE Launch(p)
  BY <1>11 DEF Launch, End
<1>12. CASE BeginRollback(p)
  BY <1>12 DEF BeginRollback
<1>13. CASE Remove(p)
  BY <1>13 DEF Remove, AfterRollback, End
<1>14. CASE RollbackFails(p)
  BY <1>14 DEF RollbackFails, AfterRollback, End
<1>15. CASE UndoLineage(p)
  BY <1>15 DEF UndoLineage, End
<1>16. CASE MaterializationFailed(p)
  BY <1>16 DEF MaterializationFailed, End
<1>17. CASE FallBack(p)
  BY <1>17 DEF FallBack, End
<1>18. CASE PrepareFails(p)
  BY <1>18 DEF PrepareFails
<1>19. CASE PrepareStops(p)
  BY <1>19 DEF PrepareStops, End
<1>20. CASE BeginFails(p)
  BY <1>20 DEF BeginFails
<1>21. CASE ProgressFails(p)
  BY <1>21 DEF ProgressFails
<1>22. CASE PublishUnverified(p)
  BY <1>22 DEF PublishUnverified
<1>23. CASE WriteFails(p)
  BY <1>23 DEF WriteFails
<1>24. CASE PlanOrRecordFails(p)
  BY <1>24 DEF PlanOrRecordFails
<1>25. CASE Answer(p)
  BY <1>25 DEF Answer, End
<1>26. CASE Retry(p)
  BY <1>26 DEF Retry
<1>27. CASE CtrlC(p)
  BY <1>27 DEF CtrlC
<1>28. CASE Killed(p)
  BY <1>28 DEF Killed, End
<1>29. CASE \E t \in Targets : Continue(p, t)
  BY <1>29 DEF Continue
<1>30. CASE \E t \in Targets : Delete(p, t)
  BY <1>30 DEF Delete
<1> QED
  BY <1>1, <1>2, <1>3, <1>4, <1>5, <1>6, <1>7, <1>8, <1>9, <1>10, <1>11, <1>12, <1>13,
     <1>14, <1>15, <1>16, <1>17, <1>18, <1>19, <1>20, <1>21, <1>22, <1>23, <1>24, <1>25,
     <1>26, <1>27, <1>28, <1>29, <1>30 DEF Step, Advance, Fails, Around

\* A Ctrl+C that the guard holds is final (ImportInterrupt, transfer.rs:1369).
THEOREM InterruptIsFinal == Spec => InterruptStops
<1>1. IInv /\ [Next]_vars =>
        \A p \in Procs : requested[p] =>
          /\ attempt'[p] = attempt[p]
          /\ outcome'[p] \notin {"launched", "created", "handoff", "fork"}
  <2> SUFFICES ASSUME IInv, [Next]_vars, NEW p \in Procs, requested[p]
               PROVE  /\ attempt'[p] = attempt[p]
                      /\ outcome'[p] \notin {"launched", "created", "handoff", "fork"}
    OBVIOUS
  <2>1. Typed /\ GuardRule(p)
    BY DEF IInv, Rule
  <2>2. CASE UNCHANGED vars
    BY <2>1, <2>2 DEF GuardRule, vars
  <2>3. CASE Step(p)
    BY <2>1, <2>3, RequestStops
  <2>4. ASSUME NEW q \in Procs, q # p, Step(q)
        PROVE  attempt'[p] = attempt[p] /\ outcome'[p] = outcome[p]
    BY <2>1, <2>4, OtherStep
  <2> QED
    BY <2>1, <2>2, <2>3, <2>4 DEF GuardRule, Next, Step
<1> QED
  BY InitInv, StepInv, <1>1, PTL DEF Spec, InterruptStops
==============================================================================
