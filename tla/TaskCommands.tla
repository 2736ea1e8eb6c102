---------------------------- MODULE TaskCommands -----------------------------
(***************************************************************************)
(* The commands of omni that read and move task branch heads, run by       *)
(* several terminals at once over one OmniSession store (main.rs and       *)
(* transfer.rs of omnis-cli over lib.rs of omnis-store), in one workspace. *)
(*                                                                         *)
(* A store transaction is one step (immediate_transaction), and so is an   *)
(* autocommitted read.  Between its steps a command works without any      *)
(* lock: it validates a session, runs an agent, imports a session.  Each   *)
(* process runs one command and may stop forever after any of its steps,   *)
(* which is what a crash or a kill looks like from the store.              *)
(***************************************************************************)
EXTENDS BranchHeads

CONSTANTS
  Procs,      \* the omni processes
  Natives,    \* the sessions that exist before any command runs
  Tasks,      \* task names of the workspace
  Branches,   \* branch names
  Commands,   \* the commands the processes may run
  NoTask,
  NoSession

ASSUME NoTaskAssumption == NoTask \notin Tasks
ASSUME BranchesAssumption == Branches # {}

CommandNames ==
  {"start", "checkout", "bind", "switch", "resume", "advance", "delete"}

\* The session that the import or the native fork of process p generates: every
\* process draws a fresh identifier.
Generated(p) == <<"generated", p>>

Sessions == Natives \cup {Generated(p) : p \in Procs}

ASSUME NoSessionAssumption == NoSession \notin Sessions

Slots == Tasks \X Branches

VARIABLES
  tasks,     \* the tasks table
  selected,  \* task_selections: the selected task of the workspace
  rows,      \* session_bindings
  handoffs,  \* the source and target of every handoff recorded
  exists,    \* the sessions their providers hold natively
  pc,        \* where each command is
  arg,       \* what each command holds in its local variables
  over       \* history: for every row, the head its insertion replaced, or zero

vars == <<tasks, selected, rows, handoffs, exists, pc, arg, over>>

Args == [task : Tasks \cup {NoTask}, branch : Branches,
         session : Sessions \cup {NoSession},
         source : Sessions \cup {NoSession}, head : Nat]

Steps ==
  {"idle", "start", "bind_select", "bind_read", "bind", "switch_read",
   "continue", "rebind", "record_import", "finish_import", "undo",
   "record_fork", "advance", "forget", "done"}

Slot(p) == <<arg[p].task, arg[p].branch>>

\* The session a branch read returns.
HeadSession(slot) ==
  LET id == HeadId(rows, slot)
  IN  IF id = 0 THEN NoSession ELSE rows[id].session

Init ==
  /\ tasks = {} /\ selected = NoTask
  /\ rows = <<>> /\ handoffs = {}
  /\ exists = Natives
  /\ pc = [p \in Procs |-> "idle"]
  /\ arg = [p \in Procs |->
              [task |-> NoTask, branch |-> CHOOSE b \in Branches : TRUE,
               session |-> NoSession, source |-> NoSession, head |-> 0]]
  /\ over = <<>>

Goto(p, here, there) == pc[p] = here /\ pc' = [pc EXCEPT ![p] = there]

Begins(p, command, there) == command \in Commands /\ Goto(p, "idle", there)

Bind(p, session) ==
  /\ rows' = ReplaceBranchHead(rows, Slot(p), session)
  /\ over' = Append(over, HeadId(rows, Slot(p)))

-----------------------------------------------------------------------------
(* omni task start NAME, omni checkout NAME *)

StartUnbound(p) ==
  /\ Begins(p, "start", "done")
  /\ \E t \in Tasks : tasks' = tasks \cup {t} /\ selected' = t
  /\ UNCHANGED <<rows, handoffs, exists, arg, over>>

\* `--from` is validated by reading the session; the transaction runs later.
StartValidate(p) ==
  /\ Begins(p, "start", "start")
  /\ \E t \in Tasks, b \in Branches, s \in exists :
       arg' = [arg EXCEPT ![p].task = t, ![p].branch = b, ![p].session = s]
  /\ UNCHANGED <<tasks, selected, rows, handoffs, exists, over>>

StartTask(p) ==
  /\ Goto(p, "start", "done")
  /\ tasks' = tasks \cup {arg[p].task}
  /\ selected' = arg[p].task
  /\ Bind(p, arg[p].session)
  /\ UNCHANGED <<handoffs, exists, arg>>

Checkout(p) ==
  /\ Begins(p, "checkout", "done")
  /\ selected' \in tasks
  /\ UNCHANGED <<tasks, rows, handoffs, exists, arg, over>>

-----------------------------------------------------------------------------
(* omni task bind PROVIDER:ID *)

BindValidate(p) ==
  /\ Begins(p, "bind", "bind_select")
  /\ \E b \in Branches, s \in exists :
       arg' = [arg EXCEPT ![p].branch = b, ![p].session = s]
  /\ UNCHANGED <<tasks, selected, rows, handoffs, exists, over>>

BindSelect(p) ==
  /\ Goto(p, "bind_select", IF selected = NoTask THEN "done" ELSE "bind_read")
  /\ arg' = [arg EXCEPT ![p].task = selected]
  /\ UNCHANGED <<tasks, selected, rows, handoffs, exists, over>>

\* A prior head that cannot be read leaves the new binding without lineage.
BindRead(p) ==
  /\ Goto(p, "bind_read", "bind")
  /\ \E source \in {NoSession} \cup
                   ({HeadSession(Slot(p))} \cap (exists \ {arg[p].session})) :
       arg' = [arg EXCEPT ![p].head = HeadId(rows, Slot(p)), ![p].source = source]
  /\ UNCHANGED <<tasks, selected, rows, handoffs, exists, over>>

\* record_handoff_and_bind with lineage, bind_session without: both replace
\* whatever the head is by now.
BindSession(p) ==
  /\ Goto(p, "bind", "done")
  /\ handoffs' = IF arg[p].source = NoSession THEN handoffs
                 ELSE handoffs \cup {<<arg[p].source, arg[p].session>>}
  /\ Bind(p, arg[p].session)
  /\ UNCHANGED <<tasks, selected, exists, arg>>

-----------------------------------------------------------------------------
(* omni switch, and the continuation it shares with omni resume *)

SwitchSelect(p) ==
  /\ Begins(p, "switch", "switch_read")
  /\ selected # NoTask
  /\ \E b \in Branches :
       arg' = [arg EXCEPT ![p].task = selected, ![p].branch = b]
  /\ UNCHANGED <<tasks, selected, rows, handoffs, exists, over>>

\* A mutant of SwitchRead: a branch without a head is continued all the same.
SwitchReadAnything(p) ==
  /\ Goto(p, "switch_read", "continue")
  /\ arg' = [arg EXCEPT ![p].head = HeadId(rows, Slot(p)),
                        ![p].source = HeadSession(Slot(p))]
  /\ UNCHANGED <<tasks, selected, rows, handoffs, exists, over>>

SwitchRead(p) ==
  /\ \/ HeadSession(Slot(p)) # NoSession /\ Goto(p, "switch_read", "continue")
     \/ HeadSession(Slot(p)) = NoSession /\ Goto(p, "switch_read", "done")
  /\ arg' = [arg EXCEPT ![p].head = HeadId(rows, Slot(p)),
                        ![p].source = HeadSession(Slot(p))]
  /\ UNCHANGED <<tasks, selected, rows, handoffs, exists, over>>

\* omni resume SOURCE passes no task binding.
ResumeSource(p) ==
  /\ Begins(p, "resume", "continue")
  /\ \E s \in exists : arg' = [arg EXCEPT ![p].source = s]
  /\ UNCHANGED <<tasks, selected, rows, handoffs, exists, over>>

\* The import failed and fell back, or the launch did: nothing is bound.
EndUnbound(p) ==
  /\ Goto(p, "continue", "done")
  /\ UNCHANGED <<tasks, selected, rows, handoffs, exists, arg, over>>

\* The same provider: the agent runs in place, and its session is bound after.
RunInPlace(p) ==
  /\ arg[p].task # NoTask /\ arg[p].source \in exists
  /\ Goto(p, "continue", "rebind")
  /\ UNCHANGED <<tasks, selected, rows, handoffs, exists, arg, over>>

Rebind(p) ==
  /\ Goto(p, "rebind", "done")
  /\ Bind(p, arg[p].source)
  /\ UNCHANGED <<tasks, selected, handoffs, exists, arg>>

\* Another provider: a native import publishes and verifies a generated session;
\* or, after a failed import, the source's own agent forks it and exits.
Generate(p) ==
  /\ arg[p].source \in exists
  /\ \/ Goto(p, "continue", "record_import")
     \/ Goto(p, "continue", "record_fork")
  /\ exists' = exists \cup {Generated(p)}
  /\ arg' = [arg EXCEPT ![p].session = Generated(p)]
  /\ UNCHANGED <<tasks, selected, rows, handoffs, over>>

\* The handoff, and with a task binding the new head, in one transaction.
RecordLineage(p) ==
  /\ \/ Goto(p, "record_import", "finish_import")
     \/ Goto(p, "record_fork", "done")
  /\ handoffs' = handoffs \cup {<<arg[p].source, arg[p].session>>}
  /\ \/ /\ arg[p].task # NoTask
        /\ Bind(p, arg[p].session)
     \/ arg[p].task = NoTask /\ UNCHANGED <<rows, over>>
  /\ UNCHANGED <<tasks, selected, exists, arg>>

\* Ctrl+C at a checkpoint before the store changed, or a failed plan or
\* transaction: the generated session is rolled back, or remains.
RollBackUnrecorded(p) ==
  /\ Goto(p, "record_import", "done")
  /\ exists' \in {exists, exists \ {arg[p].session}}
  /\ UNCHANGED <<tasks, selected, rows, handoffs, arg, over>>

\* record_native_fork_lineage warns when the store cannot be written.
ForkUnrecorded(p) ==
  /\ Goto(p, "record_fork", "done")
  /\ UNCHANGED <<tasks, selected, rows, handoffs, exists, arg, over>>

\* Without Ctrl+C the agent launches; with it, a rollback that fails keeps the
\* lineage, which still describes the session that remains.
KeepImport(p) ==
  /\ Goto(p, "finish_import", "done")
  /\ UNCHANGED <<tasks, selected, rows, handoffs, exists, arg, over>>

InterruptImport(p) ==
  /\ Goto(p, "finish_import", "undo")
  /\ exists' = exists \ {arg[p].session}
  /\ UNCHANGED <<tasks, selected, rows, handoffs, arg, over>>

UndoLineage(p) ==
  /\ Goto(p, "undo", "done")
  /\ rows' = IF arg[p].task = NoTask THEN ForgetSession(rows, arg[p].session)
             ELSE RestoreReplacedHead(rows, Slot(p), arg[p].session)
  /\ over' = IF Len(rows') > Len(rows) THEN Append(over, 0) ELSE over
  /\ UNCHANGED <<tasks, selected, handoffs, exists, arg>>

UndoFails(p) ==
  /\ Goto(p, "undo", "done")
  /\ UNCHANGED <<tasks, selected, rows, handoffs, exists, arg, over>>

-----------------------------------------------------------------------------
(* A caller of record_handoff_and_advance_head, the store's compare-and-swap *)

AdvanceRead(p) ==
  /\ Begins(p, "advance", "advance")
  /\ \E t \in tasks, b \in Branches, s \in exists :
       /\ HeadId(rows, <<t, b>>) # 0
       /\ arg' = [arg EXCEPT ![p] =
                    [task |-> t, branch |-> b, session |-> s,
                     source |-> HeadSession(<<t, b>>), head |-> HeadId(rows, <<t, b>>)]]
  /\ UNCHANGED <<tasks, selected, rows, handoffs, exists, over>>

\* A mutant of AdvanceHead: the head is replaced without the comparison.
AdvanceAnyHead(p) ==
  /\ Goto(p, "advance", "done")
  /\ handoffs' = handoffs \cup {<<arg[p].source, arg[p].session>>}
  /\ Bind(p, arg[p].session)
  /\ UNCHANGED <<tasks, selected, exists, arg>>

AdvanceHead(p) ==
  /\ Goto(p, "advance", "done")
  /\ \/ /\ HeadId(rows, Slot(p)) = arg[p].head
        /\ handoffs' = handoffs \cup {<<arg[p].source, arg[p].session>>}
        /\ Bind(p, arg[p].session)
     \/ HeadId(rows, Slot(p)) # arg[p].head /\ UNCHANGED <<rows, handoffs, over>>
  /\ UNCHANGED <<tasks, selected, exists, arg>>

-----------------------------------------------------------------------------
(* The picker's native deletion, which forgets the session afterwards and   *)
(* ignores a store that cannot be written.                                  *)

DeleteNative(p) ==
  /\ Begins(p, "delete", "forget")
  /\ \E s \in exists :
       /\ exists' = exists \ {s}
       /\ arg' = [arg EXCEPT ![p].session = s]
  /\ UNCHANGED <<tasks, selected, rows, handoffs, over>>

ForgetDeleted(p) ==
  /\ Goto(p, "forget", "done")
  /\ rows' \in {rows, ForgetSession(rows, arg[p].session)}
  /\ UNCHANGED <<tasks, selected, handoffs, exists, arg, over>>

-----------------------------------------------------------------------------

Step(p) ==
  \/ StartUnbound(p) \/ StartValidate(p) \/ StartTask(p) \/ Checkout(p)
  \/ BindValidate(p) \/ BindSelect(p) \/ BindRead(p) \/ BindSession(p)
  \/ SwitchSelect(p) \/ SwitchRead(p) \/ ResumeSource(p) \/ EndUnbound(p)
  \/ RunInPlace(p) \/ Rebind(p) \/ Generate(p) \/ RecordLineage(p)
  \/ RollBackUnrecorded(p) \/ ForkUnrecorded(p) \/ KeepImport(p)
  \/ InterruptImport(p) \/ UndoLineage(p) \/ UndoFails(p)
  \/ AdvanceRead(p) \/ AdvanceHead(p) \/ DeleteNative(p) \/ ForgetDeleted(p)

Next == \E p \in Procs : Step(p)

Spec == Init /\ [][Next]_vars

-----------------------------------------------------------------------------
(* Properties *)

\* The types of the variables, and the locals a command relies on at each step:
\* what it binds is a session, and only a branch with a head is continued.
TypeOK ==
  /\ tasks \subseteq Tasks /\ selected \in tasks \cup {NoTask}
  /\ rows \in Seq(Row(Slots, Sessions))
  /\ handoffs \subseteq Sessions \X Sessions
  /\ exists \subseteq Sessions
  /\ pc \in [Procs -> Steps]
  /\ arg \in [Procs -> Args]
  /\ over \in Seq(Nat) /\ Len(over) = Len(rows)
  /\ \A p \in Procs :
       /\ pc[p] \in {"start", "bind_read", "bind", "switch_read", "rebind", "advance"}
            => arg[p].task \in Tasks
       /\ pc[p] \in {"start", "bind_select", "bind_read", "bind", "record_import",
                      "finish_import", "undo", "record_fork", "advance", "forget"}
            => arg[p].session \in Sessions
       /\ pc[p] \in {"continue", "rebind", "record_import", "record_fork", "advance"}
            => arg[p].source \in Sessions

\* The head of a branch is its newest binding, so a branch has at most one head:
\* no interleaving of the transactions meets the unique index
\* current_session_binding_per_branch, and the id order by which an undo looks
\* for the replaced binding is the order in which bindings were heads.
HeadIsNewestRow ==
  \A slot \in Slots : \A i \in CurrentIds(rows, slot), j \in RowsOf(rows, slot) : j <= i

\* The head that a binding replaced is the binding before it in its branch.  So the
\* undo, which looks for the binding before, finds the replaced head whenever there
\* is one (the premise of UndoRestoresReplacedHead).
ReplacedIsPrevious ==
  \A i \in 1..Len(rows) : over[i] # 0 =>
    /\ over[i] \in RowsOf(rows, rows[i].slot) /\ over[i] < i
    /\ \A j \in RowsOf(rows, rows[i].slot) : j < i => j <= over[i]

\* Bindings are history: a step of a command never removes or rewrites one, and
\* never makes an old binding current again in place; undoing inserts a new one.
HistoryKept ==
  /\ Len(rows) <= Len(rows')
  /\ \A i \in DOMAIN rows :
       /\ rows'[i].slot = rows[i].slot /\ rows'[i].session = rows[i].session
       /\ rows'[i].current => rows[i].current

\* record_handoff_and_advance_head writes the handoff and the head or neither,
\* and the handoff it writes starts at the head it replaced: no binding of
\* another command is lost between the caller's read and its write.
AdvanceExact(p) ==
  pc[p] = "advance" /\ pc'[p] = "done" =>
    \/ UNCHANGED <<rows, handoffs>>
    \/ /\ <<HeadSession(Slot(p)), arg[p].session>> \in handoffs'
       /\ HeadSession(Slot(p)) # NoSession
       /\ HeadId(rows, Slot(p)) = arg[p].head
       /\ HeadSession(Slot(p))' = arg[p].session

\* Forgetting a session, after a deletion or an undo, takes exactly that session
\* off the branches it heads: every other branch keeps its head.
ForgetExact(p) ==
  pc[p] \in {"forget", "undo"} /\ pc'[p] = "done" /\ rows' # rows =>
    \A slot \in Slots :
      \/ pc[p] = "undo" /\ slot = Slot(p)
      \/ HeadSession(slot)' = IF HeadSession(slot) = arg[p].session THEN NoSession
                             ELSE HeadSession(slot)

\* Commands write exactly what they say: the three of them together.
WritesAreExact == [][HistoryKept /\ \A p \in Procs : AdvanceExact(p) /\ ForgetExact(p)]_vars

\* An undo that finds its session still the head, through a binding that replaced
\* a head, gives the branch exactly that head back: the search for the last earlier
\* binding never finds another one.  A head that another command moved stays.
UndoExact(p) ==
  LET head == HeadId(rows, Slot(p))
  IN  pc[p] = "undo" /\ pc'[p] = "done" /\ rows' # rows /\ arg[p].task # NoTask =>
        /\ HeadSession(Slot(p)) = arg[p].session
        /\ over[head] # 0 => HeadSession(Slot(p))' = rows[over[head]].session

UndoRestoresReplacedHead == [][\A p \in Procs : UndoExact(p)]_vars

\* What the store documents for every undo that finds its session still the head:
\* "The binding it replaced, if any, is the head again" (lib.rs:388).
UndoAsDocumented ==
  [][\A p \in Procs :
       LET head == HeadId(rows, Slot(p))
       IN  pc[p] = "undo" /\ pc'[p] = "done" /\ rows' # rows /\ arg[p].task # NoTask =>
             HeadSession(Slot(p))' =
               IF over[head] = 0 THEN NoSession ELSE rows[over[head]].session]_vars

\* What the store's documentation says of the commands that read a head, work and
\* then advance it: "a head that a concurrent command moved in the meantime is
\* never replaced" (lib.rs:842).
MovedHeadNeverReplaced ==
  [][\A p \in Procs :
       /\ pc[p] \in {"bind", "rebind", "record_import", "record_fork", "advance"}
       /\ pc'[p] # pc[p] /\ rows' # rows /\ arg[p].head # 0
       => HeadId(rows, Slot(p)) \in {0, arg[p].head}]_vars
==============================================================================
