----------------------------- MODULE BranchHeads -----------------------------
(***************************************************************************)
(* The session_bindings table of omnis-store and the statements that the   *)
(* store's transactions run against it.  A row is never deleted, so the    *)
(* table is the sequence of its rows and a row's id is its position.       *)
(*                                                                         *)
(* A slot is a task branch: the pair <<task_id, branch_name>>.             *)
(***************************************************************************)
EXTENDS Naturals, Sequences

Row(Slots, Sessions) ==
  [slot : Slots, session : Sessions, current : BOOLEAN]

Binding(slot, session) ==
  [slot |-> slot, session |-> session, current |-> TRUE]

RowsOf(rows, slot) == {i \in DOMAIN rows : rows[i].slot = slot}

\* The rows with is_current = 1.
CurrentIds(rows, slot) == {i \in RowsOf(rows, slot) : rows[i].current}

\* SELECT id ... WHERE is_current = 1; zero when the branch has no head.
HeadId(rows, slot) ==
  IF CurrentIds(rows, slot) = {} THEN 0
  ELSE CHOOSE i \in CurrentIds(rows, slot) : TRUE

\* A mutant of LastIdBefore: the ORDER BY without DESC.
FirstIdBefore(rows, slot, id) ==
  LET earlier == {i \in RowsOf(rows, slot) : i < id}
  IN  IF earlier = {} THEN 0
      ELSE CHOOSE i \in earlier : \A j \in earlier : i <= j

\* ORDER BY id DESC LIMIT 1, among the rows of the branch below id.
LastIdBefore(rows, slot, id) ==
  LET earlier == {i \in RowsOf(rows, slot) : i < id}
  IN  IF earlier = {} THEN 0
      ELSE CHOOSE i \in earlier : \A j \in earlier : j <= i

\* UPDATE session_bindings SET is_current = 0 for the rows ids.
Deactivated(rows, ids) ==
  [i \in 1..Len(rows) |->
     IF i \in ids THEN [rows[i] EXCEPT !.current = FALSE] ELSE rows[i]]

\* A mutant of ReplaceBranchHead: the INSERT without the UPDATE before it.
InsertBranchHead(rows, slot, session) == Append(rows, Binding(slot, session))

\* replace_branch_head: the branch's head is deactivated, the new one inserted.
ReplaceBranchHead(rows, slot, session) ==
  Append(Deactivated(rows, CurrentIds(rows, slot)), Binding(slot, session))

\* forget_session: every branch that has the session as its head loses it.
ForgetSession(rows, session) ==
  Deactivated(rows, {i \in DOMAIN rows : rows[i].session = session})

\* restore_replaced_branch_head: unless another binding moved the head, the
\* session is forgotten and the last earlier binding of the branch, current or
\* not when it was replaced, is bound again.
RestoreReplacedHead(rows, slot, session) ==
  LET head     == HeadId(rows, slot)
      replaced == LastIdBefore(rows, slot, head)
      undone   == ForgetSession(rows, session)
  IN  CASE head = 0                       -> rows
        [] head # 0 /\ rows[head].session # session -> rows
        [] head # 0 /\ rows[head].session = session /\ replaced = 0 -> undone
        [] head # 0 /\ rows[head].session = session /\ replaced # 0 ->
             ReplaceBranchHead(undone, slot, rows[replaced].session)
==============================================================================
