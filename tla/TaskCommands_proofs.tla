------------------------- MODULE TaskCommands_proofs --------------------------
(***************************************************************************)
(* Proofs about TaskCommands for any number of processes, sessions, tasks  *)
(* and branches: type correctness, that a branch's head is its newest      *)
(* binding, and that an undo restores the head its binding replaced.       *)
(***************************************************************************)
EXTENDS TaskCommands, TLAPS, WellFoundedInduction

(***************************************************************************)
(* Lemmas about the statements of BranchHeads.                             *)
(***************************************************************************)

\* A set of naturals below a bound has a greatest element.
LEMMA GreatestExists ==
  ASSUME NEW n \in Nat, NEW S \in SUBSET (0..n), S # {}
  PROVE  \E i \in S : \A j \in S : j <= i
<1> DEFINE T == {n - i : i \in S}
           R == OpToRel(<, Nat)
<1>0. \A i \in S : i \in Nat /\ n - i \in Nat
  OBVIOUS
<1>1. T \subseteq Nat /\ T # {}
  BY <1>0
<1>2. PICK x \in T : \A y \in T : <<y, x>> \notin R
  <2>1. IsWellFoundedOn(R, Nat)
    BY NatLessThanWellFounded
  <2> HIDE DEF T, R
  <2> QED
    BY <1>1, <2>1, WFMin
<1>3. \A y \in T : x <= y
  <2> TAKE y \in T
  <2>1. x \in Nat /\ y \in Nat
    BY <1>1
  <2>2. <<y, x>> \in Nat \X Nat /\ <<y, x>> \notin {ss \in Nat \X Nat : ss[1] < ss[2]}
    BY <2>1, <1>2 DEF OpToRel
  <2>3. ~ (y < x)
    BY <2>2
  <2> QED
    BY <2>1, <2>3
<1>4. PICK i \in S : x = n - i
  OBVIOUS
<1>5. \A j \in S : n - i <= n - j
  BY <1>3, <1>4
<1> QED
  BY <1>5

\* Deactivating rows changes nothing but their current flag.
LEMMA DeactivatedRows ==
  ASSUME NEW A, NEW B, NEW table \in Seq(Row(A, B)), NEW ids
  PROVE  /\ Deactivated(table, ids) \in Seq(Row(A, B))
         /\ Len(Deactivated(table, ids)) = Len(table)
         /\ \A i \in 1..Len(table) :
              /\ Deactivated(table, ids)[i].slot = table[i].slot
              /\ Deactivated(table, ids)[i].session = table[i].session
              /\ Deactivated(table, ids)[i].current <=> (table[i].current /\ i \notin ids)
<1> DEFINE D == Deactivated(table, ids)
<1>1. \A i \in 1..Len(table) :
         /\ D[i] \in Row(A, B)
         /\ D[i].slot = table[i].slot
         /\ D[i].session = table[i].session
         /\ D[i].current <=> (table[i].current /\ i \notin ids)
  <2> TAKE i \in 1..Len(table)
  <2>1. table[i] \in Row(A, B)
    OBVIOUS
  <2>2. CASE i \in ids
    <3>1. D[i] = [table[i] EXCEPT !.current = FALSE]
      BY <2>2 DEF Deactivated
    <3> QED
      BY <2>1, <2>2, <3>1 DEF Row
  <2>3. CASE i \notin ids
    <3>1. D[i] = table[i]
      BY <2>3 DEF Deactivated
    <3> QED
      BY <2>1, <2>3, <3>1 DEF Row
  <2> QED
    BY <2>2, <2>3
<1>2. D \in [1..Len(table) -> Row(A, B)]
  BY <1>1 DEF Deactivated
<1>3. D \in Seq(Row(A, B)) /\ Len(D) = Len(table)
  BY <1>2
<1> QED
  BY <1>1, <1>3

\* The head of a branch is one of its current rows, or zero when it has none.
LEMMA HeadIdProperties ==
  ASSUME NEW A, NEW B, NEW table \in Seq(Row(A, B)), NEW slot
  PROVE  /\ HeadId(table, slot) \in Nat
         /\ HeadId(table, slot) # 0 => HeadId(table, slot) \in CurrentIds(table, slot)
         /\ CurrentIds(table, slot) \subseteq 1..Len(table)
         /\ HeadId(table, slot) = 0 => CurrentIds(table, slot) = {}
<1>1. CurrentIds(table, slot) \subseteq 1..Len(table)
  BY DEF CurrentIds, RowsOf
<1>2. CASE CurrentIds(table, slot) = {}
  BY <1>1, <1>2 DEF HeadId
<1>3. CASE CurrentIds(table, slot) # {}
  <2>1. HeadId(table, slot) \in CurrentIds(table, slot)
    BY <1>3 DEF HeadId
  <2> QED
    BY <1>1, <2>1
<1> QED
  BY <1>2, <1>3

\* The last earlier row of a branch is the greatest below the bound, or zero.
LEMMA LastIdBeforeProperties ==
  ASSUME NEW A, NEW B, NEW table \in Seq(Row(A, B)), NEW slot, NEW id \in Nat
  PROVE  LET last == LastIdBefore(table, slot, id)
         IN  /\ last \in Nat
             /\ last # 0 => last \in RowsOf(table, slot) /\ last < id
             /\ \A j \in RowsOf(table, slot) : j < id => last # 0 /\ j <= last
<1> DEFINE earlier == {i \in RowsOf(table, slot) : i < id}
           last == LastIdBefore(table, slot, id)
<1>1. earlier \subseteq 1..Len(table) /\ earlier \in SUBSET (0..id)
  BY DEF RowsOf
<1>2. CASE earlier = {}
  BY <1>2 DEF LastIdBefore
<1>3. CASE earlier # {}
  <2>1. \E i \in earlier : \A j \in earlier : j <= i
    <3> HIDE DEF earlier
    <3> QED
      BY <1>1, <1>3, GreatestExists
  <2>2. last \in earlier /\ \A j \in earlier : j <= last
    BY <1>3, <2>1 DEF LastIdBefore
  <2> QED
    BY <1>1, <2>2
<1> QED
  BY <1>2, <1>3

\* Replacing a branch's head: the rows keep their slot and session, the branch's own
\* rows are no longer current, and the new binding comes last.
LEMMA ReplacedRows ==
  ASSUME NEW A, NEW B, NEW table \in Seq(Row(A, B)), NEW slot \in A, NEW session \in B
  PROVE  LET replaced == ReplaceBranchHead(table, slot, session)
         IN  /\ replaced \in Seq(Row(A, B))
             /\ Len(replaced) = Len(table) + 1
             /\ replaced[Len(table) + 1] = Binding(slot, session)
             /\ \A i \in 1..Len(table) :
                  /\ replaced[i].slot = table[i].slot
                  /\ replaced[i].session = table[i].session
                  /\ replaced[i].current <=> (table[i].current /\ table[i].slot # slot)
<1> DEFINE D == Deactivated(table, CurrentIds(table, slot))
           replaced == ReplaceBranchHead(table, slot, session)
<1>1. /\ D \in Seq(Row(A, B)) /\ Len(D) = Len(table)
      /\ \A i \in 1..Len(table) :
           /\ D[i].slot = table[i].slot
           /\ D[i].session = table[i].session
           /\ D[i].current <=> (table[i].current /\ i \notin CurrentIds(table, slot))
  BY DeactivatedRows
<1>2. \A i \in 1..Len(table) :
        i \in CurrentIds(table, slot) <=> (table[i].slot = slot /\ table[i].current)
  BY DEF CurrentIds, RowsOf
<1>3. Binding(slot, session) \in Row(A, B)
  BY DEF Binding, Row
<1>4. /\ replaced \in Seq(Row(A, B)) /\ Len(replaced) = Len(table) + 1
      /\ replaced[Len(table) + 1] = Binding(slot, session)
      /\ \A i \in 1..Len(table) : replaced[i] = D[i]
  <2> HIDE DEF D
  <2>1. replaced = Append(D, Binding(slot, session))
    BY DEF replaced, ReplaceBranchHead, D
  <2> HIDE DEF replaced
  <2> QED
    BY <1>1, <1>3, <2>1
<1> HIDE DEF D, replaced
<1> QED
  BY <1>1, <1>2, <1>4 DEF replaced

(***************************************************************************)
(* The two facts about the table that the invariant is made of, and the    *)
(* statements that keep them.                                              *)
(***************************************************************************)

NewestHeads(table, A) ==
  \A slot \in A : \A i \in CurrentIds(table, slot), j \in RowsOf(table, slot) : j <= i

PreviousReplaced(table, replaced) ==
  \A i \in 1..Len(table) : replaced[i] # 0 =>
    /\ replaced[i] \in RowsOf(table, table[i].slot) /\ replaced[i] < i
    /\ \A j \in RowsOf(table, table[i].slot) : j < i => j <= replaced[i]

\* A table whose rows keep their slot and session, with fewer current rows.
LEMMA DeactivationKeeps ==
  ASSUME NEW A, NEW B, NEW table \in Seq(Row(A, B)), NEW ids, NEW replaced,
         NewestHeads(table, A), PreviousReplaced(table, replaced)
  PROVE  /\ NewestHeads(Deactivated(table, ids), A)
         /\ PreviousReplaced(Deactivated(table, ids), replaced)
<1> DEFINE D == Deactivated(table, ids)
<1>1. /\ D \in Seq(Row(A, B)) /\ Len(D) = Len(table)
      /\ \A i \in 1..Len(table) :
           /\ D[i].slot = table[i].slot
           /\ D[i].current <=> (table[i].current /\ i \notin ids)
  BY DeactivatedRows
<1> HIDE DEF D
<1>2. \A slot : RowsOf(D, slot) = RowsOf(table, slot)
  BY <1>1 DEF RowsOf
<1>3. \A slot : CurrentIds(D, slot) \subseteq CurrentIds(table, slot)
  BY <1>1, <1>2 DEF CurrentIds, RowsOf
<1>4. NewestHeads(D, A)
  BY <1>2, <1>3 DEF NewestHeads
<1>5. PreviousReplaced(D, replaced)
  BY <1>1, <1>2 DEF PreviousReplaced
<1> QED
  BY <1>4, <1>5 DEF D

\* Replacing a head keeps both facts when the row's history entry is the head that
\* was replaced, or zero.
LEMMA ReplacementKeeps ==
  ASSUME NEW A, NEW B, NEW table \in Seq(Row(A, B)), NEW slot \in A, NEW session \in B,
         NEW replaced \in Seq(Nat), Len(replaced) = Len(table),
         NewestHeads(table, A), PreviousReplaced(table, replaced),
         NEW head \in {0, HeadId(table, slot)}
  PROVE  /\ NewestHeads(ReplaceBranchHead(table, slot, session), A)
         /\ PreviousReplaced(ReplaceBranchHead(table, slot, session),
                             Append(replaced, head))
<1> DEFINE R == ReplaceBranchHead(table, slot, session)
           O == Append(replaced, head)
           n == Len(table)
<1>1. /\ R \in Seq(Row(A, B)) /\ Len(R) = n + 1 /\ n \in Nat
      /\ R[n + 1] = Binding(slot, session)
      /\ \A i \in 1..n :
           /\ R[i].slot = table[i].slot
           /\ R[i].current <=> (table[i].current /\ table[i].slot # slot)
  BY ReplacedRows
<1>2. /\ head \in Nat
      /\ head # 0 => head \in CurrentIds(table, slot) /\ head \in 1..n
  BY HeadIdProperties
<1>3. /\ \A i \in 1..n : O[i] = replaced[i]
      /\ O[n + 1] = head
  BY <1>2
<1>4. R[n + 1].slot = slot /\ R[n + 1].current
  BY <1>1 DEF Binding
<1> HIDE DEF R, O
<1>5. \A i \in 1..(n + 1) : i \in 1..n \/ i = n + 1
  BY <1>1
<1>6. \A other : RowsOf(R, other) =
        IF other = slot THEN RowsOf(table, other) \cup {n + 1} ELSE RowsOf(table, other)
  BY <1>1, <1>4, <1>5 DEF RowsOf
<1>7. \A other : RowsOf(table, other) \subseteq 1..n
  BY DEF RowsOf
<1>8. ASSUME NEW other \in A, NEW i \in CurrentIds(R, other), NEW j \in RowsOf(R, other)
      PROVE  j <= i
  <2>1. CASE other = slot
    <3>1. i = n + 1
      BY <1>1, <1>4, <1>5, <2>1 DEF CurrentIds, RowsOf
    <3> QED
      BY <1>1, <1>6, <1>7, <2>1, <3>1
  <2>2. CASE other # slot
    <3>1. i \in CurrentIds(table, other) /\ j \in RowsOf(table, other)
      BY <1>1, <1>6, <1>7, <2>2 DEF CurrentIds, RowsOf
    <3> QED
      BY <3>1 DEF NewestHeads
  <2> QED
    BY <2>1, <2>2
<1>9. ASSUME NEW i \in 1..(n + 1), O[i] # 0
      PROVE  /\ O[i] \in RowsOf(R, R[i].slot) /\ O[i] < i
             /\ \A j \in RowsOf(R, R[i].slot) : j < i => j <= O[i]
  <2>1. CASE i \in 1..n
    <3>1. /\ replaced[i] \in RowsOf(table, table[i].slot) /\ replaced[i] < i
          /\ \A j \in RowsOf(table, table[i].slot) : j < i => j <= replaced[i]
      BY <1>3, <1>9, <2>1 DEF PreviousReplaced
    <3>2. O[i] = replaced[i] /\ R[i].slot = table[i].slot
      BY <1>1, <1>3, <2>1
    <3>3. RowsOf(table, table[i].slot) \subseteq RowsOf(R, R[i].slot)
      BY <1>6, <3>2
    <3>4. \A j \in RowsOf(R, R[i].slot) : j < i => j \in RowsOf(table, table[i].slot)
      <4>1. ~(n + 1 < i)
        BY <1>1, <2>1
      <4> QED
        BY <1>6, <3>2, <4>1
    <3> QED
      BY <3>1, <3>2, <3>3, <3>4
  <2>2. CASE i = n + 1
    <3>1. O[i] = head /\ head # 0 /\ R[i].slot = slot
      BY <1>3, <1>4, <1>9, <2>2
    <3>2. head \in RowsOf(table, slot)
      BY <1>2, <3>1 DEF CurrentIds
    <3>3. \A j \in RowsOf(table, slot) : j <= head
      BY <1>2, <3>1 DEF NewestHeads
    <3> QED
      BY <1>1, <1>2, <1>6, <1>7, <2>2, <3>1, <3>2, <3>3
  <2> QED
    BY <1>5, <2>1, <2>2
<1>10. NewestHeads(R, A)
  BY <1>8 DEF NewestHeads
<1>11. PreviousReplaced(R, O)
  BY <1>1, <1>9 DEF PreviousReplaced
<1> QED
  BY <1>10, <1>11 DEF R, O

\* What an undo that finds its session still the head does to the table.
LEMMA RestoredRows ==
  ASSUME NEW A, NEW B, NEW table \in Seq(Row(A, B)), NEW slot \in A, NEW session
  PROVE  LET restored == RestoreReplacedHead(table, slot, session)
             undone   == ForgetSession(table, session)
             last     == LastIdBefore(table, slot, HeadId(table, slot))
         IN  \/ restored = table
             \/ /\ HeadId(table, slot) # 0
                /\ table[HeadId(table, slot)].session = session
                /\ \/ last = 0 /\ restored = undone
                   \/ /\ last \in RowsOf(table, slot)
                      /\ restored = ReplaceBranchHead(undone, slot, table[last].session)
<1>1. HeadId(table, slot) \in Nat
  BY HeadIdProperties
<1>2. LastIdBefore(table, slot, HeadId(table, slot)) # 0 =>
        LastIdBefore(table, slot, HeadId(table, slot)) \in RowsOf(table, slot)
  BY <1>1, LastIdBeforeProperties
<1> QED
  BY <1>2 DEF RestoreReplacedHead

(***************************************************************************)
(* The ways a step of a command changes the table.                         *)
(***************************************************************************)

BindStep(p) == Slot(p) \in Slots /\ \E s \in Sessions : Bind(p, s)

ForgetStep(p) == rows' = ForgetSession(rows, arg[p].session) /\ UNCHANGED over

UndoStep(p) ==
  /\ pc[p] = "undo" /\ Slot(p) \in Slots /\ arg[p].session \in Sessions
  /\ rows' = RestoreReplacedHead(rows, Slot(p), arg[p].session)
  /\ over' = IF Len(rows') > Len(rows) THEN Append(over, 0) ELSE over

\* Every step leaves the table alone, or does one of three things to it.
LEMMA RowSteps ==
  ASSUME TypeOK, NEW p \in Procs, Step(p)
  PROVE  UNCHANGED <<rows, over>> \/ BindStep(p) \/ ForgetStep(p) \/ UndoStep(p)
<1> DEFINE a == arg[p]
<1>0. a \in Args
  BY DEF TypeOK
<1>1. CASE StartTask(p)
  BY <1>0, <1>1 DEF StartTask, Goto, TypeOK, BindStep, Slot, Slots, Args
<1>2. CASE BindSession(p)
  BY <1>0, <1>2 DEF BindSession, Goto, TypeOK, BindStep, Slot, Slots, Args
<1>3. CASE Rebind(p)
  BY <1>0, <1>3 DEF Rebind, Goto, TypeOK, BindStep, Slot, Slots, Args
<1>4. CASE RecordLineage(p)
  <2>1. CASE UNCHANGED <<rows, over>>
    BY <2>1
  <2>2. CASE arg[p].task # NoTask /\ Bind(p, arg[p].session)
    <3>1. arg[p].session \in Sessions /\ Slot(p) \in Slots
      BY <1>0, <1>4, <2>2 DEF RecordLineage, Goto, TypeOK, Slot, Slots, Args
    <3> QED
      BY <2>2, <3>1 DEF BindStep
  <2> QED
    BY <1>4, <2>1, <2>2 DEF RecordLineage
<1>5. CASE AdvanceHead(p)
  <2>1. CASE UNCHANGED <<rows, over>>
    BY <2>1
  <2>2. CASE Bind(p, arg[p].session)
    <3>1. arg[p].session \in Sessions /\ Slot(p) \in Slots
      BY <1>0, <1>5 DEF AdvanceHead, Goto, TypeOK, Slot, Slots, Args
    <3> QED
      BY <2>2, <3>1 DEF BindStep
  <2> QED
    BY <1>5, <2>1, <2>2 DEF AdvanceHead
<1>6. CASE UndoLineage(p)
  <2>1. pc[p] = "undo" /\ arg[p].session \in Sessions
    BY <1>6 DEF UndoLineage, Goto, TypeOK
  <2>2. CASE arg[p].task = NoTask
    <3>1. rows' = ForgetSession(rows, arg[p].session)
      BY <1>6, <2>2 DEF UndoLineage
    <3>2. Len(rows') = Len(rows)
      BY <3>1, DeactivatedRows DEF ForgetSession, TypeOK
    <3>3. over' = over
      BY <1>6, <3>2 DEF UndoLineage, TypeOK
    <3> QED
      BY <3>1, <3>3 DEF ForgetStep
  <2>3. CASE arg[p].task # NoTask
    <3>1. Slot(p) \in Slots
      BY <1>0, <2>3 DEF Slot, Slots, Args
    <3> QED
      BY <1>6, <2>1, <2>3, <3>1 DEF UndoLineage, UndoStep
  <2> QED
    BY <2>2, <2>3
<1>7. CASE ForgetDeleted(p)
  BY <1>7 DEF ForgetDeleted, ForgetStep
<1>8. CASE \/ StartUnbound(p) \/ StartValidate(p) \/ Checkout(p) \/ BindValidate(p)
           \/ BindSelect(p) \/ BindRead(p) \/ SwitchSelect(p) \/ SwitchRead(p)
           \/ ResumeSource(p) \/ EndUnbound(p) \/ RunInPlace(p) \/ Generate(p)
  BY <1>8 DEF StartUnbound, StartValidate, Checkout, BindValidate, BindSelect, BindRead,
              SwitchSelect, SwitchRead, ResumeSource, EndUnbound, RunInPlace, Generate
<1>9. CASE \/ RollBackUnrecorded(p) \/ ForkUnrecorded(p) \/ KeepImport(p)
           \/ InterruptImport(p) \/ UndoFails(p) \/ AdvanceRead(p) \/ DeleteNative(p)
  BY <1>9 DEF RollBackUnrecorded, ForkUnrecorded, KeepImport, InterruptImport, UndoFails,
              AdvanceRead, DeleteNative
<1> QED
  BY <1>1, <1>2, <1>3, <1>4, <1>5, <1>6, <1>7, <1>8, <1>9 DEF Step

Kept(table, replaced) ==
  /\ table \in Seq(Row(Slots, Sessions))
  /\ replaced \in Seq(Nat) /\ Len(replaced) = Len(table)
  /\ NewestHeads(table, Slots) /\ PreviousReplaced(table, replaced)

\* The table's types, and the two facts, are kept by every step.
LEMMA RowsKept ==
  ASSUME TypeOK, HeadIsNewestRow, ReplacedIsPrevious, NEW p \in Procs, Step(p)
  PROVE  /\ rows' \in Seq(Row(Slots, Sessions))
         /\ over' \in Seq(Nat) /\ Len(over') = Len(rows')
         /\ HeadIsNewestRow' /\ ReplacedIsPrevious'
<1>1. Kept(rows, over)
  BY DEF Kept, TypeOK, HeadIsNewestRow, ReplacedIsPrevious, NewestHeads, PreviousReplaced
<1>2. ASSUME NEW table, NEW replaced, Kept(table, replaced), NEW slot \in Slots,
             NEW session \in Sessions, NEW head \in {0, HeadId(table, slot)}
      PROVE  Kept(ReplaceBranchHead(table, slot, session), Append(replaced, head))
  <2>1. head \in Nat
    BY <1>2, HeadIdProperties DEF Kept
  <2>2. Append(replaced, head) \in Seq(Nat) /\ Len(Append(replaced, head)) = Len(replaced) + 1
    BY <1>2, <2>1 DEF Kept
  <2> QED
    BY <1>2, <2>2, ReplacedRows, ReplacementKeeps DEF Kept
<1>3. ASSUME NEW table, NEW replaced, Kept(table, replaced), NEW session
      PROVE  Kept(ForgetSession(table, session), replaced)
  BY <1>3, DeactivatedRows, DeactivationKeeps DEF ForgetSession, Kept
<1> SUFFICES Kept(rows', over')
  BY DEF Kept, HeadIsNewestRow, ReplacedIsPrevious, NewestHeads, PreviousReplaced
<1>4. CASE UNCHANGED <<rows, over>>
  BY <1>1, <1>4
<1>5. CASE BindStep(p)
  BY <1>1, <1>2, <1>5 DEF BindStep, Bind
<1>6. CASE ForgetStep(p)
  BY <1>1, <1>3, <1>6 DEF ForgetStep
<1>7. CASE UndoStep(p)
  <2> DEFINE undone == ForgetSession(rows, arg[p].session)
             last   == LastIdBefore(rows, Slot(p), HeadId(rows, Slot(p)))
  <2>1. rows \in Seq(Row(Slots, Sessions)) /\ Len(rows) \in Nat
    BY DEF TypeOK
  <2>2. Kept(undone, over) /\ Len(undone) = Len(rows)
    <3>1. Kept(ForgetSession(rows, arg[p].session), over)
      BY <1>1, <1>3
    <3>2. Len(ForgetSession(rows, arg[p].session)) = Len(rows)
      BY <2>1, DeactivatedRows DEF ForgetSession
    <3> QED
      BY <3>1, <3>2
  <2> HIDE DEF undone, last
  <2>3. CASE rows' = rows
    BY <1>1, <1>7, <2>1, <2>3 DEF UndoStep
  <2>4. CASE rows' = undone
    BY <1>7, <2>1, <2>2, <2>4 DEF UndoStep, undone
  <2>5. CASE last \in RowsOf(rows, Slot(p)) /\ rows' = ReplaceBranchHead(undone, Slot(p), rows[last].session)
    <3>1. rows[last].session \in Sessions
      <4>1. last \in 1..Len(rows)
        BY <2>1, <2>5 DEF RowsOf
      <4>2. rows[last] \in Row(Slots, Sessions)
        BY <2>1, <4>1
      <4> QED
        BY <4>2 DEF Row
    <3>2. Kept(rows', Append(over, 0))
      BY <1>2, <1>7, <2>2, <2>5, <3>1 DEF UndoStep
    <3>3. Len(rows') = Len(rows) + 1
      BY <1>7, <2>2, <2>5, <3>1, ReplacedRows DEF UndoStep, Kept
    <3> QED
      BY <1>7, <2>1, <3>2, <3>3 DEF UndoStep
  <2> QED
    BY <1>7, <2>1, <2>3, <2>4, <2>5, RestoredRows DEF UndoStep, undone, last
<1> QED
  BY <1>4, <1>5, <1>6, <1>7, RowSteps

(***************************************************************************)
(* The types of the other variables.                                       *)
(***************************************************************************)

TablesOK ==
  /\ tasks \subseteq Tasks /\ selected \in tasks \cup {NoTask}
  /\ handoffs \subseteq Sessions \X Sessions
  /\ exists \subseteq Sessions

LocalsOK(a, step) ==
  /\ a \in Args
  /\ step \in Steps
  /\ step \in {"start", "bind_read", "bind", "switch_read", "rebind", "advance"}
       => a.task \in Tasks
  /\ step \in {"start", "bind_select", "bind_read", "bind", "record_import",
               "finish_import", "undo", "record_fork", "advance", "forget"}
       => a.session \in Sessions
  /\ step \in {"continue", "rebind", "record_import", "record_fork", "advance"}
       => a.source \in Sessions

\* The head of a branch is a row, and its session is a session.
LEMMA HeadIdInTable ==
  ASSUME TypeOK, NEW slot, HeadId(rows, slot) # 0
  PROVE  rows[HeadId(rows, slot)].session \in Sessions
<1>1. rows \in Seq(Row(Slots, Sessions)) /\ HeadId(rows, slot) \in 1..Len(rows)
  BY HeadIdProperties DEF TypeOK
<1>2. rows[HeadId(rows, slot)] \in Row(Slots, Sessions)
  BY <1>1
<1> QED
  BY <1>2 DEF Row

\* A read of a branch returns a row id and the session of that row, or neither.
LEMMA HeadSessionType ==
  ASSUME TypeOK, NEW slot
  PROVE  HeadId(rows, slot) \in Nat /\ HeadSession(slot) \in Sessions \cup {NoSession}
<1>1. HeadId(rows, slot) \in Nat
  BY HeadIdProperties DEF TypeOK
<1> QED
  BY <1>1, HeadIdInTable DEF HeadSession

\* A step of p changes only p's step and locals, and keeps them typed.
LEMMA LocalsTyped ==
  ASSUME TypeOK, NEW p \in Procs, Step(p)
  PROVE  /\ TablesOK'
         /\ \E there \in Steps : pc' = [pc EXCEPT ![p] = there]
         /\ \E a \in Args : arg' = [arg EXCEPT ![p] = a]
         /\ LocalsOK(arg'[p], pc'[p])
<1> DEFINE Goal == /\ TablesOK'
                   /\ \E there \in Steps : pc' = [pc EXCEPT ![p] = there]
                   /\ \E a \in Args : arg' = [arg EXCEPT ![p] = a]
                   /\ LocalsOK(arg'[p], pc'[p])
<1>0. /\ TablesOK
      /\ pc \in [Procs -> Steps] /\ arg \in [Procs -> Args]
      /\ arg = [arg EXCEPT ![p] = arg[p]]
      /\ LocalsOK(arg[p], pc[p])
  BY DEF TypeOK, TablesOK, LocalsOK
<1>r. \A slot : HeadId(rows, slot) \in Nat /\ HeadSession(slot) \in Sessions \cup {NoSession}
  BY HeadSessionType
<1>g. Generated(p) \in Sessions
  BY DEF Sessions
<1> USE DEF Goto, TablesOK, LocalsOK, Steps, Args
<1>1. CASE StartUnbound(p)
  BY <1>0, <1>1 DEF StartUnbound, Begins
<1>2. CASE StartValidate(p)
  <2>1. PICK t \in Tasks, b \in Branches, s \in exists : arg' = [arg EXCEPT ![p].task = t, ![p].branch = b, ![p].session = s]
    BY <1>2 DEF StartValidate, Begins
  <2> DEFINE a == [arg[p] EXCEPT !.task = t, !.branch = b, !.session = s]
  <2>2. a \in Args /\ a.task = t /\ a.branch = b /\ a.session = s
    BY <1>0, <2>1
  <2>3. arg' = [arg EXCEPT ![p] = a] /\ arg'[p] = a
    BY <1>0, <2>1
  <2> HIDE DEF a
  <2> QED
    BY <1>0, <1>2, <2>1, <2>2, <2>3 DEF StartValidate, Begins
<1>3. CASE StartTask(p)
  BY <1>0, <1>3 DEF StartTask
<1>4. CASE Checkout(p)
  BY <1>0, <1>4 DEF Checkout, Begins
<1>5. CASE BindValidate(p)
  <2>1. PICK b \in Branches, s \in exists : arg' = [arg EXCEPT ![p].branch = b, ![p].session = s]
    BY <1>5 DEF BindValidate, Begins
  <2> DEFINE a == [arg[p] EXCEPT !.branch = b, !.session = s]
  <2>2. a \in Args /\ a.branch = b /\ a.session = s
    BY <1>0, <2>1
  <2>3. arg' = [arg EXCEPT ![p] = a] /\ arg'[p] = a
    BY <1>0, <2>1
  <2> HIDE DEF a
  <2> QED
    BY <1>0, <1>5, <2>1, <2>2, <2>3 DEF BindValidate, Begins
<1>6. CASE BindSelect(p)
  BY <1>0, <1>6, NoTaskAssumption DEF BindSelect
<1>7. CASE BindRead(p)
  <2>1. PICK source \in {NoSession} \cup
               ({HeadSession(Slot(p))} \cap (exists \ {arg[p].session})) : arg' = [arg EXCEPT ![p].head = HeadId(rows, Slot(p)), ![p].source = source]
    BY <1>7 DEF BindRead
  <2> DEFINE a == [arg[p] EXCEPT !.head = HeadId(rows, Slot(p)), !.source = source]
  <2>2. a \in Args /\ a.task = arg[p].task /\ a.session = arg[p].session
    BY <1>0, <2>1, <1>r
  <2>3. arg' = [arg EXCEPT ![p] = a] /\ arg'[p] = a
    BY <1>0, <2>1
  <2> HIDE DEF a
  <2> QED
    BY <1>0, <1>7, <2>1, <2>2, <2>3, <1>r DEF BindRead
<1>8. CASE BindSession(p)
  BY <1>0, <1>8 DEF BindSession
<1>9. CASE SwitchSelect(p)
  <2>1. PICK b \in Branches : arg' = [arg EXCEPT ![p].task = selected, ![p].branch = b]
    BY <1>9 DEF SwitchSelect, Begins
  <2> DEFINE a == [arg[p] EXCEPT !.task = selected, !.branch = b]
  <2>2. a \in Args /\ a.task = selected /\ a.branch = b
    BY <1>0, <2>1, NoTaskAssumption
  <2>3. arg' = [arg EXCEPT ![p] = a] /\ arg'[p] = a
    BY <1>0, <2>1
  <2> HIDE DEF a
  <2> QED
    BY <1>0, <1>9, <2>1, <2>2, <2>3, NoTaskAssumption DEF SwitchSelect, Begins
<1>10. CASE SwitchRead(p)
  <2>1. arg' = [arg EXCEPT ![p].head = HeadId(rows, Slot(p)), ![p].source = HeadSession(Slot(p))]
    BY <1>10 DEF SwitchRead
  <2> DEFINE a == [arg[p] EXCEPT !.head = HeadId(rows, Slot(p)), !.source = HeadSession(Slot(p))]
  <2>2. a \in Args /\ a.head = HeadId(rows, Slot(p)) /\ a.source = HeadSession(Slot(p))
    BY <1>0, <2>1, <1>r, NoSessionAssumption
  <2>3. arg' = [arg EXCEPT ![p] = a] /\ arg'[p] = a
    BY <1>0, <2>1
  <2> HIDE DEF a
  <2>4. PICK there \in {"continue", "done"} :
          /\ pc' = [pc EXCEPT ![p] = there]
          /\ there = "continue" => HeadSession(Slot(p)) # NoSession
    BY <1>10 DEF SwitchRead
  <2>5. there = "continue" => a.source \in Sessions
    BY <2>2, <2>4, <1>r
  <2>6. TablesOK'
    BY <1>0, <1>10 DEF SwitchRead
  <2>7. pc'[p] = there
    BY <1>0, <2>4
  <2>8. LocalsOK(a, there)
    BY <2>2, <2>4, <2>5
  <2> QED
    BY <2>2, <2>3, <2>4, <2>6, <2>7, <2>8
<1>11. CASE ResumeSource(p)
  <2>1. PICK s \in exists : arg' = [arg EXCEPT ![p].source = s]
    BY <1>11 DEF ResumeSource, Begins
  <2> DEFINE a == [arg[p] EXCEPT !.source = s]
  <2>2. a \in Args /\ a.source = s
    BY <1>0, <2>1
  <2>3. arg' = [arg EXCEPT ![p] = a] /\ arg'[p] = a
    BY <1>0, <2>1
  <2> HIDE DEF a
  <2> QED
    BY <1>0, <1>11, <2>1, <2>2, <2>3 DEF ResumeSource, Begins
<1>12. CASE EndUnbound(p)
  BY <1>0, <1>12 DEF EndUnbound
<1>13. CASE RunInPlace(p)
  BY <1>0, <1>13 DEF RunInPlace
<1>14. CASE Rebind(p)
  BY <1>0, <1>14 DEF Rebind
<1>15. CASE Generate(p)
  BY <1>0, <1>15, <1>g DEF Generate
<1>16. CASE RecordLineage(p)
  BY <1>0, <1>16 DEF RecordLineage
<1>17. CASE RollBackUnrecorded(p)
  BY <1>0, <1>17 DEF RollBackUnrecorded
<1>18. CASE ForkUnrecorded(p)
  BY <1>0, <1>18 DEF ForkUnrecorded
<1>19. CASE KeepImport(p)
  BY <1>0, <1>19 DEF KeepImport
<1>20. CASE InterruptImport(p)
  BY <1>0, <1>20 DEF InterruptImport
<1>21. CASE UndoLineage(p)
  BY <1>0, <1>21 DEF UndoLineage
<1>22. CASE UndoFails(p)
  BY <1>0, <1>22 DEF UndoFails
<1>23. CASE AdvanceRead(p)
  <2>1. PICK t \in tasks, b \in Branches, s \in exists :
          /\ HeadId(rows, <<t, b>>) # 0
          /\ arg' = [arg EXCEPT ![p] =
                       [task |-> t, branch |-> b, session |-> s,
                        source |-> HeadSession(<<t, b>>), head |-> HeadId(rows, <<t, b>>)]]
    BY <1>23 DEF AdvanceRead, Begins
  <2>2. HeadSession(<<t, b>>) \in Sessions
    BY <2>1, HeadIdInTable DEF HeadSession
  <2> QED
    BY <1>0, <1>23, <1>r, <2>1, <2>2 DEF AdvanceRead, Begins
<1>24. CASE AdvanceHead(p)
  BY <1>0, <1>24 DEF AdvanceHead
<1>25. CASE DeleteNative(p)
  <2>1. PICK s \in exists : arg' = [arg EXCEPT ![p].session = s]
    BY <1>25 DEF DeleteNative, Begins
  <2> DEFINE a == [arg[p] EXCEPT !.session = s]
  <2>2. a \in Args /\ a.session = s
    BY <1>0, <2>1
  <2>3. arg' = [arg EXCEPT ![p] = a] /\ arg'[p] = a
    BY <1>0, <2>1
  <2> HIDE DEF a
  <2> QED
    BY <1>0, <1>25, <2>1, <2>2, <2>3 DEF DeleteNative, Begins
<1>26. CASE ForgetDeleted(p)
  BY <1>0, <1>26 DEF ForgetDeleted
<1> QED
  BY <1>1, <1>2, <1>3, <1>4, <1>5, <1>6, <1>7, <1>8, <1>9, <1>10, <1>11, <1>12, <1>13,
     <1>14, <1>15, <1>16, <1>17, <1>18, <1>19, <1>20, <1>21, <1>22, <1>23, <1>24, <1>25,
     <1>26 DEF Step

(***************************************************************************)
(* The theorems.                                                           *)
(***************************************************************************)

IInv == TypeOK /\ HeadIsNewestRow /\ ReplacedIsPrevious

\* The invariant holds initially.
LEMMA InitInv == Init => IInv
<1> SUFFICES ASSUME Init PROVE IInv
  OBVIOUS
<1>1. (CHOOSE b \in Branches : TRUE) \in Branches
  BY BranchesAssumption
<1>2. exists \subseteq Sessions
  BY DEF Init, Sessions
<1>3. rows \in Seq(Row(Slots, Sessions)) /\ over \in Seq(Nat) /\ Len(over) = Len(rows)
  BY DEF Init
<1>4. pc \in [Procs -> Steps] /\ \A p \in Procs : pc[p] = "idle"
  BY DEF Init, Steps
<1>5. arg \in [Procs -> Args]
  BY <1>1 DEF Init, Args
<1>6. TypeOK
  BY <1>2, <1>3, <1>4, <1>5 DEF Init, TypeOK
<1>7. HeadIsNewestRow /\ ReplacedIsPrevious
  <2>1. rows = <<>> /\ Len(rows) = 0 /\ DOMAIN rows = {}
    BY DEF Init
  <2> QED
    BY <2>1 DEF HeadIsNewestRow, ReplacedIsPrevious, CurrentIds, RowsOf
<1> QED
  BY <1>6, <1>7 DEF IInv

\* Every step keeps the invariant.
LEMMA StepInv == IInv /\ [Next]_vars => IInv'
<1> SUFFICES ASSUME IInv, [Next]_vars PROVE IInv'
  OBVIOUS
<1>1. CASE UNCHANGED vars
  BY <1>1 DEF IInv, vars, TypeOK, HeadIsNewestRow, ReplacedIsPrevious, CurrentIds, RowsOf
<1>2. ASSUME NEW p \in Procs, Step(p) PROVE IInv'
  <2>1. /\ rows' \in Seq(Row(Slots, Sessions))
        /\ over' \in Seq(Nat) /\ Len(over') = Len(rows')
        /\ HeadIsNewestRow' /\ ReplacedIsPrevious'
    BY <1>2, RowsKept DEF IInv
  <2>2. TypeOK
    BY DEF IInv
  <2>3. /\ TablesOK'
        /\ \E there \in Steps : pc' = [pc EXCEPT ![p] = there]
        /\ \E a \in Args : arg' = [arg EXCEPT ![p] = a]
        /\ LocalsOK(arg'[p], pc'[p])
    BY <1>2, <2>2, LocalsTyped
  <2>4. pc' \in [Procs -> Steps] /\ arg' \in [Procs -> Args]
    BY <2>2, <2>3 DEF TypeOK
  <2>5. ASSUME NEW q \in Procs PROVE LocalsOK(arg'[q], pc'[q])
    <3>1. CASE q = p
      BY <2>3, <3>1
    <3>2. CASE q # p
      <4>1. arg'[q] = arg[q] /\ pc'[q] = pc[q]
        BY <2>2, <2>3, <3>2 DEF TypeOK
      <4>2. LocalsOK(arg[q], pc[q])
        BY <2>2 DEF TypeOK, LocalsOK
      <4> QED
        BY <4>1, <4>2
    <3> QED
      BY <3>1, <3>2
  <2>6. TypeOK'
    BY <2>1, <2>3, <2>4, <2>5 DEF TypeOK, TablesOK, LocalsOK
  <2> QED
    BY <2>1, <2>6 DEF IInv
<1> QED
  BY <1>1, <1>2 DEF Next

\* The types, for any number of processes, sessions, tasks and branches.
THEOREM TypeCorrect == Spec => []TypeOK
<1>1. IInv => TypeOK
  BY DEF IInv
<1> QED
  BY InitInv, StepInv, <1>1, PTL DEF Spec

\* The head of a branch is its newest binding (replace_branch_head, lib.rs:3122).
THEOREM HeadsAreNewest == Spec => []HeadIsNewestRow
<1>1. IInv => HeadIsNewestRow
  BY DEF IInv
<1> QED
  BY InitInv, StepInv, <1>1, PTL DEF Spec

\* The head a binding replaced is the binding before it in its branch, so the undo's
\* search by row order (restore_replaced_branch_head, lib.rs:1231) finds it.
THEOREM ReplacedIsLatest == Spec => []ReplacedIsPrevious
<1>1. IInv => ReplacedIsPrevious
  BY DEF IInv
<1> QED
  BY InitInv, StepInv, <1>1, PTL DEF Spec

\* Two rows of a branch are never both current: the store's partial unique index
\* current_session_binding_per_branch (lib.rs:2106) never rejects a transaction.
OneHeadPerBranch ==
  \A slot \in Slots : \A i, j \in CurrentIds(rows, slot) : i = j

\* A branch never has two heads, so the unique index is never met.
THEOREM OneHead == Spec => []OneHeadPerBranch
<1>1. IInv => OneHeadPerBranch
  <2> SUFFICES ASSUME IInv, NEW slot \in Slots,
                      NEW i \in CurrentIds(rows, slot), NEW j \in CurrentIds(rows, slot)
               PROVE  i = j
    BY DEF OneHeadPerBranch
  <2>1. CurrentIds(rows, slot) \subseteq RowsOf(rows, slot)
    BY DEF CurrentIds
  <2>2. i <= j /\ j <= i
    BY <2>1 DEF IInv, HeadIsNewestRow
  <2>3. i \in Nat /\ j \in Nat
    BY HeadIdProperties DEF IInv, TypeOK
  <2> QED
    BY <2>2, <2>3
<1> QED
  BY InitInv, StepInv, <1>1, PTL DEF Spec

\* After its head is replaced, a branch's head is the binding inserted.
LEMMA HeadAfterReplacement ==
  ASSUME NEW A, NEW B, NEW table \in Seq(Row(A, B)), NEW slot \in A, NEW session \in B
  PROVE  LET replaced == ReplaceBranchHead(table, slot, session)
             head     == HeadId(replaced, slot)
         IN  head # 0 /\ replaced[head].session = session
<1> DEFINE replaced == ReplaceBranchHead(table, slot, session)
           n == Len(table)
<1>1. /\ replaced \in Seq(Row(A, B)) /\ Len(replaced) = n + 1 /\ n \in Nat
      /\ replaced[n + 1] = Binding(slot, session)
      /\ \A i \in 1..n :
           /\ replaced[i].slot = table[i].slot
           /\ replaced[i].current <=> (table[i].current /\ table[i].slot # slot)
  BY ReplacedRows
<1>2. replaced[n + 1].slot = slot /\ replaced[n + 1].session = session /\ replaced[n + 1].current
  BY <1>1 DEF Binding
<1> HIDE DEF replaced
<1>3. CurrentIds(replaced, slot) = {n + 1}
  BY <1>1, <1>2 DEF CurrentIds, RowsOf
<1>4. HeadId(replaced, slot) = n + 1
  BY <1>3 DEF HeadId
<1> QED
  BY <1>1, <1>2, <1>4 DEF replaced

\* A step of another process, or a stutter, leaves a command where it is.
LEMMA OnlyItsOwnSteps ==
  ASSUME TypeOK, [Next]_vars, NEW p \in Procs, pc'[p] # pc[p]
  PROVE  Step(p)
<1>1. ~ UNCHANGED vars
  BY DEF vars
<1>2. PICK q \in Procs : Step(q)
  BY <1>1 DEF Next
<1>3. \E there \in Steps : pc' = [pc EXCEPT ![q] = there]
  BY <1>2, LocalsTyped
<1> QED
  BY <1>2, <1>3 DEF TypeOK

\* Undoing an interrupted import whose binding replaced a head gives the branch that
\* head back (restore_replaced_branch_head, lib.rs:1198): the binding the query finds,
\* the last one before the head, is the one that was replaced.
LEMMA UndoStepExact ==
  ASSUME IInv, [Next]_vars, NEW p \in Procs
  PROVE  UndoExact(p)
<1> DEFINE slot == Slot(p)
           head == HeadId(rows, slot)
           last == LastIdBefore(rows, slot, head)
           undone == ForgetSession(rows, arg[p].session)
<1> SUFFICES ASSUME pc[p] = "undo", pc'[p] = "done", rows' # rows, arg[p].task # NoTask
             PROVE  /\ HeadSession(slot) = arg[p].session
                    /\ over[head] # 0 => HeadSession(Slot(p))' = rows[over[head]].session
  BY DEF UndoExact
<1>1. TypeOK /\ rows \in Seq(Row(Slots, Sessions)) /\ arg[p] \in Args
  BY DEF IInv, TypeOK
<1>2. UndoLineage(p)
  <2>1. Step(p)
    BY <1>1, OnlyItsOwnSteps
  <2>2. UndoLineage(p) \/ UndoFails(p)
    BY <2>1 DEF Step, Begins, Goto, StartUnbound, StartValidate, StartTask, Checkout,
       BindValidate, BindSelect, BindRead, BindSession, SwitchSelect, SwitchRead,
       ResumeSource, EndUnbound, RunInPlace, Rebind, Generate, RecordLineage,
       RollBackUnrecorded, ForkUnrecorded, KeepImport, InterruptImport, AdvanceRead,
       AdvanceHead, DeleteNative, ForgetDeleted
  <2> QED
    BY <2>2 DEF UndoFails
<1>3. /\ slot \in Slots /\ arg' = arg
      /\ rows' = RestoreReplacedHead(rows, slot, arg[p].session)
  BY <1>1, <1>2 DEF UndoLineage, Slot, Slots, Args
<1>4. /\ head # 0 /\ rows[head].session = arg[p].session
      /\ \/ last = 0 /\ rows' = undone
         \/ /\ last \in RowsOf(rows, slot)
            /\ rows' = ReplaceBranchHead(undone, slot, rows[last].session)
  BY <1>1, <1>3, RestoredRows
<1>5. head \in 1..Len(rows) /\ rows[head].slot = slot
  BY <1>1, <1>4, HeadIdProperties DEF CurrentIds, RowsOf
<1>6. ASSUME over[head] # 0 PROVE HeadSession(Slot(p))' = rows[over[head]].session
  <2>1. /\ over[head] \in RowsOf(rows, slot) /\ over[head] < head
        /\ \A j \in RowsOf(rows, slot) : j < head => j <= over[head]
    BY <1>5, <1>6 DEF IInv, ReplacedIsPrevious
  <2>2. /\ last \in Nat
        /\ last # 0 => last \in RowsOf(rows, slot) /\ last < head
        /\ \A j \in RowsOf(rows, slot) : j < head => last # 0 /\ j <= last
    BY <1>1, <1>5, LastIdBeforeProperties
  <2>3. last = over[head] /\ last # 0
    <3>1. over[head] \in Nat /\ last \in Nat
      BY <1>1, <2>1, <2>2 DEF RowsOf
    <3> HIDE DEF last, head, slot
    <3>2. last # 0 /\ over[head] <= last
      BY <2>1, <2>2
    <3>3. last \in RowsOf(rows, slot) /\ last < head
      BY <2>2, <3>2
    <3>4. last <= over[head]
      BY <2>1, <3>3
    <3> QED
      BY <3>1, <3>2, <3>4
  <2>4. rows' = ReplaceBranchHead(undone, slot, rows[last].session)
    BY <1>4, <2>3
  <2>5. undone \in Seq(Row(Slots, Sessions))
    BY <1>1, DeactivatedRows DEF ForgetSession
  <2>6. rows[last].session \in Sessions
    <3>1. last \in 1..Len(rows)
      BY <1>1, <2>1, <2>3 DEF RowsOf
    <3> HIDE DEF last
    <3>2. rows[last] \in Row(Slots, Sessions)
      BY <1>1, <3>1
    <3> QED
      BY <3>2 DEF Row
  <2>7. HeadId(rows', slot) # 0 /\ rows'[HeadId(rows', slot)].session = rows[last].session
    <3> HIDE DEF undone, last
    <3> QED
      BY <1>3, <2>4, <2>5, <2>6, HeadAfterReplacement
  <2>8. Slot(p)' = slot
    BY <1>3 DEF Slot
  <2> HIDE DEF slot, last, head, undone
  <2> QED
    BY <2>3, <2>7, <2>8 DEF HeadSession
<1> QED
  BY <1>4, <1>6 DEF HeadSession

\* An undo gives a branch the head back that the import's binding replaced
\* (restore_replaced_branch_head, lib.rs:1198).
THEOREM UndoRestores == Spec => UndoRestoresReplacedHead
<1>1. IInv /\ [Next]_vars => [\A p \in Procs : UndoExact(p)]_vars
  BY UndoStepExact
<1> QED
  BY InitInv, StepInv, <1>1, PTL DEF Spec, UndoRestoresReplacedHead
(***************************************************************************)
(* What a step writes, exactly.                                            *)
(***************************************************************************)

\* A table that keeps every binding, and makes no old one current.
Extends(table, longer) ==
  /\ Len(table) <= Len(longer)
  /\ \A i \in 1..Len(table) :
       /\ longer[i].slot = table[i].slot /\ longer[i].session = table[i].session
       /\ longer[i].current => table[i].current

\* Every step extends the table.
LEMMA HistoryStep ==
  ASSUME TypeOK, NEW p \in Procs, Step(p)
  PROVE  Extends(rows, rows')
<1>0. rows \in Seq(Row(Slots, Sessions)) /\ Len(rows) \in Nat
  BY DEF TypeOK
<1>1. CASE UNCHANGED <<rows, over>>
  BY <1>0, <1>1 DEF Extends
<1>2. CASE BindStep(p)
  <2>1. PICK s \in Sessions : rows' = ReplaceBranchHead(rows, Slot(p), s)
    BY <1>2 DEF BindStep, Bind
  <2>2. Slot(p) \in Slots
    BY <1>2 DEF BindStep
  <2> QED
    BY <1>0, <2>1, <2>2, ReplacedRows DEF Extends
<1>3. CASE ForgetStep(p)
  BY <1>0, <1>3, DeactivatedRows DEF ForgetStep, ForgetSession, Extends
<1>4. CASE UndoStep(p)
  <2> DEFINE undone == ForgetSession(rows, arg[p].session)
             slot == Slot(p)
             last == LastIdBefore(rows, slot, HeadId(rows, slot))
  <2>1. /\ undone \in Seq(Row(Slots, Sessions)) /\ Len(undone) = Len(rows)
        /\ \A i \in 1..Len(rows) :
             /\ undone[i].slot = rows[i].slot /\ undone[i].session = rows[i].session
             /\ undone[i].current => rows[i].current
    BY <1>0, DeactivatedRows DEF ForgetSession
  <2>2. slot \in Slots /\ rows' = RestoreReplacedHead(rows, slot, arg[p].session)
    BY <1>4 DEF UndoStep
  <2>3. \/ rows' = rows \/ rows' = undone
        \/ last \in RowsOf(rows, slot) /\ rows' = ReplaceBranchHead(undone, slot, rows[last].session)
    BY <1>0, <2>2, RestoredRows
  <2>4. CASE rows' = rows
    BY <1>0, <2>4 DEF Extends
  <2>5. CASE rows' = undone
    BY <1>0, <2>1, <2>5 DEF Extends
  <2>6. CASE last \in RowsOf(rows, slot) /\ rows' = ReplaceBranchHead(undone, slot, rows[last].session)
    <3>1. rows[last] \in Row(Slots, Sessions)
      <4>1. last \in 1..Len(rows)
        BY <1>0, <2>6 DEF RowsOf
      <4> HIDE DEF last
      <4> QED
        BY <1>0, <4>1
    <3> DEFINE s == rows[last].session
    <3>2. s \in Sessions
      BY <3>1 DEF Row
    <3>3. rows' = ReplaceBranchHead(undone, slot, s)
      BY <2>6
    <3> HIDE DEF undone, slot, s
    <3>4. /\ Len(rows') = Len(undone) + 1
          /\ \A i \in 1..Len(undone) :
               /\ rows'[i].slot = undone[i].slot /\ rows'[i].session = undone[i].session
               /\ rows'[i].current => undone[i].current
      BY <2>1, <2>2, <3>2, <3>3, ReplacedRows
    <3> QED
      BY <1>0, <2>1, <3>4 DEF Extends
  <2> QED
    BY <2>3, <2>4, <2>5, <2>6
<1> QED
  BY <1>1, <1>2, <1>3, <1>4, RowSteps

\* Forgetting a session takes it off the branches it heads, and no other session.
LEMMA ForgottenHead ==
  ASSUME NEW A, NEW B, NEW table \in Seq(Row(A, B)), NewestHeads(table, A),
         NEW slot \in A, NEW session
  PROVE  LET undone == ForgetSession(table, session)
             head   == HeadId(table, slot)
         IN  /\ HeadId(undone, slot) =
                  IF head # 0 /\ table[head].session = session THEN 0 ELSE head
             /\ head # 0 => undone[head].session = table[head].session
<1> DEFINE undone == ForgetSession(table, session)
           head == HeadId(table, slot)
           mine == {i \in DOMAIN table : table[i].session = session}
<1>1. /\ Len(undone) = Len(table) /\ undone \in Seq(Row(A, B))
      /\ \A i \in 1..Len(table) :
           /\ undone[i].slot = table[i].slot /\ undone[i].session = table[i].session
           /\ undone[i].current <=> (table[i].current /\ i \notin mine)
  BY DeactivatedRows DEF ForgetSession
<1> HIDE DEF undone
<1>2. CurrentIds(undone, slot) = CurrentIds(table, slot) \ mine
  BY <1>1 DEF CurrentIds, RowsOf
<1>3. /\ head \in Nat /\ CurrentIds(table, slot) \subseteq 1..Len(table)
      /\ head # 0 => head \in CurrentIds(table, slot)
      /\ head = 0 => CurrentIds(table, slot) = {}
  BY HeadIdProperties
<1>4. \A i, j \in CurrentIds(table, slot) : i = j
  <2> TAKE i, j \in CurrentIds(table, slot)
  <2>1. i <= j /\ j <= i
    BY DEF NewestHeads, CurrentIds
  <2> QED
    BY <1>3, <2>1
<1>5. CASE head = 0
  BY <1>2, <1>3, <1>5 DEF HeadId, undone
<1>6. CASE head # 0
  <2>1. CurrentIds(table, slot) = {head} /\ head \in 1..Len(table)
    BY <1>3, <1>4, <1>6
  <2>2. head \in mine <=> table[head].session = session
    BY <2>1
  <2> HIDE DEF head, mine
  <2>3. CASE head \in mine
    <3>1. CurrentIds(undone, slot) = {}
      BY <1>2, <2>1, <2>3
    <3> QED
      BY <1>1, <1>6, <2>1, <2>2, <2>3, <3>1 DEF HeadId, undone, head
  <2>4. CASE head \notin mine
    <3>1. CurrentIds(undone, slot) = {head}
      BY <1>2, <2>1, <2>4
    <3> QED
      BY <1>1, <1>6, <2>1, <2>2, <2>4, <3>1 DEF HeadId, undone, head
  <2> QED
    BY <2>3, <2>4
<1> QED
  BY <1>5, <1>6

\* Replacing the head of one branch leaves the others' alone.
LEMMA OtherHeads ==
  ASSUME NEW A, NEW B, NEW table \in Seq(Row(A, B)), NEW slot \in A, NEW session \in B,
         NEW other \in A, other # slot
  PROVE  LET replaced == ReplaceBranchHead(table, slot, session)
             head     == HeadId(table, other)
         IN  /\ HeadId(replaced, other) = head
             /\ head # 0 => replaced[head].session = table[head].session
<1> DEFINE replaced == ReplaceBranchHead(table, slot, session)
           head == HeadId(table, other)
           n == Len(table)
<1>1. /\ replaced \in Seq(Row(A, B)) /\ Len(replaced) = n + 1 /\ n \in Nat
      /\ replaced[n + 1] = Binding(slot, session)
      /\ \A i \in 1..n :
           /\ replaced[i].slot = table[i].slot
           /\ replaced[i].session = table[i].session
           /\ replaced[i].current <=> (table[i].current /\ table[i].slot # slot)
  BY ReplacedRows
<1>2. replaced[n + 1].slot = slot
  BY <1>1 DEF Binding
<1> HIDE DEF replaced
<1>3. CurrentIds(replaced, other) = CurrentIds(table, other)
  BY <1>1, <1>2 DEF CurrentIds, RowsOf
<1>4. HeadId(replaced, other) = head
  BY <1>3 DEF HeadId
<1>5. head # 0 => head \in 1..n
  BY HeadIdProperties
<1> QED
  BY <1>1, <1>4, <1>5 DEF replaced

\* What a command that compares before it advances has read is still so in its row: the
\* head it read and the session of that head.
ReadIsKept ==
  \A p \in Procs : pc[p] = "advance" =>
    arg[p].head \in 1..Len(rows) /\ rows[arg[p].head].session = arg[p].source

\* A step leaves its command at one place and takes it to another.
LEMMA Moves ==
  ASSUME TypeOK, NEW p \in Procs, NEW here, NEW there, Goto(p, here, there)
  PROVE  pc[p] = here /\ pc'[p] = there
BY DEF Goto, TypeOK

\* Which step ends a comparison, which steps end a deletion or an undo, and which step
\* leads to a comparison.
LEMMA StepAt ==
  ASSUME TypeOK, NEW p \in Procs, Step(p)
  PROVE  /\ pc'[p] = "advance" => AdvanceRead(p)
         /\ pc[p] = "advance" => AdvanceHead(p)
         /\ pc[p] = "forget" => ForgetDeleted(p)
         /\ pc[p] = "undo" => UndoLineage(p) \/ UndoFails(p)
<1>1. CASE StartUnbound(p)
  BY <1>1, Moves DEF StartUnbound, Begins
<1>2. CASE StartValidate(p)
  BY <1>2, Moves DEF StartValidate, Begins
<1>3. CASE StartTask(p)
  BY <1>3, Moves DEF StartTask, Begins
<1>4. CASE Checkout(p)
  BY <1>4, Moves DEF Checkout, Begins
<1>5. CASE BindValidate(p)
  BY <1>5, Moves DEF BindValidate, Begins
<1>6. CASE BindSelect(p)
  BY <1>6, Moves DEF BindSelect, Begins
<1>7. CASE BindRead(p)
  BY <1>7, Moves DEF BindRead, Begins
<1>8. CASE BindSession(p)
  BY <1>8, Moves DEF BindSession, Begins
<1>9. CASE SwitchSelect(p)
  BY <1>9, Moves DEF SwitchSelect, Begins
<1>10. CASE SwitchRead(p)
  BY <1>10, Moves DEF SwitchRead, Begins
<1>11. CASE ResumeSource(p)
  BY <1>11, Moves DEF ResumeSource, Begins
<1>12. CASE EndUnbound(p)
  BY <1>12, Moves DEF EndUnbound, Begins
<1>13. CASE RunInPlace(p)
  BY <1>13, Moves DEF RunInPlace, Begins
<1>14. CASE Rebind(p)
  BY <1>14, Moves DEF Rebind, Begins
<1>15. CASE Generate(p)
  BY <1>15, Moves DEF Generate, Begins
<1>16. CASE RecordLineage(p)
  BY <1>16, Moves DEF RecordLineage, Begins
<1>17. CASE RollBackUnrecorded(p)
  BY <1>17, Moves DEF RollBackUnrecorded, Begins
<1>18. CASE ForkUnrecorded(p)
  BY <1>18, Moves DEF ForkUnrecorded, Begins
<1>19. CASE KeepImport(p)
  BY <1>19, Moves DEF KeepImport, Begins
<1>20. CASE InterruptImport(p)
  BY <1>20, Moves DEF InterruptImport, Begins
<1>21. CASE UndoLineage(p)
  BY <1>21, Moves DEF UndoLineage, Begins
<1>22. CASE UndoFails(p)
  BY <1>22, Moves DEF UndoFails, Begins
<1>23. CASE AdvanceRead(p)
  <2>1. Goto(p, "idle", "advance")
    BY <1>23 DEF AdvanceRead, Begins
  <2> QED
    BY <1>23, <2>1, Moves
<1>24. CASE AdvanceHead(p)
  BY <1>24, Moves DEF AdvanceHead, Begins
<1>25. CASE DeleteNative(p)
  BY <1>25, Moves DEF DeleteNative, Begins
<1>26. CASE ForgetDeleted(p)
  BY <1>26, Moves DEF ForgetDeleted, Begins
<1> QED
  BY <1>1, <1>2, <1>3, <1>4, <1>5, <1>6, <1>7, <1>8, <1>9, <1>10, <1>11, <1>12, <1>13,
     <1>14, <1>15, <1>16, <1>17, <1>18, <1>19, <1>20, <1>21, <1>22, <1>23, <1>24, <1>25,
     <1>26 DEF Step

\* Every step keeps that, because the table is only extended.
LEMMA ReadStep ==
  ASSUME IInv, ReadIsKept, [Next]_vars
  PROVE  ReadIsKept'
<1>1. CASE UNCHANGED vars
  BY <1>1 DEF ReadIsKept, vars
<1>2. ASSUME NEW p \in Procs, Step(p), NEW q \in Procs, pc'[q] = "advance"
      PROVE  arg'[q].head \in 1..Len(rows') /\ rows'[arg'[q].head].session = arg'[q].source
  <2>0. TypeOK /\ Len(rows) \in Nat
    BY DEF IInv, TypeOK
  <2>1. Extends(rows, rows') /\ Len(rows') \in Nat
    BY <1>2, <2>0, HistoryStep, RowsKept DEF IInv
  <2>2. CASE pc[q] = "advance" /\ arg'[q] = arg[q]
    BY <2>0, <2>1, <2>2 DEF ReadIsKept, Extends
  <2>3. CASE q # p
    <3>1. pc'[q] = pc[q] /\ arg'[q] = arg[q]
      BY <1>2, <2>0, <2>3, LocalsTyped DEF TypeOK
    <3> QED
      BY <1>2, <2>2, <3>1
  <2>4. CASE q = p
    <3>1. AdvanceRead(p)
      BY <1>2, <2>0, <2>4, StepAt
    <3>2. PICK t \in tasks, b \in Branches, s \in exists :
            /\ HeadId(rows, <<t, b>>) # 0
            /\ arg' = [arg EXCEPT ![p] =
                         [task |-> t, branch |-> b, session |-> s,
                          source |-> HeadSession(<<t, b>>), head |-> HeadId(rows, <<t, b>>)]]
      BY <3>1 DEF AdvanceRead
    <3>3. /\ rows' = rows /\ arg'[q].head = HeadId(rows, <<t, b>>)
          /\ arg'[q].source = HeadSession(<<t, b>>)
      BY <2>0, <2>4, <3>1, <3>2 DEF AdvanceRead, TypeOK
    <3>4. HeadId(rows, <<t, b>>) \in 1..Len(rows)
      BY <2>0, <3>2, HeadIdProperties DEF TypeOK
    <3> QED
      BY <3>2, <3>3, <3>4 DEF HeadSession
  <2> QED
    BY <2>3, <2>4
<1> QED
  BY <1>1, <1>2 DEF ReadIsKept, Next

\* record_handoff_and_advance_head replaces the head the caller read, or nothing.
LEMMA AdvanceStep ==
  ASSUME IInv, ReadIsKept, [Next]_vars, NEW p \in Procs
  PROVE  AdvanceExact(p)
<1> SUFFICES ASSUME pc[p] = "advance", pc'[p] = "done" PROVE AdvanceExact(p)
  BY DEF AdvanceExact
<1>1. TypeOK /\ rows \in Seq(Row(Slots, Sessions)) /\ arg[p] \in Args
  BY DEF IInv, TypeOK
<1>2. AdvanceHead(p)
  <2>1. Step(p)
    BY <1>1, OnlyItsOwnSteps
  <2> QED
    BY <1>1, <2>1, StepAt
<1>3. CASE UNCHANGED <<rows, handoffs>>
  BY <1>3 DEF AdvanceExact
<1>4. CASE /\ HeadId(rows, Slot(p)) = arg[p].head
           /\ handoffs' = handoffs \cup {<<arg[p].source, arg[p].session>>}
           /\ rows' = ReplaceBranchHead(rows, Slot(p), arg[p].session) /\ arg' = arg
  <2>1. arg[p].head \in 1..Len(rows) /\ rows[arg[p].head].session = arg[p].source
    BY DEF ReadIsKept
  <2>2. HeadSession(Slot(p)) = arg[p].source
    BY <1>4, <2>1 DEF HeadSession
  <2>3. rows[arg[p].head].session \in Sessions
    <3>1. rows[arg[p].head] \in Row(Slots, Sessions)
      BY <1>1, <2>1
    <3> QED
      BY <3>1 DEF Row
  <2>4. Slot(p) \in Slots /\ arg[p].session \in Sessions
    BY <1>1, <1>2 DEF AdvanceHead, Goto, TypeOK, Slot, Slots, Args
  <2>5. HeadId(rows', Slot(p)) # 0 /\ rows'[HeadId(rows', Slot(p))].session = arg[p].session
    BY <1>1, <1>4, <2>4, HeadAfterReplacement
  <2>6. Slot(p)' = Slot(p)
    BY <1>4 DEF Slot
  <2>7. HeadSession(Slot(p))' = arg[p].session
    BY <2>5, <2>6 DEF HeadSession
  <2> QED
    BY <1>4, <2>1, <2>2, <2>3, <2>7, NoSessionAssumption DEF AdvanceExact
<1> QED
  BY <1>2, <1>3, <1>4 DEF AdvanceHead, Bind

\* Forgetting a session and undoing an import touch no branch but those they should.
LEMMA ForgetStepExact ==
  ASSUME IInv, [Next]_vars, NEW p \in Procs
  PROVE  ForgetExact(p)
<1> SUFFICES ASSUME pc[p] \in {"forget", "undo"}, pc'[p] = "done", rows' # rows,
                    NEW slot \in Slots, ~(pc[p] = "undo" /\ slot = Slot(p))
             PROVE  HeadSession(slot)' = IF HeadSession(slot) = arg[p].session THEN NoSession
                                         ELSE HeadSession(slot)
  BY DEF ForgetExact
<1> DEFINE undone == ForgetSession(rows, arg[p].session)
           head == HeadId(rows, slot)
<1>1. TypeOK /\ rows \in Seq(Row(Slots, Sessions)) /\ arg[p] \in Args /\ NewestHeads(rows, Slots)
  BY DEF IInv, TypeOK, HeadIsNewestRow, NewestHeads
<1>2. ForgetDeleted(p) \/ UndoLineage(p)
  <2>1. Step(p)
    BY <1>1, OnlyItsOwnSteps
  <2> QED
    BY <1>1, <2>1, StepAt DEF UndoFails
<1>3. /\ HeadId(undone, slot) =
            IF head # 0 /\ rows[head].session = arg[p].session THEN 0 ELSE head
      /\ head # 0 => undone[head].session = rows[head].session
  BY <1>1, ForgottenHead
<1>4. undone \in Seq(Row(Slots, Sessions))
  BY <1>1, DeactivatedRows DEF ForgetSession
<1>5. head # 0 => rows[head].session \in Sessions
  BY <1>1, HeadIdInTable
<1>6. arg[p].session \in Sessions
  BY <1>1 DEF TypeOK
<1> HIDE DEF undone
<1>7. CASE rows' = undone
  BY <1>3, <1>5, <1>6, <1>7, NoSessionAssumption DEF HeadSession
<1>8. CASE /\ pc[p] = "undo" /\ Slot(p) \in Slots
           /\ \E s \in Sessions : rows' = ReplaceBranchHead(undone, Slot(p), s)
  <2>1. PICK s \in Sessions : rows' = ReplaceBranchHead(undone, Slot(p), s)
    BY <1>8
  <2>2. slot # Slot(p)
    BY <1>8
  <2> DEFINE left == HeadId(undone, slot)
  <2>3. HeadId(rows', slot) = left /\ (left # 0 => rows'[left].session = undone[left].session)
    BY <1>4, <1>8, <2>1, <2>2, OtherHeads
  <2> QED
    BY <1>3, <1>5, <1>6, <2>3, NoSessionAssumption DEF HeadSession
<1>9. CASE ForgetDeleted(p)
  BY <1>7, <1>9 DEF ForgetDeleted, undone
<1>10. CASE UndoLineage(p)
  <2>1. CASE arg[p].task = NoTask
    BY <1>7, <1>10, <2>1 DEF UndoLineage, undone
  <2>2. CASE arg[p].task # NoTask
    <3> DEFINE last == LastIdBefore(rows, Slot(p), HeadId(rows, Slot(p)))
    <3>1. Slot(p) \in Slots /\ rows' = RestoreReplacedHead(rows, Slot(p), arg[p].session)
      BY <1>1, <1>10, <2>2 DEF UndoLineage, Slot, Slots, Args
    <3>2. \/ rows' = undone
          \/ last \in RowsOf(rows, Slot(p)) /\ rows' = ReplaceBranchHead(undone, Slot(p), rows[last].session)
      BY <1>1, <3>1, RestoredRows DEF undone
    <3>3. last \in RowsOf(rows, Slot(p)) => rows[last].session \in Sessions
      <4> HIDE DEF last
      <4> SUFFICES ASSUME last \in RowsOf(rows, Slot(p)) PROVE rows[last].session \in Sessions
        OBVIOUS
      <4>1. rows[last] \in Row(Slots, Sessions)
        BY <1>1 DEF RowsOf
      <4> QED
        BY <4>1 DEF Row
    <3>4. pc[p] = "undo"
      BY <1>10 DEF UndoLineage, Goto
    <3> QED
      BY <1>7, <1>8, <3>1, <3>2, <3>3, <3>4
  <2> QED
    BY <2>1, <2>2
<1> QED
  BY <1>2, <1>9, <1>10

\* A step of the commands keeps every binding (no row is removed or rewritten), advances
\* only the head the caller read (record_handoff_and_advance_head, lib.rs:842), and
\* forgets a session on exactly the branches it heads (forget_session).
THEOREM WritesExactly == Spec => WritesAreExact
<1>1. Init => ReadIsKept
  BY DEF Init, ReadIsKept
<1>2. IInv /\ ReadIsKept /\ [Next]_vars => ReadIsKept'
  BY ReadStep
<1>3. IInv /\ ReadIsKept /\ [Next]_vars
        => [HistoryKept /\ \A p \in Procs : AdvanceExact(p) /\ ForgetExact(p)]_vars
  <2> SUFFICES ASSUME IInv, ReadIsKept, [Next]_vars, ~UNCHANGED vars
               PROVE  HistoryKept /\ \A p \in Procs : AdvanceExact(p) /\ ForgetExact(p)
    OBVIOUS
  <2>1. PICK p \in Procs : Step(p)
    BY DEF Next
  <2>2. Extends(rows, rows')
    BY <2>1, HistoryStep DEF IInv
  <2>3. HistoryKept
    <3>1. DOMAIN rows = 1..Len(rows)
      BY DEF IInv, TypeOK
    <3> QED
      BY <2>2, <3>1 DEF HistoryKept, Extends
  <2> QED
    BY <2>3, AdvanceStep, ForgetStepExact
<1> QED
  BY InitInv, StepInv, <1>1, <1>2, <1>3, PTL DEF Spec, WritesAreExact
==============================================================================
