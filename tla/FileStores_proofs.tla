-------------------------- MODULE FileStores_proofs --------------------------
(***************************************************************************)
(* Proofs about ProviderStores, for any number of commands: the invariant   *)
(* of each kind of store whose sessions are files, and what a step may      *)
(* destroy.  IndexedStores_proofs and ProviderStores_proofs have the other  *)
(* kinds and the theorems.                                                  *)
(***************************************************************************)
EXTENDS ProviderStores, TLAPS

Values ==
  Contents \cup {"theirs", "shared", "before", "ours", "both", "emptied", "others"}

StoreTyped == disk \in [Names -> Values] /\ aside \in [Names -> Values]

Whats == {"import", "read", "delete"}

Locals ==
  [plan : Seq(Names), moved : Nat, bad : BOOLEAN, goal : {"none", "failed", "undone"},
   found : Values \cup Whats \cup {"fresh", "unsure"}, created : BOOLEAN, owed : BOOLEAN]

Requests == [id : Nat, what : Whats]
Messages == [id : Nat, to : Whats, says : {"done", "refused"} \cup Contents]

Typed ==
  /\ StoreTyped /\ locals \in Locals
  /\ kind \in Kinds /\ agent \in {"open", "closed"} /\ knows \in BOOLEAN
  /\ helper \in [up : BOOLEAN, asked : Seq(Requests), said : Seq(Messages)]

\* What the commands of every kind have in common: how they end agrees with whether the
\* session is listed.
Common ==
  /\ command = "none" =>
       pc = "idle" /\ outcome = "none" /\ ~knows /\ ~Listed /\ ~locals.owed
  /\ pc # "idle" => outcome = "running"
  /\ command = "import" /\ pc # "idle" => ~locals.owed
  /\ outcome = "imported" => command = "import" /\ Listed /\ ~locals.owed
  /\ outcome \in {"undone", "deleted"} => ~Listed
  /\ kind \notin Commanded => helper = Nobody
  /\ disk["selection"] \in {"before", "ours", "both", "emptied", "others"}
  /\ disk["elsewhere"] \in {"before", "both", "others"}
  /\ disk["blob"] \in {"none", "made", "theirs", "shared"}
  /\ kind # "cursor_ide" => disk["selection"] = "before" /\ disk["elsewhere"] = "before"
                            /\ disk["blob"] = "none"

Nothing(S) == \A n \in S : disk[n] = "none"
NoneAside == \A n \in Names : aside[n] = "none"

\* The plan of a deletion that is under way: the entries a and b, or one of them.
Planned(a, b) ==
  /\ Len(locals.plan) \in 0..2 /\ \A i \in 1..Len(locals.plan) : locals.plan[i] \in {a, b}
  /\ Len(locals.plan) = 2 => locals.plan[1] = a /\ locals.plan[2] = b
  /\ locals.moved \in 0..Len(locals.plan)

\* A plan has the two entries in its order, as far as they are there.
LEMMA PlanShape ==
  ASSUME NEW a \in Names, NEW b \in Names, NEW S
  PROVE  /\ InOrder(a, b, S) \in Seq(Names) /\ Len(InOrder(a, b, S)) \in 0..2
         /\ \A i \in 1..Len(InOrder(a, b, S)) : InOrder(a, b, S)[i] \in {a, b}
         /\ Len(InOrder(a, b, S)) = 2 => InOrder(a, b, S)[1] = a /\ InOrder(a, b, S)[2] = b
         /\ a \in S => InOrder(a, b, S) # <<>> /\ InOrder(a, b, S)[1] = a
  BY DEF InOrder, Only

\* The local variables of a command that begins.
LEMMA EmptyLocals == Empty \in Locals
<1>1. <<>> \in Seq(Names)
  OBVIOUS
<1>2. "none" \in Values
  BY DEF Values, Contents
<1> QED
  BY <1>1, <1>2 DEF Empty, Locals

\* An update of the local variables, one by one.
LEMMA LocalsUpdate ==
  ASSUME locals \in Locals
  PROVE  /\ locals.plan \in Seq(Names) /\ locals.moved \in Nat
         /\ locals.owed \in BOOLEAN
         /\ \A m \in Nat : [locals EXCEPT !.moved = m] \in Locals
         /\ \A m \in Nat :
              [locals EXCEPT !.moved = m, !.bad = TRUE, !.owed = TRUE] \in Locals
         /\ \A plan \in Seq(Names) : [locals EXCEPT !.plan = plan] \in Locals
         /\ \A goal \in {"failed", "undone"} : [locals EXCEPT !.goal = goal] \in Locals
         /\ \A owed \in BOOLEAN : [locals EXCEPT !.owed = owed] \in Locals
         /\ \A created \in BOOLEAN : [locals EXCEPT !.created = created] \in Locals
         /\ \A found \in Values \cup {"fresh"} : [locals EXCEPT !.found = found] \in Locals
  BY DEF Locals

\* The next entry of a plan, and the last one that was moved.
LEMMA NextInPlan ==
  ASSUME NEW a \in Names, NEW b \in Names, Planned(a, b), locals.moved < Len(locals.plan)
  PROVE  /\ locals.moved \in {0, 1} /\ locals.plan[locals.moved + 1] \in {a, b}
         /\ locals.moved = 0 => locals.plan[locals.moved + 1] = locals.plan[1]
         /\ locals.moved = 1 => Len(locals.plan) = 2 /\ locals.plan[locals.moved + 1] = b
  BY DEF Planned

\* The entry that was moved last.
LEMMA LastOfPlan ==
  ASSUME NEW a \in Names, NEW b \in Names, Planned(a, b), locals.moved > 0
  PROVE  /\ locals.moved \in {1, 2} /\ locals.plan[locals.moved] \in {a, b}
         /\ locals.moved = 1 => locals.plan[locals.moved] = locals.plan[1]
         /\ locals.moved = 2 => Len(locals.plan) = 2 /\ locals.plan[locals.moved] = b
  BY DEF Planned

-----------------------------------------------------------------------------
(* The steps of every kind *)

\* A command begins or is killed, and what the agent does.
Shared ==
  /\ Import \/ Undo \/ Delete \/ DeleteAnother \/ Kill \/ AgentStep
  /\ UNCHANGED helper

\* They keep the types.
LEMMA SharedTyped ==
  ASSUME Typed, Shared
  PROVE  Typed'
<1>0. helper' = helper /\ kind' = kind
  BY DEF Shared, Import, Undo, Delete, DeleteAnother, Begin, Kill, around, AgentStep, Around
<1> USE <1>0, LocalsUpdate DEF Typed, StoreTyped, Generated, Contents, Names, Values, Put,
   store, around
<1>1. CASE Import
  BY <1>1 DEF Import, First, Begin
<1>2. CASE Undo
  BY <1>2 DEF Undo, First, Begin, AimAt
<1>3. CASE Delete
  <2>1. locals' \in Locals
    BY <1>3, EmptyLocals DEF Delete, Locals
  <2> QED
    BY <1>3, <2>1 DEF Delete, Begin
<1>4. CASE DeleteAnother
  BY <1>4 DEF DeleteAnother, First, Begin
<1>5. CASE Kill
  <2>1. PICK owed \in BOOLEAN : locals' = [locals EXCEPT !.owed = owed]
    BY <1>5 DEF Kill, Staged, Locals
  <2> QED
    BY <1>5, <2>1 DEF Kill
<1>6. CASE Around(Open)
  BY <1>6 DEF Around, Open
<1>7. CASE Around(Close)
  BY <1>7 DEF Around, Close
<1>8. CASE Around(Continue)
  <2>1. UNCHANGED <<kind, aside, locals, agent>> /\ knows' = TRUE
    BY <1>8 DEF Around, Continue
  <2>2. disk' = [n \in Names |-> IF n \in TouchedBy[kind] THEN "grown" ELSE disk[n]]
    BY <1>8 DEF Around, Continue
  <2>3. \A n \in Names : (IF n \in TouchedBy[kind] THEN "grown" ELSE disk[n]) \in Values
    OBVIOUS
  <2> HIDE DEF Names, Values
  <2>4. disk' \in [Names -> Values]
    BY <2>2, <2>3
  <2> QED
    BY <2>1, <2>4
<1>9. CASE Around(Recreate)
  BY <1>9 DEF Around, Recreate
<1>10. CASE Around(SelectOrShare)
  <2>1. PICK n \in {"selection", "elsewhere", "blob"} :
          /\ disk' = [disk EXCEPT ![n] = IF n = "blob" THEN "shared" ELSE "both"]
          /\ n = "blob" => disk["blob"] = "made"
    BY <1>10 DEF Around, SelectOrShare
  <2>2. kind = "cursor_ide" /\ UNCHANGED <<aside, command, pc, locals, outcome, agent, knows>>
    BY <1>10 DEF Around, SelectOrShare
  <2> QED
    BY <2>1, <2>2
<1> QED
  BY <1>1, <1>2, <1>3, <1>4, <1>5, <1>6, <1>7, <1>8, <1>9, <1>10 DEF Shared, AgentStep

\* They keep what the kinds have in common.
LEMMA SharedCommon ==
  ASSUME Typed, Common, Shared
  PROVE  Common'
<1>0. helper' = helper /\ kind' = kind
  BY DEF Shared, Import, Undo, Delete, DeleteAnother, Begin, Kill, around, AgentStep, Around
<1> USE <1>0 DEF Typed, StoreTyped, Common, Listed, Names, Generated, Put, store, around
<1>1. CASE Import
  BY <1>1 DEF Import, First, Begin
<1>2. CASE Undo
  BY <1>2, LocalsUpdate DEF Undo, First, Begin, AimAt
<1>3. CASE Delete
  BY <1>3 DEF Delete, Begin, Empty, Locals
<1>4. CASE DeleteAnother
  BY <1>4 DEF DeleteAnother, First, Begin
<1>5. CASE Kill
  <2>1. command # "none" /\ command' = command /\ outcome' = "killed" /\ pc' = "idle"
    BY <1>5 DEF Kill
  <2> QED
    BY <1>5, <2>1 DEF Kill
<1>6. CASE Around(Open)
  BY <1>6 DEF Around, Open
<1>7. CASE Around(Close)
  BY <1>7 DEF Around, Close
<1>8. CASE Around(Continue)
  <2>1. /\ pc' = pc /\ locals' = locals /\ outcome' = outcome /\ command' = command
        /\ Listed /\ UNCHANGED agent
    BY <1>8 DEF Around, Continue
  <2>2. ASSUME NEW n \in Names
        PROVE  disk'[n] = disk[n] \/ (disk'[n] = "grown" /\ n \in TouchedBy[kind])
    BY <1>8 DEF Around, Continue
  <2>3. TouchedBy[kind] \cap {"selection", "elsewhere", "blob"} = {}
    BY StoresAssumption DEF TouchedBy, Parts
  <2>4. Listing[kind] \in Names
    BY StoresAssumption DEF Listing, Parts
  <2>5. Listed'
    BY <2>1, <2>2, <2>4
  <2>6. \A n \in {"selection", "elsewhere", "blob"} : disk'[n] = disk[n]
    BY <2>2, <2>3
  <2> QED
    BY <2>1, <2>5, <2>6
<1>9. CASE Around(Recreate)
  <2>1. kind \in {"claude", "pi", "cursor_cli"} /\ disk' = [disk EXCEPT ![Listing[kind]] = "new"]
    BY <1>9 DEF Around, Recreate
  <2>2. UNCHANGED <<command, pc, locals, outcome, knows>> /\ disk[Listing[kind]] = "none"
    BY <1>9 DEF Around, Recreate, TouchedBy, Listing
  <2> QED
    BY <2>1, <2>2 DEF Listing
<1>10. CASE Around(SelectOrShare)
  <2>1. PICK n \in {"selection", "elsewhere", "blob"} :
          /\ disk' = [disk EXCEPT ![n] = IF n = "blob" THEN "shared" ELSE "both"]
          /\ n = "blob" => disk["blob"] = "made"
    BY <1>10 DEF Around, SelectOrShare
  <2>2. kind = "cursor_ide" /\ UNCHANGED <<aside, command, pc, locals, outcome, agent, knows>>
    BY <1>10 DEF Around, SelectOrShare
  <2> QED
    BY <2>1, <2>2 DEF Listing
<1> QED
  BY <1>1, <1>2, <1>3, <1>4, <1>5, <1>6, <1>7, <1>8, <1>9, <1>10 DEF Shared, AgentStep

\* They lose nothing.
LEMMA SharedTurns ==
  ASSUME Typed, Common, Shared
  PROVE  TurnsStay /\ BlobsStay
<1> USE DEF Typed, StoreTyped, Common, Names, store, Put, TurnsStay, BlobsStay, Kept,
   KeptNext, Turns
<1>1. CASE Import
  BY <1>1 DEF Import, Begin
<1>2. CASE Undo
  BY <1>2 DEF Undo, Begin
<1>3. CASE Delete
  BY <1>3 DEF Delete, Begin
<1>4. CASE DeleteAnother
  BY <1>4 DEF DeleteAnother, Begin
<1>5. CASE Kill
  BY <1>5 DEF Kill
<1>6. CASE Around(Open)
  BY <1>6 DEF Around, Open
<1>7. CASE Around(Close)
  BY <1>7 DEF Around, Close
<1>8. CASE Around(Continue)
  <2>1. ASSUME NEW n \in Names
        PROVE  /\ aside'[n] = aside[n]
               /\ disk'[n] = disk[n] \/ (disk'[n] = "grown" /\ n \in TouchedBy[kind])
    BY <1>8 DEF Around, Continue
  <2>2. "blob" \notin TouchedBy[kind]
    BY StoresAssumption DEF TouchedBy, Parts
  <2> QED
    BY <2>1, <2>2
<1>9. CASE Around(Recreate)
  BY <1>9 DEF Around, Recreate
<1>10. CASE Around(SelectOrShare)
  <2>1. PICK n \in {"selection", "elsewhere", "blob"} :
          /\ disk' = [disk EXCEPT ![n] = IF n = "blob" THEN "shared" ELSE "both"]
          /\ n = "blob" => disk["blob"] = "made"
    BY <1>10 DEF Around, SelectOrShare
  <2>2. kind = "cursor_ide" /\ UNCHANGED <<aside, command, pc, locals, outcome, agent, knows>>
    BY <1>10 DEF Around, SelectOrShare
  <2> QED
    BY <2>1, <2>2
<1> QED
  BY <1>1, <1>2, <1>3, <1>4, <1>5, <1>6, <1>7, <1>8, <1>9, <1>10 DEF Shared, AgentStep
-----------------------------------------------------------------------------
(* Claude Code *)

\* A sidecar that is away from a listed transcript has been told of.
SidecarInPlace == locals.owed \/ aside["sidecar"] = "none" \/ disk["sidecar"] # "none"

\* Where its commands are, and what they know there: the transcript is staged first and
\* put back last, so a listed session has its sidecar, or somebody was told.
ClaudeInv ==
  /\ disk["transcript"] \in Contents
  /\ aside["transcript"] \in {"none", "made", "grown"}
  /\ disk["sidecar"] \in {"none", "grown"} /\ aside["sidecar"] \in {"none", "grown"}
  /\ Listed => SidecarInPlace
  /\ command = "none" => Nothing({"transcript", "sidecar"}) /\ NoneAside
  /\ command \in {"import", "undo"} =>
       /\ aside["sidecar"] = "none"
       /\ disk["transcript"] = "made" => disk["sidecar"] = "none"
       /\ pc # "idle" /\ aside["transcript"] = "made" => disk["sidecar"] = "none"
       /\ pc \in {"idle", "import", "publish", "published", "undo", "compare", "put_back",
                  "remove"}
  /\ command = "undo" => pc \notin {"import", "publish", "published"}
  /\ command = "delete" =>
       pc \in {"idle", "check", "delete", "stage", "restore", "move_back", "discard"}
  /\ command \in {"none", "import", "undo", "delete"}
  /\ pc \in {"import", "publish"} => Nothing({"transcript", "sidecar"})
  /\ pc \in {"import", "publish"} => aside["transcript"] = "none" /\ ~knows
  /\ pc \in {"compare", "put_back", "remove"} => disk["transcript"] \in {"none", "new"}
  /\ pc = "remove" => aside["transcript"] = "made"
  /\ pc \in {"published", "undo"} \/ outcome = "imported" =>
       Listed /\ aside["transcript"] = "none"
  /\ command = "delete" /\ pc \in {"check", "delete"} => locals.moved = 0
  /\ pc = "stage" /\ locals.moved = 0 => Listed
  /\ pc \in {"stage", "restore", "move_back", "discard"} =>
       Planned("transcript", "sidecar") /\ locals.plan # <<>> /\ locals.plan[1] = "transcript"
  /\ (pc = "discard" \/ (pc = "stage" /\ locals.moved > 0)) => ~Listed
  /\ pc = "move_back" => locals.moved > 0
  /\ pc \in {"stage", "restore", "move_back"} /\ locals.moved < 2 => SidecarInPlace
  /\ outcome \in {"failed", "undone"} /\ command \in {"import", "undo"} =>
       /\ disk["transcript"] \in {"none", "new"} /\ aside["transcript"] = "none"
       /\ disk["sidecar"] = "none"

\* The next entry of its plans, and the last one that was moved.
LEMMA ClaudeOrder ==
  ASSUME Planned("transcript", "sidecar")
  PROVE  /\ locals.moved < Len(locals.plan) =>
              /\ locals.moved \in {0, 1} /\ locals.plan[locals.moved + 1] \in {"transcript", "sidecar"}
              /\ locals.moved = 0 => locals.plan[locals.moved + 1] = locals.plan[1]
              /\ locals.moved = 1 => Len(locals.plan) = 2 /\ locals.plan[locals.moved + 1] = "sidecar"
         /\ locals.moved > 0 => locals.moved \in {1, 2} /\ locals.plan[locals.moved] \in {"transcript", "sidecar"}
<1>1. "transcript" \in Names /\ "sidecar" \in Names
  BY DEF Names
<1> QED
  BY <1>1, NextInPlan, LastOfPlan

\* The plan of its deletions: the transcript comes first.
LEMMA ClaudePlanned ==
  ASSUME "transcript" \in Existing
  PROVE  LET plan == InOrder("transcript", "sidecar", Existing)
         IN  /\ plan \in Seq(Names) /\ Len(plan) \in 0..2
             /\ \A i \in 1..Len(plan) : plan[i] \in {"transcript", "sidecar"}
             /\ Len(plan) = 2 => plan[1] = "transcript" /\ plan[2] = "sidecar"
             /\ plan # <<>> /\ plan[1] = "transcript"
<1>1. "transcript" \in Names /\ "sidecar" \in Names
  BY DEF Names
<1>2. \A S : InOrder("transcript", "sidecar", S) \in Seq(Names)
  BY <1>1, PlanShape
<1> QED
  BY <1>2 DEF InOrder, Only

\* A step of a command keeps the types.
LEMMA ClaudeStoreTyped ==
  ASSUME Typed, Common, ClaudeInv, kind = "claude", ClaudeStep, UNCHANGED helper
  PROVE  StoreTyped'
<1> USE DEF Typed, StoreTyped, Goto, Step, End, EndBadly, Put, SetAside, PutBack,
            Names, Values, Contents, Generated, store
<1>1. CASE ClaudeIdentify
  BY <1>1 DEF ClaudeIdentify
<1>2. CASE ClaudePublish
  BY <1>2 DEF ClaudePublish
<1>3. CASE ClaudeValidate
  BY <1>3 DEF ClaudeValidate
<1>4. CASE ClaudeMoveAside
  BY <1>4 DEF ClaudeMoveAside
<1>5. CASE ClaudeCompare
  BY <1>5 DEF ClaudeCompare
<1>6. CASE ClaudePutBack
  BY <1>6 DEF ClaudePutBack
<1>7. CASE ClaudeRemove
  BY <1>7 DEF ClaudeRemove
<1>8. CASE ClaudeIdle
  BY <1>8 DEF ClaudeIdle, Checked
<1>9. CASE ClaudePlan
  BY <1>9 DEF ClaudePlan
<1>10. CASE ClaudeStage
  BY <1>10 DEF ClaudeStage
<1>11. CASE ClaudeLook
  BY <1>11 DEF ClaudeLook
<1>12. CASE ClaudeMoveBack
  BY <1>12 DEF ClaudeMoveBack
<1>13. CASE ClaudeRestored
  BY <1>13 DEF ClaudeRestored
<1>14. CASE ClaudeDiscard
  BY <1>14 DEF ClaudeDiscard
<1> QED
  BY <1>1, <1>2, <1>3, <1>4, <1>5, <1>6, <1>7, <1>8, <1>9, <1>10, <1>11, <1>12, <1>13,
     <1>14 DEF ClaudeStep

\* A step of a command keeps the types of the local variables.
LEMMA ClaudeLocals ==
  ASSUME Typed, Common, ClaudeInv, kind = "claude", ClaudeStep, UNCHANGED helper
  PROVE  locals' \in Locals
<1>0. locals \in Locals /\ locals.moved \in Nat
  BY LocalsUpdate DEF Typed
<1> USE DEF Goto, Step, End, EndBadly, AimAt
<1>1. CASE ClaudeIdentify
  BY <1>1, <1>0, LocalsUpdate DEF ClaudeIdentify
<1>2. CASE ClaudePublish
  BY <1>2, <1>0, LocalsUpdate DEF ClaudePublish
<1>3. CASE ClaudeValidate
  BY <1>3, <1>0, LocalsUpdate DEF ClaudeValidate
<1>4. CASE ClaudeMoveAside
  BY <1>4, <1>0, LocalsUpdate DEF ClaudeMoveAside
<1>5. CASE ClaudeCompare
  BY <1>5, <1>0, LocalsUpdate DEF ClaudeCompare
<1>6. CASE ClaudePutBack
  BY <1>6, <1>0, LocalsUpdate DEF ClaudePutBack
<1>7. CASE ClaudeRemove
  BY <1>7, <1>0, LocalsUpdate DEF ClaudeRemove
<1>8. CASE ClaudeIdle
  BY <1>8, <1>0, LocalsUpdate DEF ClaudeIdle, Checked
<1>9. CASE ClaudePlan
  <2>1. "transcript" \in Names /\ "sidecar" \in Names
    BY DEF Names
  <2>2. DeletionPlan \in Seq(Names)
    BY <2>1, PlanShape DEF DeletionPlan
  <2> QED
    BY <1>0, <1>9, <2>2, LocalsUpdate DEF ClaudePlan
<1>10. CASE ClaudeStage
  <2>1. locals' \in {locals, [locals EXCEPT !.moved = locals.moved + 1]}
    BY <1>10 DEF ClaudeStage
  <2>2. locals.moved + 1 \in Nat
    BY <1>0
  <2> QED
    BY <1>0, <2>1, <2>2, LocalsUpdate
<1>11. CASE ClaudeLook
  <2>1. locals.moved \in Nat /\ locals.moved > 0
    BY <1>0, <1>11 DEF ClaudeLook, ClaudeInv
  <2>2. locals.moved - 1 \in Nat
    BY <2>1
  <2>3. locals' \in {locals, [locals EXCEPT !.moved = locals.moved - 1],
                     [locals EXCEPT !.moved = locals.moved - 1, !.bad = TRUE, !.owed = TRUE]}
    BY <1>11 DEF ClaudeLook
  <2> QED
    BY <1>0, <2>2, <2>3, LocalsUpdate
<1>12. CASE ClaudeMoveBack
  <2>1. locals.moved \in Nat /\ locals.moved > 0
    BY <1>0, <1>12 DEF ClaudeMoveBack, ClaudeInv
  <2>2. locals.moved - 1 \in Nat
    BY <2>1
  <2>3. locals' \in {locals, [locals EXCEPT !.moved = locals.moved - 1],
                     [locals EXCEPT !.moved = locals.moved - 1, !.bad = TRUE, !.owed = TRUE]}
    BY <1>12 DEF ClaudeMoveBack
  <2> QED
    BY <1>0, <2>2, <2>3, LocalsUpdate
<1>13. CASE ClaudeRestored
  BY <1>13, <1>0, LocalsUpdate DEF ClaudeRestored
<1>14. CASE ClaudeDiscard
  BY <1>14, <1>0, LocalsUpdate DEF ClaudeDiscard
<1> QED
  BY <1>1, <1>2, <1>3, <1>4, <1>5, <1>6, <1>7, <1>8, <1>9, <1>10, <1>11, <1>12, <1>13,
     <1>14 DEF ClaudeStep

\* A step of a command keeps what the kinds have in common.
LEMMA ClaudeCommon ==
  ASSUME Typed, Common, ClaudeInv, kind = "claude", ClaudeStep, UNCHANGED helper
  PROVE  Common'
<1> USE DEF Typed, StoreTyped, Locals, Common, ClaudeInv, Goto, Step, End, EndBadly,
   AimAt, Put, SetAside,
        PutBack, Listed, Listing, Generated, Names, Commanded, around, store
<1>1. CASE ClaudeIdentify
  BY <1>1 DEF ClaudeIdentify
<1>2. CASE ClaudePublish
  BY <1>2 DEF ClaudePublish
<1>3. CASE ClaudeValidate
  BY <1>3 DEF ClaudeValidate
<1>4. CASE ClaudeMoveAside
  BY <1>4 DEF ClaudeMoveAside
<1>5. CASE ClaudeCompare
  BY <1>5 DEF ClaudeCompare
<1>6. CASE ClaudePutBack
  BY <1>6 DEF ClaudePutBack
<1>7. CASE ClaudeRemove
  BY <1>7 DEF ClaudeRemove
<1>8. CASE ClaudeIdle
  BY <1>8 DEF ClaudeIdle, Checked
<1>9. CASE ClaudePlan
  BY <1>9 DEF ClaudePlan
<1>10. CASE ClaudeStage
  <2>1. /\ UNCHANGED <<kind, agent, knows, command, count, outcome>> /\ locals'.owed = locals.owed
        /\ pc = "stage" /\ pc' \in {"stage", "discard", "restore"}
    BY <1>10 DEF ClaudeStage
  <2>2. \A n \in {"selection", "elsewhere", "blob"} : disk'[n] = disk[n]
    <3>1. CASE locals.moved < Len(locals.plan) /\ SetAside(locals.plan[locals.moved + 1])
      <4>1. Planned("transcript", "sidecar") /\ "transcript" \in Names /\ "sidecar" \in Names
        BY <2>1
      <4>2. PICK n \in {"transcript", "sidecar"} : SetAside(n)
        BY <3>1, <4>1, ClaudeOrder
      <4> QED
        BY <4>2
    <3> QED
      BY <1>10, <3>1 DEF ClaudeStage
  <2> QED
    BY <2>1, <2>2
<1>11. CASE ClaudeLook
  BY <1>11 DEF ClaudeLook
<1>12. CASE ClaudeMoveBack
  BY <1>12 DEF ClaudeMoveBack, Planned
<1>13. CASE ClaudeRestored
  BY <1>13 DEF ClaudeRestored
<1>14. CASE ClaudeDiscard
  BY <1>14 DEF ClaudeDiscard
<1> QED
  BY <1>1, <1>2, <1>3, <1>4, <1>5, <1>6, <1>7, <1>8, <1>9, <1>10, <1>11, <1>12, <1>13,
     <1>14 DEF ClaudeStep

\* A step of a command keeps the invariant.
LEMMA ClaudeOwn ==
  ASSUME Typed, Common, ClaudeInv, kind = "claude", ClaudeStep, UNCHANGED helper
  PROVE  ClaudeInv'
<1> USE DEF Typed, StoreTyped, Locals, Common, ClaudeInv, Goto, Step, End, EndBadly,
   AimAt, Put, SetAside,
        PutBack, Listed, Listing, Generated, Contents, Names, Values, Nothing, NoneAside,
        SidecarInPlace, around, store
<1>1. CASE ClaudeIdentify
  BY <1>1 DEF ClaudeIdentify
<1>2. CASE ClaudePublish
  BY <1>2 DEF ClaudePublish
<1>3. CASE ClaudeValidate
  BY <1>3 DEF ClaudeValidate
<1>4. CASE ClaudeMoveAside
  BY <1>4 DEF ClaudeMoveAside
<1>5. CASE ClaudeCompare
  BY <1>5 DEF ClaudeCompare
<1>6. CASE ClaudePutBack
  BY <1>6 DEF ClaudePutBack
<1>7. CASE ClaudeRemove
  BY <1>7 DEF ClaudeRemove
<1>8. CASE ClaudeIdle
  BY <1>8 DEF ClaudeIdle, Checked
<1>9. CASE ClaudePlan
  <2> DEFINE plan == InOrder("transcript", "sidecar", Existing)
  <2>1. CASE End("delete", "failed") /\ UNCHANGED store
    BY <2>1
  <2>2. CASE /\ Listed /\ Goto("delete", "stage") /\ UNCHANGED store
             /\ locals' = [locals EXCEPT !.plan = plan]
    <3>1. "transcript" \in Existing
      BY <2>2 DEF Existing
    <3>2. /\ \A i \in 1..Len(plan) : plan[i] \in {"transcript", "sidecar"}
          /\ Len(plan) \in 0..2 /\ (Len(plan) = 2 => plan[1] = "transcript" /\ plan[2] = "sidecar")
          /\ plan # <<>> /\ plan[1] = "transcript"
      BY <3>1, ClaudePlanned
    <3> HIDE DEF plan
    <3>3. locals'.plan = plan /\ locals'.moved = 0 /\ locals'.owed = locals.owed
      BY <2>2
    <3>4. /\ UNCHANGED <<disk, aside, kind, agent, knows, command, outcome>>
          /\ Listed /\ pc = "delete" /\ pc' = "stage"
      BY <2>2
    <3>5. Planned("transcript", "sidecar")'
      BY <3>2, <3>3 DEF Planned
    <3> HIDE DEF Goto, Step, End, EndBadly, AimAt, Put, SetAside, PutBack
    <3> QED
      BY <3>2, <3>3, <3>4, <3>5
  <2> QED
    BY <1>9, <2>1, <2>2 DEF ClaudePlan, DeletionPlan
<1>10. CASE ClaudeStage
  <2>1. CASE /\ locals.moved < Len(locals.plan)
             /\ SetAside(locals.plan[locals.moved + 1])
             /\ Goto("stage", "stage")
             /\ locals' = [locals EXCEPT !.moved = @ + 1]
    <3>0. Planned("transcript", "sidecar") /\ {"transcript", "sidecar"} \subseteq Names
      BY <2>1
    <3>1. locals'.plan = locals.plan /\ locals'.moved = locals.moved + 1 /\ locals'.owed = locals.owed
      BY <2>1
    <3>2. CASE locals.moved = 0
      BY <2>1, <3>1, <3>2 DEF Planned
    <3>3. CASE locals.moved = 1
      <4>1. locals.plan[locals.moved + 1] = "sidecar" /\ Len(locals.plan) = 2 /\ ~Listed
        BY <2>1, <3>0, <3>3, ClaudeOrder
      <4>2. aside' = [aside EXCEPT !["sidecar"] = disk["sidecar"]]
            /\ disk' = [disk EXCEPT !["sidecar"] = "none"]
        BY <2>1, <4>1
      <4>3. locals'.moved = 2
        BY <3>1, <3>3
      <4> QED
        BY <2>1, <3>1, <4>1, <4>2, <4>3 DEF Planned
    <3> QED
      BY <2>1, <3>0, <3>2, <3>3, ClaudeOrder
  <2>2. CASE /\ locals.moved = Len(locals.plan) /\ UNCHANGED store
             /\ ClaudeAbsent /\ Step("stage", "discard")
    BY <2>2 DEF ClaudeAbsent, Planned, ToSet
  <2>3. CASE Step("stage", "restore") /\ UNCHANGED store
    BY <2>3 DEF Planned
  <2> QED
    BY <1>10, <2>1, <2>2, <2>3 DEF ClaudeStage
<1>11. CASE ClaudeLook
  <2>1. CASE /\ Goto("restore", "restore") /\ locals.moved > 0 /\ UNCHANGED store
             /\ locals' = [locals EXCEPT !.moved = @ - 1, !.bad = TRUE, !.owed = TRUE]
    <3>1. locals'.plan = locals.plan /\ locals'.moved = locals.moved - 1 /\ locals'.owed
      BY <2>1
    <3> QED
      BY <2>1, <3>1 DEF Planned
  <2> QED
    BY <1>11, <2>1 DEF ClaudeLook, Planned
<1>12. CASE ClaudeMoveBack
  <2>1. CASE /\ Goto("move_back", "restore") /\ PutBack(locals.plan[locals.moved])
             /\ locals' = [locals EXCEPT !.moved = @ - 1]
    <3>1. locals'.plan = locals.plan /\ locals'.moved = locals.moved - 1 /\ locals'.owed = locals.owed
      BY <2>1
    <3>2. CASE locals.moved = 1
      BY <2>1, <3>1, <3>2 DEF Planned
    <3>3. CASE locals.moved = 2
      BY <2>1, <3>1, <3>3 DEF Planned
    <3>4. locals.moved \in {1, 2}
      BY <2>1 DEF Planned
    <3> QED
      BY <3>2, <3>3, <3>4
  <2>2. CASE /\ Goto("move_back", "restore") /\ UNCHANGED store
             /\ locals' = [locals EXCEPT !.moved = @ - 1, !.bad = TRUE, !.owed = TRUE]
    <3>1. locals'.plan = locals.plan /\ locals'.moved = locals.moved - 1 /\ locals'.owed
      BY <2>2
    <3> QED
      BY <2>2, <3>1 DEF Planned
  <2> QED
    BY <1>12, <2>1, <2>2 DEF ClaudeMoveBack
<1>13. CASE ClaudeRestored
  BY <1>13 DEF ClaudeRestored
<1>14. CASE ClaudeDiscard
  BY <1>14 DEF ClaudeDiscard
<1> QED
  BY <1>1, <1>2, <1>3, <1>4, <1>5, <1>6, <1>7, <1>8, <1>9, <1>10, <1>11, <1>12, <1>13,
     <1>14 DEF ClaudeStep

\* A step of a command loses nothing.
LEMMA ClaudeTurns ==
  ASSUME Typed, Common, ClaudeInv, kind = "claude", ClaudeStep, UNCHANGED helper
  PROVE  TurnsStay /\ BlobsStay
<1> USE DEF Typed, StoreTyped, Locals, Common, ClaudeInv, Goto, Step, End, EndBadly, Put,
   SetAside, PutBack,
        Listed, Listing, Generated, Names, store, around, TurnsStay, BlobsStay, Kept,
        KeptNext, Turns
<1>1. CASE ClaudeIdentify
  BY <1>1 DEF ClaudeIdentify
<1>2. CASE ClaudePublish
  BY <1>2 DEF ClaudePublish
<1>3. CASE ClaudeValidate
  BY <1>3 DEF ClaudeValidate
<1>4. CASE ClaudeMoveAside
  BY <1>4 DEF ClaudeMoveAside
<1>5. CASE ClaudeCompare
  BY <1>5 DEF ClaudeCompare
<1>6. CASE ClaudePutBack
  BY <1>6 DEF ClaudePutBack
<1>7. CASE ClaudeRemove
  BY <1>7 DEF ClaudeRemove
<1>8. CASE ClaudeIdle
  BY <1>8 DEF ClaudeIdle, Checked
<1>9. CASE ClaudePlan
  BY <1>9 DEF ClaudePlan
<1>10. CASE ClaudeStage
  <2>1. CASE locals.moved < Len(locals.plan) /\ SetAside(locals.plan[locals.moved + 1])
    <3>1. Planned("transcript", "sidecar") /\ "transcript" \in Names /\ "sidecar" \in Names
      BY <1>10 DEF ClaudeStage
    <3>2. PICK n \in {"transcript", "sidecar"} : SetAside(n) /\ (locals.moved = 0 => n = "transcript")
      BY <1>10, <2>1, <3>1, ClaudeOrder DEF ClaudeStage
    <3>3. pc = "stage" /\ command = "delete" /\ kind' = kind
      BY <1>10 DEF ClaudeStage
    <3>4. ~Listed' /\ disk'["blob"] = disk["blob"]
      BY <3>1, <3>2, <3>3 DEF Planned
    <3> QED
      BY <3>3, <3>4
  <2>2. CASE UNCHANGED store
    BY <2>2
  <2> QED
    BY <1>10, <2>1, <2>2 DEF ClaudeStage
<1>11. CASE ClaudeLook
  BY <1>11 DEF ClaudeLook
<1>12. CASE ClaudeMoveBack
  BY <1>12 DEF ClaudeMoveBack, Planned
<1>13. CASE ClaudeRestored
  BY <1>13 DEF ClaudeRestored
<1>14. CASE ClaudeDiscard
  <2>1. disk' = disk /\ kind' = kind /\ command = "delete" /\ ~Listed
    BY <1>14 DEF ClaudeDiscard
  <2> QED
    BY <2>1
<1> QED
  BY <1>1, <1>2, <1>3, <1>4, <1>5, <1>6, <1>7, <1>8, <1>9, <1>10, <1>11, <1>12, <1>13,
     <1>14 DEF ClaudeStep

\* The shared steps keep the invariant.
LEMMA ClaudeShared ==
  ASSUME Typed, Common, ClaudeInv, kind = "claude", Shared
  PROVE  ClaudeInv'
<1> USE DEF Typed, StoreTyped, Locals, Common, ClaudeInv, Listed, Listing, Generated,
            Contents, Names, store, around, Closed,
            SidecarInPlace, Nothing, NoneAside, Planned, Put
<1>1. CASE Import
  BY <1>1 DEF Import, First, Begin
<1>2. CASE Undo
  BY <1>2 DEF Undo, First, Begin, AimAt
<1>3. CASE Delete
  BY <1>3 DEF Delete, Begin, Empty
<1>4. CASE DeleteAnother
  BY <1>4 DEF DeleteAnother, First, Begin
<1>5. CASE Kill
  BY <1>5 DEF Kill, Staged
<1>6. CASE Around(Open)
  BY <1>6 DEF Around, Open
<1>7. CASE Around(Close)
  BY <1>7 DEF Around, Close
<1>8. CASE Around(Continue)
  <2>1. UNCHANGED <<kind, aside, command, pc, locals, outcome>> /\ Listed /\ command # "none"
    BY <1>8 DEF Around, Continue
  <2>2. disk'["transcript"] = "grown" /\ disk'["sidecar"] = "grown"
    BY <1>8 DEF Around, Continue, TouchedBy
  <2> QED
    BY <2>1, <2>2
<1>9. CASE Around(Recreate)
  <2>1. UNCHANGED <<kind, aside, command, pc, locals, outcome>> /\ ~Listed /\ knows
        /\ command # "none"
    BY <1>9 DEF Around, Recreate, TouchedBy
  <2>2. disk'["transcript"] = "new" /\ disk'["sidecar"] = disk["sidecar"]
    BY <1>9 DEF Around, Recreate
  <2> QED
    BY <2>1, <2>2
<1>10. CASE Around(SelectOrShare)
  BY <1>10 DEF Around, SelectOrShare
<1> QED
  BY <1>1, <1>2, <1>3, <1>4, <1>5, <1>6, <1>7, <1>8, <1>9, <1>10 DEF Shared, AgentStep
-----------------------------------------------------------------------------
(* Pi *)

\* A file that a rollback or a deletion has reported gone is not there.
PiInv ==
  /\ disk["file"] \in Contents
  /\ NoneAside
  /\ command \in {"none", "import", "undo", "delete"}
  /\ command \in {"import", "undo"} =>
       pc \in {"idle", "import", "publish", "published", "undo", "remove"}
  /\ command = "undo" => pc \notin {"import", "publish", "published"} /\ locals.goal = "undone"
  /\ command = "delete" => pc \in {"idle", "check", "delete", "unlink"}
  /\ command = "import" /\ pc \in {"undo", "remove"} => locals.goal = "failed"
  /\ command = "undo" /\ outcome \in {"failed", "undone"} => ~Listed

\* A step of a command keeps the types of the store.
LEMMA PiStoreTyped ==
  ASSUME Typed, Common, PiInv, kind = "pi", PiStep, UNCHANGED helper
  PROVE  StoreTyped'
<1> USE DEF Typed, StoreTyped, Goto, Step, End, EndBadly, Put, SetAside, PutBack,
            Names, Values, Contents, Generated, store
<1>1. CASE PiIdentify
  BY <1>1 DEF PiIdentify
<1>2. CASE PiPublish
  BY <1>2 DEF PiPublish
<1>3. CASE PiValidate
  BY <1>3 DEF PiValidate
<1>4. CASE PiCompare
  BY <1>4 DEF PiCompare
<1>5. CASE PiRemove
  BY <1>5 DEF PiRemove
<1>6. CASE PiIdle
  BY <1>6 DEF PiIdle, Checked
<1>7. CASE PiIdentified
  BY <1>7 DEF PiIdentified
<1>8. CASE PiDelete
  BY <1>8 DEF PiDelete
<1> QED
  BY <1>1, <1>2, <1>3, <1>4, <1>5, <1>6, <1>7, <1>8 DEF PiStep

\* A step of a command keeps the types of its local variables.
LEMMA PiLocals ==
  ASSUME Typed, Common, PiInv, kind = "pi", PiStep, UNCHANGED helper
  PROVE  locals' \in Locals
<1>0. locals \in Locals /\ locals.moved \in Nat
  BY LocalsUpdate DEF Typed
<1> USE DEF Goto, Step, End, EndBadly, AimAt
<1>1. CASE PiIdentify
  BY <1>1, <1>0, LocalsUpdate DEF PiIdentify
<1>2. CASE PiPublish
  BY <1>2, <1>0, LocalsUpdate DEF PiPublish
<1>3. CASE PiValidate
  BY <1>3, <1>0, LocalsUpdate DEF PiValidate
<1>4. CASE PiCompare
  BY <1>4, <1>0, LocalsUpdate DEF PiCompare
<1>5. CASE PiRemove
  BY <1>5, <1>0, LocalsUpdate DEF PiRemove
<1>6. CASE PiIdle
  BY <1>6, <1>0, LocalsUpdate DEF PiIdle, Checked
<1>7. CASE PiIdentified
  BY <1>7, <1>0, LocalsUpdate DEF PiIdentified
<1>8. CASE PiDelete
  BY <1>8, <1>0, LocalsUpdate DEF PiDelete
<1> QED
  BY <1>1, <1>2, <1>3, <1>4, <1>5, <1>6, <1>7, <1>8 DEF PiStep

\* A step of a command keeps what the kinds have in common.
LEMMA PiCommon ==
  ASSUME Typed, Common, PiInv, kind = "pi", PiStep, UNCHANGED helper
  PROVE  Common'
<1> USE DEF Typed, StoreTyped, Locals, Common, PiInv, Goto, Step, End, EndBadly, AimAt, Put,
            SetAside, PutBack, Listed, Listing, Generated, Names, Commanded, around, store
<1>1. CASE PiIdentify
  BY <1>1 DEF PiIdentify
<1>2. CASE PiPublish
  BY <1>2 DEF PiPublish
<1>3. CASE PiValidate
  <2>1. /\ pc = "published" /\ UNCHANGED <<command, knows, kind, disk>>
        /\ locals'.owed = locals.owed
    BY <1>3 DEF PiValidate
  <2>2. \/ pc' = "idle" /\ outcome' = "failed"
        \/ pc' = "idle" /\ outcome' = "imported" /\ disk["file"] = "made"
        \/ pc' = "undo" /\ outcome' = outcome
    BY <1>3 DEF PiValidate
  <2> QED
    BY <2>1, <2>2
<1>4. CASE PiCompare
  BY <1>4 DEF PiCompare
<1>5. CASE PiRemove
  BY <1>5 DEF PiRemove
<1>6. CASE PiIdle
  BY <1>6 DEF PiIdle, Checked
<1>7. CASE PiIdentified
  BY <1>7 DEF PiIdentified
<1>8. CASE PiDelete
  BY <1>8 DEF PiDelete
<1> QED
  BY <1>1, <1>2, <1>3, <1>4, <1>5, <1>6, <1>7, <1>8 DEF PiStep

\* A step of a command keeps the invariant.
LEMMA PiOwn ==
  ASSUME Typed, Common, PiInv, kind = "pi", PiStep, UNCHANGED helper
  PROVE  PiInv'
<1> USE DEF Typed, StoreTyped, Locals, Common, PiInv, Goto, Step, End, EndBadly, AimAt, Put,
            SetAside, PutBack, Listed, Listing, Generated, Contents, Names, Values, Nothing,
            NoneAside, around, store
<1>1. CASE PiIdentify
  BY <1>1 DEF PiIdentify
<1>2. CASE PiPublish
  BY <1>2 DEF PiPublish
<1>3. CASE PiValidate
  BY <1>3 DEF PiValidate
<1>4. CASE PiCompare
  BY <1>4 DEF PiCompare
<1>5. CASE PiRemove
  BY <1>5 DEF PiRemove
<1>6. CASE PiIdle
  BY <1>6 DEF PiIdle, Checked
<1>7. CASE PiIdentified
  BY <1>7 DEF PiIdentified
<1>8. CASE PiDelete
  BY <1>8 DEF PiDelete
<1> QED
  BY <1>1, <1>2, <1>3, <1>4, <1>5, <1>6, <1>7, <1>8 DEF PiStep

\* A step of a command loses nothing.
LEMMA PiTurns ==
  ASSUME Typed, Common, PiInv, kind = "pi", PiStep, UNCHANGED helper
  PROVE  TurnsStay /\ BlobsStay
<1> USE DEF Typed, StoreTyped, Locals, Common, PiInv, Goto, Step, End, EndBadly, Put,
            SetAside, PutBack, Listed, Listing, Generated, Names, store, around, TurnsStay,
            BlobsStay, Kept, KeptNext, Turns
<1>1. CASE PiIdentify
  BY <1>1 DEF PiIdentify
<1>2. CASE PiPublish
  BY <1>2 DEF PiPublish
<1>3. CASE PiValidate
  BY <1>3 DEF PiValidate
<1>4. CASE PiCompare
  BY <1>4 DEF PiCompare
<1>5. CASE PiRemove
  BY <1>5 DEF PiRemove
<1>6. CASE PiIdle
  BY <1>6 DEF PiIdle, Checked
<1>7. CASE PiIdentified
  BY <1>7 DEF PiIdentified
<1>8. CASE PiDelete
  BY <1>8 DEF PiDelete
<1> QED
  BY <1>1, <1>2, <1>3, <1>4, <1>5, <1>6, <1>7, <1>8 DEF PiStep

\* The shared steps keep the invariant.
LEMMA PiShared ==
  ASSUME Typed, Common, PiInv, kind = "pi", Shared
  PROVE  PiInv'
<1> USE DEF Typed, StoreTyped, Locals, Common, PiInv, Listed, Listing, Generated,
   Contents, Names,
            store, around, Closed, Nothing, NoneAside, Planned, Put
<1>1. CASE Import
  BY <1>1 DEF Import, First, Begin
<1>2. CASE Undo
  BY <1>2 DEF Undo, First, Begin, AimAt
<1>3. CASE Delete
  BY <1>3 DEF Delete, Begin, Empty
<1>4. CASE DeleteAnother
  BY <1>4 DEF DeleteAnother, First, Begin
<1>5. CASE Kill
  BY <1>5 DEF Kill, Staged
<1>6. CASE Around(Open)
  BY <1>6 DEF Around, Open
<1>7. CASE Around(Close)
  BY <1>7 DEF Around, Close
<1>8. CASE Around(Continue)
  BY <1>8 DEF Around, Continue
<1>9. CASE Around(Recreate)
  BY <1>9 DEF Around, Recreate
<1>10. CASE Around(SelectOrShare)
  BY <1>10 DEF Around, SelectOrShare
<1> QED
  BY <1>1, <1>2, <1>3, <1>4, <1>5, <1>6, <1>7, <1>8, <1>9, <1>10 DEF Shared, AgentStep
-----------------------------------------------------------------------------
(* Cursor CLI *)

\* A listed session has its database, or somebody was told; it is staged as a whole.
CursorInv ==
  /\ \A n \in Names \ Directory : aside[n] = "none"
  /\ command \in {"none", "import", "undo"} => NoneAside
  /\ command = "none" => Nothing(Directory)
  /\ command \in {"import", "undo"} =>
       pc \in {"idle", "import", "prepare", "link", "published", "undo", "remove"}
  /\ command = "undo" => pc \notin {"import", "prepare", "link", "published"}
  /\ command = "delete" => pc \in {"idle", "check", "delete", "verify", "restore", "discard"}
  /\ command \in {"none", "import", "undo", "delete"}
  /\ {disk["metadata"], aside["metadata"]} \subseteq Contents
  /\ {disk["database"], aside["database"]} \subseteq Generated \cup {"none"}
  /\ Listed /\ ~locals.owed => disk["database"] \in Generated
  /\ pc \in {"import", "prepare"} => Nothing(Directory)
  /\ pc \in {"import", "prepare", "link"} => ~knows /\ disk["metadata"] = "none"
  /\ pc = "published" => Listed /\ disk["database"] \in Generated
  /\ pc \in {"verify", "restore", "discard"} => ~Listed
  /\ pc \in {"verify", "restore"} /\ ~locals.owed => aside["database"] \in Generated
  /\ outcome \in {"failed", "undone"} /\ command \in {"import", "undo"} =>
       disk["database"] = "none" /\ ~Listed

\* A step of a command keeps the types of the store.
LEMMA CursorStoreTyped ==
  ASSUME Typed, Common, CursorInv, kind = "cursor_cli", CursorStep, UNCHANGED helper
  PROVE  StoreTyped'
<1> USE DEF Typed, StoreTyped, Goto, Step, End, EndBadly, Put, SetAside, PutBack,
            Names, Values, Contents, Generated, store
<1>1. CASE CursorIdentify
  BY <1>1 DEF CursorIdentify
<1>2. CASE CursorPrepare
  BY <1>2 DEF CursorPrepare
<1>3. CASE CursorIdle
  BY <1>3 DEF CursorIdle, Checked
<1>4. CASE CursorLink
  BY <1>4 DEF CursorLink
<1>5. CASE CursorPublished
  BY <1>5 DEF CursorPublished
<1>6. CASE CursorCompare
  BY <1>6 DEF CursorCompare
<1>7. CASE CursorRemove
  BY <1>7 DEF CursorRemove, RemovedFirst
<1>8. CASE CursorStage
  BY <1>8 DEF CursorStage
<1>9. CASE CursorVerify
  BY <1>9 DEF CursorVerify
<1>10. CASE CursorRestore
  BY <1>10 DEF CursorRestore
<1>11. CASE CursorDiscard
  BY <1>11 DEF CursorDiscard
<1> QED
  BY <1>1, <1>2, <1>3, <1>4, <1>5, <1>6, <1>7, <1>8, <1>9, <1>10, <1>11 DEF CursorStep

\* A step of a command keeps the types of its local variables.
LEMMA CursorLocals ==
  ASSUME Typed, Common, CursorInv, kind = "cursor_cli", CursorStep, UNCHANGED helper
  PROVE  locals' \in Locals
<1>0. locals \in Locals /\ locals.moved \in Nat
  BY LocalsUpdate DEF Typed
<1> USE DEF Goto, Step, End, EndBadly, AimAt
<1>1. CASE CursorIdentify
  BY <1>1, <1>0, LocalsUpdate DEF CursorIdentify
<1>2. CASE CursorPrepare
  BY <1>2, <1>0, LocalsUpdate DEF CursorPrepare
<1>3. CASE CursorIdle
  BY <1>3, <1>0, LocalsUpdate DEF CursorIdle, Checked
<1>4. CASE CursorLink
  BY <1>4, <1>0, LocalsUpdate DEF CursorLink
<1>5. CASE CursorPublished
  BY <1>5, <1>0, LocalsUpdate DEF CursorPublished
<1>6. CASE CursorCompare
  BY <1>6, <1>0, LocalsUpdate DEF CursorCompare
<1>7. CASE CursorRemove
  BY <1>7, <1>0, LocalsUpdate DEF CursorRemove, RemovedFirst
<1>8. CASE CursorStage
  BY <1>8, <1>0, LocalsUpdate DEF CursorStage
<1>9. CASE CursorVerify
  BY <1>9, <1>0, LocalsUpdate DEF CursorVerify
<1>10. CASE CursorRestore
  BY <1>10, <1>0, LocalsUpdate DEF CursorRestore
<1>11. CASE CursorDiscard
  BY <1>11, <1>0, LocalsUpdate DEF CursorDiscard
<1> QED
  BY <1>1, <1>2, <1>3, <1>4, <1>5, <1>6, <1>7, <1>8, <1>9, <1>10, <1>11 DEF CursorStep

\* A step of a command keeps what the kinds have in common.
LEMMA CursorCommon ==
  ASSUME Typed, Common, CursorInv, kind = "cursor_cli", CursorStep, UNCHANGED helper
  PROVE  Common'
<1> USE DEF Typed, StoreTyped, Locals, Common, CursorInv, Goto, Step, End, EndBadly,
   AimAt, Put,
            SetAside, PutBack, Listed, Listing, Generated, Names, Commanded, around,
            store, Directory
<1>1. CASE CursorIdentify
  BY <1>1 DEF CursorIdentify
<1>2. CASE CursorPrepare
  BY <1>2 DEF CursorPrepare
<1>3. CASE CursorIdle
  BY <1>3 DEF CursorIdle, Checked
<1>4. CASE CursorLink
  <2>1. CASE disk["database"] = "none" /\ Step("link", "link") /\ Put("database", "made")
    BY <2>1
  <2>2. CASE disk["metadata"] = "none" /\ Step("link", "published") /\ Put("metadata", "made")
    BY <2>2
  <2>3. CASE Goto("link", "undo") /\ AimAt("failed") /\ UNCHANGED store
    BY <2>3
  <2> QED
    BY <1>4, <2>1, <2>2, <2>3 DEF CursorLink
<1>5. CASE CursorPublished
  <2>1. /\ UNCHANGED <<kind, agent, knows, command, disk>> /\ pc = "published"
        /\ locals'.owed = locals.owed
    BY <1>5 DEF CursorPublished
  <2>2. \/ pc' = "idle" /\ outcome' = "imported" /\ locals' = locals
        \/ pc' = "undo" /\ outcome' = outcome
    BY <1>5 DEF CursorPublished
  <2> QED
    BY <2>1, <2>2
<1>6. CASE CursorCompare
  BY <1>6 DEF CursorCompare
<1>7. CASE CursorRemove
  BY <1>7 DEF CursorRemove, RemovedFirst
<1>8. CASE CursorStage
  BY <1>8 DEF CursorStage
<1>9. CASE CursorVerify
  BY <1>9 DEF CursorVerify
<1>10. CASE CursorRestore
  <2>1. CASE UNCHANGED store
    BY <1>10, <2>1 DEF CursorRestore
  <2>2. CASE /\ disk' = [n \in Names |-> IF n \in Directory THEN aside[n] ELSE disk[n]]
             /\ aside' = [n \in Names |-> "none"]
    <3>1. \A n \in {"selection", "elsewhere", "blob"} : disk'[n] = disk[n]
      BY <2>2
    <3>2. End("restore", "failed") \/ EndBadly("restore")
      BY <1>10 DEF CursorRestore
    <3> HIDE DEF Put, SetAside, PutBack
    <3>3. /\ pc = "restore" /\ pc' = "idle" /\ outcome' \in {"failed", "not_restored"}
          /\ UNCHANGED around /\ locals' \in {locals, [locals EXCEPT !.owed = TRUE]}
          /\ command = "delete"
      BY <3>2
    <3> QED
      BY <2>2, <3>1, <3>3
  <2> QED
    BY <1>10, <2>1, <2>2 DEF CursorRestore
<1>11. CASE CursorDiscard
  BY <1>11 DEF CursorDiscard
<1> QED
  BY <1>1, <1>2, <1>3, <1>4, <1>5, <1>6, <1>7, <1>8, <1>9, <1>10, <1>11 DEF CursorStep

\* A step of a command keeps the invariant.
LEMMA CursorOwn ==
  ASSUME Typed, Common, CursorInv, kind = "cursor_cli", CursorStep, UNCHANGED helper
  PROVE  CursorInv'
<1> USE DEF Typed, StoreTyped, Locals, Common, CursorInv, Goto, Step, End, EndBadly,
   AimAt, Put,
            SetAside, PutBack, Listed, Listing, Generated, Contents, Names, Values, Nothing,
            NoneAside, around, store, Directory
<1>1. CASE CursorIdentify
  BY <1>1 DEF CursorIdentify
<1>2. CASE CursorPrepare
  BY <1>2 DEF CursorPrepare
<1>3. CASE CursorIdle
  BY <1>3 DEF CursorIdle, Checked
<1>4. CASE CursorLink
  <2>1. CASE disk["database"] = "none" /\ Step("link", "link") /\ Put("database", "made")
    <3>1. /\ disk'["database"] = "made" /\ disk'["metadata"] = disk["metadata"] /\ locals' = locals
          /\ command' = command /\ command = "import" /\ UNCHANGED <<kind, knows, outcome>>
          /\ pc = "link" /\ pc' = "link"
      BY <2>1
    <3> HIDE DEF Step, Put
    <3> QED
      BY <1>4, <3>1 DEF CursorLink
  <2>2. CASE /\ disk["database"] # "none" /\ disk["metadata"] = "none"
             /\ Step("link", "published") /\ Put("metadata", "made")
    <3>1. /\ disk'["database"] = disk["database"] /\ disk'["metadata"] = "made" /\ locals' = locals
          /\ command' = command /\ command = "import" /\ UNCHANGED <<kind, knows, outcome>>
          /\ pc = "link" /\ pc' = "published" /\ disk["database"] \in Generated
      BY <2>2
    <3> HIDE DEF Step, Put
    <3> QED
      BY <1>4, <3>1 DEF CursorLink
  <2>3. CASE Goto("link", "undo") /\ AimAt("failed") /\ UNCHANGED store
    BY <2>3
  <2> QED
    BY <1>4, <2>1, <2>2, <2>3 DEF CursorLink
<1>5. CASE CursorPublished
  BY <1>5 DEF CursorPublished
<1>6. CASE CursorCompare
  BY <1>6 DEF CursorCompare
<1>7. CASE CursorRemove
  BY <1>7 DEF CursorRemove, RemovedFirst
<1>8. CASE CursorStage
  BY <1>8 DEF CursorStage
<1>9. CASE CursorVerify
  BY <1>9 DEF CursorVerify
<1>10. CASE CursorRestore
  <2>1. CASE UNCHANGED store
    BY <1>10, <2>1 DEF CursorRestore
  <2>2. CASE /\ disk' = [n \in Names |-> IF n \in Directory THEN aside[n] ELSE disk[n]]
             /\ aside' = [n \in Names |-> "none"]
    <3>1. /\ disk'["database"] = aside["database"] /\ disk'["metadata"] = aside["metadata"]
          /\ \A n \in Names : aside'[n] = "none"
      BY <2>2
    <3>2. End("restore", "failed") \/ EndBadly("restore")
      BY <1>10 DEF CursorRestore
    <3> HIDE DEF Put, SetAside, PutBack
    <3>3. /\ pc = "restore" /\ pc' = "idle" /\ outcome' \in {"failed", "not_restored"}
          /\ UNCHANGED around /\ locals' \in {locals, [locals EXCEPT !.owed = TRUE]}
          /\ command = "delete"
      BY <3>2
    <3> QED
      BY <2>2, <3>1, <3>3
  <2> QED
    BY <1>10, <2>1, <2>2 DEF CursorRestore
<1>11. CASE CursorDiscard
  BY <1>11 DEF CursorDiscard
<1> QED
  BY <1>1, <1>2, <1>3, <1>4, <1>5, <1>6, <1>7, <1>8, <1>9, <1>10, <1>11 DEF CursorStep

\* A step of a command loses nothing.
LEMMA CursorTurns ==
  ASSUME Typed, Common, CursorInv, kind = "cursor_cli", CursorStep, UNCHANGED helper
  PROVE  TurnsStay /\ BlobsStay
<1> USE DEF Typed, StoreTyped, Locals, Common, CursorInv, Goto, Step, End, EndBadly, Put,
            SetAside, PutBack, Listed, Listing, Generated, Names, store, around, TurnsStay,
            BlobsStay, Kept, KeptNext, Turns, Directory
<1>1. CASE CursorIdentify
  BY <1>1 DEF CursorIdentify
<1>2. CASE CursorPrepare
  BY <1>2 DEF CursorPrepare
<1>3. CASE CursorIdle
  BY <1>3 DEF CursorIdle, Checked
<1>4. CASE CursorLink
  BY <1>4 DEF CursorLink
<1>5. CASE CursorPublished
  BY <1>5 DEF CursorPublished
<1>6. CASE CursorCompare
  BY <1>6 DEF CursorCompare
<1>7. CASE CursorRemove
  BY <1>7 DEF CursorRemove, RemovedFirst
<1>8. CASE CursorStage
  BY <1>8 DEF CursorStage
<1>9. CASE CursorVerify
  BY <1>9 DEF CursorVerify
<1>10. CASE CursorRestore
  <2>1. CASE UNCHANGED store
    BY <2>1
  <2>2. CASE /\ \A n \in Directory : disk[n] = "none"
             /\ disk' = [n \in Names |-> IF n \in Directory THEN aside[n] ELSE disk[n]]
    <3>1. \A n \in Names : n \in Directory => disk[n] = "none" /\ disk'[n] = aside[n]
      BY <2>2
    <3>2. \A n \in Names : n \notin Directory => aside[n] = "none" /\ disk'[n] = disk[n]
      BY <2>2
    <3> QED
      BY <3>1, <3>2
  <2> QED
    BY <1>10, <2>1, <2>2 DEF CursorRestore
<1>11. CASE CursorDiscard
  BY <1>11 DEF CursorDiscard
<1> QED
  BY <1>1, <1>2, <1>3, <1>4, <1>5, <1>6, <1>7, <1>8, <1>9, <1>10, <1>11 DEF CursorStep

\* The shared steps keep the invariant.
LEMMA CursorShared ==
  ASSUME Typed, Common, CursorInv, kind = "cursor_cli", Shared
  PROVE  CursorInv'
<1> USE DEF Typed, StoreTyped, Locals, Common, CursorInv, Listed, Listing, Generated,
   Contents, Names,
            store, around, Closed, Nothing, NoneAside, Planned, Put, Directory
<1>1. CASE Import
  BY <1>1 DEF Import, First, Begin
<1>2. CASE Undo
  BY <1>2 DEF Undo, First, Begin, AimAt
<1>3. CASE Delete
  BY <1>3 DEF Delete, Begin, Empty
<1>4. CASE DeleteAnother
  BY <1>4 DEF DeleteAnother, First, Begin
<1>5. CASE Kill
  BY <1>5 DEF Kill, Staged
<1>6. CASE Around(Open)
  BY <1>6 DEF Around, Open
<1>7. CASE Around(Close)
  BY <1>7 DEF Around, Close
<1>8. CASE Around(Continue)
  BY <1>8 DEF Around, Continue
<1>9. CASE Around(Recreate)
  <2>1. UNCHANGED <<kind, aside, command, pc, locals, outcome, knows>> /\ ~Listed /\ knows
        /\ command # "none" /\ disk["database"] = "none"
    BY <1>9 DEF Around, Recreate, TouchedBy
  <2>2. disk'["metadata"] = "new" /\ disk'["database"] = disk["database"]
    BY <1>9 DEF Around, Recreate
  <2> QED
    BY <2>1, <2>2
<1>10. CASE Around(SelectOrShare)
  BY <1>10 DEF Around, SelectOrShare
<1> QED
  BY <1>1, <1>2, <1>3, <1>4, <1>5, <1>6, <1>7, <1>8, <1>9, <1>10 DEF Shared, AgentStep
=============================================================================
