------------------------- MODULE IndexedStores_proofs -------------------------
(***************************************************************************)
(* The kinds of FileStores_proofs that keep sessions in databases:          *)
(* Antigravity, whose row lists a payload of files, and Cursor's IDE, whose *)
(* workspaces name the selected composer.                                   *)
(***************************************************************************)
EXTENDS FileStores_proofs

-----------------------------------------------------------------------------
(* Antigravity *)

\* The payload is staged between the deletion's plan and its end, and is then beside
\* its place or in it; everywhere else a listed session has its conversation and its
\* directory, or somebody was told.
AntigravityInv ==
  /\ \A n \in {"conversation", "brain", "row"} :
       {disk[n], aside[n]} \subseteq {"none", "made", "grown"}
  /\ \A n \in Names \ Payload : aside[n] = "none"
  /\ pc \notin {"idle", "check"} => agent = "closed"
  /\ command \in {"none", "import", "undo", "delete", "sweep"}
  /\ command \in {"none", "import", "undo"} => aside["brain"] = "none"
  /\ command = "none" => Nothing({"conversation", "brain", "row"}) /\ NoneAside
                         /\ locals.goal = "none"
  /\ Listed /\ ~Owed => disk["conversation"] # "none"
                        /\ (aside["brain"] = "none" \/ disk["brain"] # "none")
  /\ command = "import" /\ pc # "idle" => disk["row"] # "grown" /\ locals.goal \in {"none", "failed"}
  /\ command \in {"import", "undo"} =>
       /\ "made" \in {disk["conversation"], aside["conversation"]} => disk["brain"] = "none"
       /\ pc \in {"idle", "check", "import", "undo", "validate", "publish", "row", "published",
                  "remove_summaries", "remove_conversation", "move_aside", "commit", "remove"}
       /\ pc \notin {"idle", "commit", "remove"} => aside["conversation"] = "none"
       /\ outcome = "imported" => aside["conversation"] = "none"
       /\ "none" \in {disk["conversation"], aside["conversation"]}
  /\ command = "undo" =>
       /\ pc \notin {"import", "validate", "publish", "row", "published"}
       /\ locals.goal = "undone"
  /\ command = "delete" =>
       pc \in {"idle", "check", "delete", "plan", "stage", "restore", "discard"}
  /\ command = "delete" /\ pc \in {"check", "delete", "plan"} => locals.moved = 0
  /\ command = "sweep" => pc \in {"idle", "check", "sweep"}
  /\ pc \in {"import", "validate", "publish"} \/ (pc = "check" /\ command = "import") =>
       Nothing({"conversation", "brain", "row"}) /\ NoneAside
  /\ pc = "row" => disk["conversation"] = "made" /\ disk["row"] = "none"
  /\ pc \in {"remove_summaries", "remove_conversation", "move_aside"} =>
       disk["conversation"] = "made"
  /\ pc = "remove_summaries" => disk["row"] \in {"none", "made"}
  /\ pc \in {"move_aside", "commit"} => disk["row"] = "made"
  /\ pc \in {"commit", "remove"} =>
       disk["conversation"] = "none" /\ aside["conversation"] = "made"
  /\ pc \in {"remove", "remove_conversation", "discard"} => disk["row"] = "none"
  /\ pc \in {"stage", "restore", "discard"} => Planned("conversation", "brain")
  /\ pc \in {"stage", "restore"} =>
       /\ \A n \in Payload :
            IF \E i \in 1..locals.moved : locals.plan[i] = n
            THEN disk[n] = "none" ELSE aside[n] = "none"
       /\ locals.owed \/ "none" # disk["conversation"] \/ "none" # aside["conversation"]
  /\ outcome \in {"failed", "undone"} /\ command \in {"import", "undo"} =>
       Nothing({"conversation", "brain", "row"}) /\ NoneAside

\* The next entry of its plans, and the last one that was moved.
LEMMA AntigravityOrder ==
  ASSUME Planned("conversation", "brain")
  PROVE  /\ locals.moved < Len(locals.plan) =>
              /\ locals.moved \in {0, 1} /\ locals.plan[locals.moved + 1] \in {"conversation", "brain"}
              /\ locals.moved = 0 => locals.plan[locals.moved + 1] = locals.plan[1]
              /\ locals.moved = 1 => Len(locals.plan) = 2 /\ locals.plan[locals.moved + 1] = "brain"
         /\ locals.moved > 0 => locals.moved \in {1, 2} /\ locals.plan[locals.moved] \in {"conversation", "brain"}
<1>1. "conversation" \in Names /\ "brain" \in Names
  BY DEF Names
<1> QED
  BY <1>1, NextInPlan, LastOfPlan

\* The plan of its deletions.
LEMMA PayloadPlan ==
  /\ InOrder("conversation", "brain", Existing) \in Seq(Names)
  /\ Len(InOrder("conversation", "brain", Existing)) \in 0..2
  /\ \A i \in 1..Len(InOrder("conversation", "brain", Existing)) :
       InOrder("conversation", "brain", Existing)[i] \in {"conversation", "brain"}
  /\ Len(InOrder("conversation", "brain", Existing)) = 2 =>
       /\ InOrder("conversation", "brain", Existing)[1] = "conversation"
       /\ InOrder("conversation", "brain", Existing)[2] = "brain"
<1>1. "conversation" \in Names /\ "brain" \in Names
  BY DEF Names
<1> QED
  BY <1>1 DEF InOrder, Only

\* A step of a command keeps the types of the store.
LEMMA AntigravityStoreTyped ==
  ASSUME Typed, Common, AntigravityInv, kind = "antigravity", AntigravityStep, UNCHANGED helper
  PROVE  StoreTyped'
<1> USE DEF Typed, StoreTyped, Goto, Step, End, EndBadly, Put, SetAside, PutBack,
            Names, Values, Contents, Generated, store
<1>1. CASE AntigravityIdle
  BY <1>1 DEF AntigravityIdle, Checked
<1>2. CASE AntigravitySummaries
  BY <1>2 DEF AntigravitySummaries
<1>3. CASE AntigravityValidate
  BY <1>3 DEF AntigravityValidate
<1>4. CASE AntigravityPublish
  BY <1>4 DEF AntigravityPublish
<1>5. CASE AntigravityAddRow
  BY <1>5 DEF AntigravityAddRow
<1>6. CASE AntigravityVerify
  BY <1>6 DEF AntigravityVerify
<1>7. CASE AntigravityCompare
  BY <1>7 DEF AntigravityCompare
<1>8. CASE AntigravityRemoveSummaries
  BY <1>8 DEF AntigravityRemoveSummaries
<1>9. CASE AntigravityRemoveConversation
  BY <1>9 DEF AntigravityRemoveConversation
<1>10. CASE AntigravityMoveAside
  BY <1>10 DEF AntigravityMoveAside
<1>11. CASE AntigravityCommit
  BY <1>11 DEF AntigravityCommit
<1>12. CASE AntigravityRemove
  BY <1>12 DEF AntigravityRemove
<1>13. CASE AntigravityPlan
  BY <1>13 DEF AntigravityPlan
<1>14. CASE AntigravityStage
  BY <1>14 DEF AntigravityStage
<1>15. CASE AntigravityRestore
  BY <1>15 DEF AntigravityRestore
<1>16. CASE AntigravityDiscard
  BY <1>16 DEF AntigravityDiscard
<1>17. CASE AntigravitySweep
  BY <1>17 DEF AntigravitySweep
<1> QED
  BY <1>1, <1>2, <1>3, <1>4, <1>5, <1>6, <1>7, <1>8, <1>9, <1>10, <1>11, <1>12, <1>13,
     <1>14, <1>15, <1>16, <1>17 DEF AntigravityStep

\* A step of a command keeps the types of its local variables.
LEMMA AntigravityLocals ==
  ASSUME Typed, Common, AntigravityInv, kind = "antigravity", AntigravityStep, UNCHANGED helper
  PROVE  locals' \in Locals
<1>0. locals \in Locals /\ locals.moved \in Nat
  BY LocalsUpdate DEF Typed
<1> USE DEF Goto, Step, End, EndBadly, AimAt
<1>1. CASE AntigravityIdle
  BY <1>1, <1>0, LocalsUpdate DEF AntigravityIdle, Checked
<1>2. CASE AntigravitySummaries
  <2>1. "fresh" \in Values \cup {"fresh"} /\ "theirs" \in Values \cup {"fresh"}
    BY DEF Values
  <2> QED
    BY <1>2, <1>0, <2>1, LocalsUpdate DEF AntigravitySummaries
<1>3. CASE AntigravityValidate
  BY <1>3, <1>0, LocalsUpdate DEF AntigravityValidate
<1>4. CASE AntigravityPublish
  BY <1>4, <1>0, LocalsUpdate DEF AntigravityPublish
<1>5. CASE AntigravityAddRow
  BY <1>5, <1>0, LocalsUpdate DEF AntigravityAddRow
<1>6. CASE AntigravityVerify
  BY <1>6, <1>0, LocalsUpdate DEF AntigravityVerify
<1>7. CASE AntigravityCompare
  BY <1>7, <1>0, LocalsUpdate DEF AntigravityCompare
<1>8. CASE AntigravityRemoveSummaries
  BY <1>8, <1>0, LocalsUpdate DEF AntigravityRemoveSummaries
<1>9. CASE AntigravityRemoveConversation
  BY <1>9, <1>0, LocalsUpdate DEF AntigravityRemoveConversation
<1>10. CASE AntigravityMoveAside
  BY <1>10, <1>0, LocalsUpdate DEF AntigravityMoveAside
<1>11. CASE AntigravityCommit
  BY <1>11, <1>0, LocalsUpdate DEF AntigravityCommit
<1>12. CASE AntigravityRemove
  BY <1>12, <1>0, LocalsUpdate DEF AntigravityRemove
<1>13. CASE AntigravityPlan
  BY <1>13, <1>0, PayloadPlan, LocalsUpdate DEF AntigravityPlan
<1>14. CASE AntigravityStage
  <2>1. locals' \in {locals, [locals EXCEPT !.moved = locals.moved + 1]}
    BY <1>14 DEF AntigravityStage
  <2>2. locals.moved + 1 \in Nat
    BY <1>0
  <2> QED
    BY <1>0, <2>1, <2>2, LocalsUpdate
<1>15. CASE AntigravityRestore
  <2>1. CASE locals.moved > 0 /\ locals' = [locals EXCEPT !.moved = locals.moved - 1]
    <3>1. locals.moved - 1 \in Nat
      BY <1>0, <2>1
    <3> QED
      BY <1>0, <2>1, <3>1, LocalsUpdate
  <2>2. CASE locals' \in {locals, [locals EXCEPT !.owed = TRUE]}
    BY <1>0, <2>2, LocalsUpdate
  <2> QED
    BY <1>15, <2>1, <2>2 DEF AntigravityRestore
<1>16. CASE AntigravityDiscard
  BY <1>16, <1>0, LocalsUpdate DEF AntigravityDiscard
<1>17. CASE AntigravitySweep
  BY <1>17, <1>0, LocalsUpdate DEF AntigravitySweep
<1> QED
  BY <1>1, <1>2, <1>3, <1>4, <1>5, <1>6, <1>7, <1>8, <1>9, <1>10, <1>11, <1>12, <1>13,
     <1>14, <1>15, <1>16, <1>17 DEF AntigravityStep

\* A step of a command keeps what the kinds have in common.
LEMMA AntigravityCommon ==
  ASSUME Typed, Common, AntigravityInv, kind = "antigravity", AntigravityStep, UNCHANGED helper
  PROVE  Common'
<1> USE DEF Typed, StoreTyped, Locals, Common, AntigravityInv, Goto, Step, End, EndBadly,
   AimAt, Put,
            SetAside, PutBack, Listed, Listing, Generated, Names, Commanded, around, store,
            Owed, Staged, Payload, ConversationAsGenerated, RowAsGenerated
<1>1. CASE AntigravityIdle
  BY <1>1 DEF AntigravityIdle, Checked
<1>2. CASE AntigravitySummaries
  BY <1>2 DEF AntigravitySummaries
<1>3. CASE AntigravityValidate
  BY <1>3 DEF AntigravityValidate
<1>4. CASE AntigravityPublish
  BY <1>4 DEF AntigravityPublish
<1>5. CASE AntigravityAddRow
  <2>1. CASE disk["row"] = "none" /\ Step("row", "published") /\ Put("row", "made")
    BY <2>1
  <2>2. CASE Goto("row", "undo") /\ AimAt("failed") /\ UNCHANGED store
    BY <2>2
  <2> QED
    BY <1>5, <2>1, <2>2 DEF AntigravityAddRow
<1>6. CASE AntigravityVerify
  <2>1. command = "import" /\ ~locals.owed /\ UNCHANGED <<kind, agent, knows, command, count, store>>
    BY <1>6 DEF AntigravityVerify
  <2>2. CASE RowAsGenerated /\ End("published", "imported")
    BY <2>1, <2>2
  <2>3. CASE Goto("published", "undo") /\ AimAt("failed")
    BY <2>1, <2>3
  <2> QED
    BY <1>6, <2>2, <2>3 DEF AntigravityVerify
<1>7. CASE AntigravityCompare
  BY <1>7 DEF AntigravityCompare
<1>8. CASE AntigravityRemoveSummaries
  BY <1>8 DEF AntigravityRemoveSummaries
<1>9. CASE AntigravityRemoveConversation
  BY <1>9 DEF AntigravityRemoveConversation
<1>10. CASE AntigravityMoveAside
  BY <1>10 DEF AntigravityMoveAside
<1>11. CASE AntigravityCommit
  BY <1>11 DEF AntigravityCommit
<1>12. CASE AntigravityRemove
  BY <1>12 DEF AntigravityRemove
<1>13. CASE AntigravityPlan
  BY <1>13 DEF AntigravityPlan
<1>14. CASE AntigravityStage
  <2>1. /\ UNCHANGED <<kind, agent, knows, command, count, outcome>> /\ locals'.owed = locals.owed
        /\ pc = "stage" /\ pc' \in {"stage", "discard", "restore"} /\ command = "delete"
    BY <1>14 DEF AntigravityStage
  <2>2. \A n \in {"selection", "elsewhere", "blob"} : disk'[n] = disk[n]
    <3>1. CASE locals.moved < Len(locals.plan) /\ SetAside(locals.plan[locals.moved + 1])
      <4>1. Planned("conversation", "brain") /\ "conversation" \in Names /\ "brain" \in Names
        BY <2>1
      <4>2. PICK n \in {"conversation", "brain"} : SetAside(n)
        BY <3>1, <4>1, AntigravityOrder
      <4> QED
        BY <4>2
    <3> QED
      BY <1>14, <3>1 DEF AntigravityStage
  <2> QED
    BY <2>1, <2>2
<1>15. CASE AntigravityRestore
  <2>1. CASE locals.moved > 0 /\ PutBack(locals.plan[locals.moved])
             /\ Goto("restore", "restore") /\ locals' = [locals EXCEPT !.moved = locals.moved - 1]
    <3>1. Planned("conversation", "brain") /\ "conversation" \in Names /\ "brain" \in Names
      BY <2>1
    <3> DEFINE n == locals.plan[locals.moved]
    <3>2. n \in {"conversation", "brain"} /\ PutBack(n)
      BY <2>1, <3>1, AntigravityOrder
    <3> HIDE DEF n
    <3>3. \A m \in {"selection", "elsewhere", "blob"} : disk'[m] = disk[m]
      BY <3>2
    <3>4. UNCHANGED <<kind, agent, knows, command, count, outcome>> /\ locals'.owed = locals.owed
          /\ pc' = "restore" /\ command = "delete" /\ pc = "restore"
      BY <2>1
    <3> QED
      BY <3>3, <3>4
  <2>2. CASE EndBadly("restore") /\ UNCHANGED store
    BY <2>2
  <2>3. CASE End("restore", "failed") /\ UNCHANGED store
    BY <2>3
  <2> QED
    BY <1>15, <2>1, <2>2, <2>3 DEF AntigravityRestore
<1>16. CASE AntigravityDiscard
  BY <1>16 DEF AntigravityDiscard
<1>17. CASE AntigravitySweep
  BY <1>17 DEF AntigravitySweep
<1> QED
  BY <1>1, <1>2, <1>3, <1>4, <1>5, <1>6, <1>7, <1>8, <1>9, <1>10, <1>11, <1>12, <1>13,
     <1>14, <1>15, <1>16, <1>17 DEF AntigravityStep

\* A step of a command keeps the invariant.
LEMMA AntigravityOwn ==
  ASSUME Typed, Common, AntigravityInv, kind = "antigravity", AntigravityStep, UNCHANGED helper
  PROVE  AntigravityInv'
<1> USE DEF Typed, StoreTyped, Locals, Common, AntigravityInv, Goto, Step, End, EndBadly,
   AimAt, Put,
            SetAside, PutBack, Listed, Listing, Generated, Contents, Names, Values, Nothing,
            NoneAside, around, store,
            Owed, Staged, Payload, ConversationAsGenerated, RowAsGenerated
<1>1. CASE AntigravityIdle
  BY <1>1 DEF AntigravityIdle, Checked
<1>2. CASE AntigravitySummaries
  BY <1>2 DEF AntigravitySummaries
<1>3. CASE AntigravityValidate
  BY <1>3 DEF AntigravityValidate
<1>4. CASE AntigravityPublish
  BY <1>4 DEF AntigravityPublish
<1>5. CASE AntigravityAddRow
  BY <1>5 DEF AntigravityAddRow
<1>6. CASE AntigravityVerify
  BY <1>6 DEF AntigravityVerify
<1>7. CASE AntigravityCompare
  BY <1>7 DEF AntigravityCompare
<1>8. CASE AntigravityRemoveSummaries
  BY <1>8 DEF AntigravityRemoveSummaries
<1>9. CASE AntigravityRemoveConversation
  <2>1. /\ pc = "remove_conversation" /\ pc' = "idle" /\ aside' = aside
        /\ UNCHANGED <<kind, agent, command>> /\ command \in {"import", "undo"}
        /\ locals'.goal = locals.goal /\ (locals'.owed \/ disk'["conversation"] = "none")
        /\ disk' = [disk EXCEPT !["conversation"] = disk'["conversation"]]
        /\ disk'["conversation"] \in {disk["conversation"], "none"}
        /\ outcome' \in {"failed", "undone"} => disk'["conversation"] = "none"
        /\ outcome' \in {"none", "failed", "undone", "not_restored"}
    BY <1>9 DEF AntigravityRemoveConversation
  <2>2. NoneAside
    BY <2>1
  <2> HIDE DEF Goto, Step, End, EndBadly, Put, SetAside, PutBack, AimAt
  <2> QED
    BY <2>1, <2>2
<1>10. CASE AntigravityMoveAside
  BY <1>10 DEF AntigravityMoveAside
<1>11. CASE AntigravityCommit
  BY <1>11 DEF AntigravityCommit
<1>12. CASE AntigravityRemove
  <2>1. /\ pc = "remove" /\ pc' = "idle" /\ disk' = disk
        /\ UNCHANGED <<kind, agent, command>> /\ command \in {"import", "undo"}
        /\ locals'.goal = locals.goal
        /\ aside' = [aside EXCEPT !["conversation"] = aside'["conversation"]]
        /\ aside'["conversation"] \in {aside["conversation"], "none"}
        /\ outcome' \in {"failed", "undone"} => aside'["conversation"] = "none"
        /\ outcome' \in {"none", "failed", "undone", "not_restored"}
    BY <1>12 DEF AntigravityRemove
  <2>2. outcome' \in {"failed", "undone"} => NoneAside'
    BY <2>1
  <2>3. ~Listed' /\ disk["brain"] = "none"
    BY <2>1
  <2> HIDE DEF Goto, Step, End, EndBadly, Put, SetAside, PutBack, AimAt, NoneAside
  <2> QED
    BY <2>1, <2>2, <2>3
<1>13. CASE AntigravityPlan
  <2> DEFINE plan == InOrder("conversation", "brain", Existing)
  <2>1. CASE End("plan", "failed") /\ UNCHANGED store
    BY <2>1
  <2>2. CASE /\ Listed /\ Goto("plan", "stage") /\ UNCHANGED store
             /\ \A n \in Payload : aside[n] = "none"
             /\ locals' = [locals EXCEPT !.plan = plan]
    <3>2. /\ \A i \in 1..Len(plan) : plan[i] \in {"conversation", "brain"}
          /\ Len(plan) \in 0..2 /\ (Len(plan) = 2 => plan[1] = "conversation" /\ plan[2] = "brain")
      BY PayloadPlan
    <3> HIDE DEF plan
    <3>3. /\ locals'.plan = plan /\ locals'.moved = 0 /\ locals'.owed = locals.owed
          /\ command' = command /\ command = "delete" /\ kind' = kind /\ disk' = disk /\ aside' = aside
          /\ agent' = agent /\ pc = "plan" /\ pc' = "stage" /\ outcome' = outcome
      BY <2>2
    <3>4. Planned("conversation", "brain")'
      BY <3>2, <3>3 DEF Planned
    <3>5. \A n \in Payload : IF \E i \in 1..locals'.moved : locals'.plan[i] = n
                            THEN disk'[n] = "none" ELSE aside'[n] = "none"
      BY <2>2, <3>3
    <3> HIDE DEF Goto
    <3> QED
      BY <2>2, <3>3, <3>4, <3>5
  <2> QED
    BY <1>13, <2>1, <2>2 DEF AntigravityPlan
<1>14. CASE AntigravityStage
  <2>0. /\ Planned("conversation", "brain") /\ pc = "stage" /\ command = "delete"
        /\ "conversation" \in Names /\ "brain" \in Names /\ agent = "closed"
    BY <1>14 DEF AntigravityStage
  <2>1. CASE /\ locals.moved < Len(locals.plan)
             /\ SetAside(locals.plan[locals.moved + 1])
             /\ Goto("stage", "stage")
             /\ locals' = [locals EXCEPT !.moved = locals.moved + 1]
    <3>1. /\ locals'.plan = locals.plan /\ locals'.moved = locals.moved + 1
          /\ locals'.owed = locals.owed
          /\ UNCHANGED <<kind, agent, command, outcome>> /\ pc' = "stage"
      BY <2>1
    <3> DEFINE n == locals.plan[locals.moved + 1]
    <3>2. n \in Payload /\ n = locals.plan[locals.moved + 1]
      BY <2>0, <2>1, AntigravityOrder
    <3>3. /\ disk[n] # "none" /\ disk'[n] = "none" /\ aside'[n] = disk[n]
          /\ \A m \in Names : m # n => disk'[m] = disk[m] /\ aside'[m] = aside[m]
      BY <2>1, <3>2
    <3> HIDE DEF n
    <3>4. Planned("conversation", "brain")'
      BY <2>0, <2>1, <3>1 DEF Planned
    <3>5. \A m \in Payload : IF \E i \in 1..locals'.moved : locals'.plan[i] = m
                            THEN disk'[m] = "none" ELSE aside'[m] = "none"
      <4>1. CASE locals.moved = 0
        BY <3>1, <3>2, <3>3, <4>1, <2>0
      <4>2. CASE locals.moved = 1
        <5>1. locals.plan[1] = "conversation" /\ n = "brain" /\ locals.plan[2] = "brain"
          BY <2>0, <2>1, <3>2, <4>2, AntigravityOrder DEF Planned
        <5>2. disk["conversation"] = "none"
          BY <2>0, <4>2, <5>1
        <5> QED
          BY <3>1, <3>3, <4>2, <5>1, <5>2
      <4>3. locals.moved \in {0, 1}
        BY <2>0, <2>1, AntigravityOrder
      <4> QED
        BY <4>1, <4>2, <4>3
    <3>6. locals.owed \/ "none" # disk'["conversation"] \/ "none" # aside'["conversation"]
      BY <2>0, <3>2, <3>3
    <3> HIDE DEF SetAside, Goto
    <3> QED
      BY <2>0, <3>1, <3>2, <3>3, <3>4, <3>5, <3>6
  <2>2. CASE Step("stage", "discard") /\ Put("row", "none") /\ UNCHANGED aside
    BY <2>0, <2>2 DEF Planned
  <2>3. CASE Step("stage", "restore") /\ UNCHANGED store
    BY <2>0, <2>3 DEF Planned
  <2> QED
    BY <1>14, <2>1, <2>2, <2>3 DEF AntigravityStage
<1>15. CASE AntigravityRestore
  <2>0. /\ Planned("conversation", "brain") /\ pc = "restore" /\ command = "delete"
        /\ "conversation" \in Names /\ "brain" \in Names /\ agent = "closed"
    BY <1>15 DEF AntigravityRestore
  <2>1. CASE /\ locals.moved > 0
             /\ PutBack(locals.plan[locals.moved])
             /\ Goto("restore", "restore")
             /\ locals' = [locals EXCEPT !.moved = locals.moved - 1]
    <3>1. /\ locals'.plan = locals.plan /\ locals'.moved = locals.moved - 1
          /\ locals'.owed = locals.owed
          /\ UNCHANGED <<kind, agent, command, outcome>> /\ pc' = "restore"
      BY <2>1
    <3> DEFINE n == locals.plan[locals.moved]
    <3>2. n \in Payload /\ n = locals.plan[locals.moved]
      BY <2>0, <2>1, AntigravityOrder
    <3>3. /\ aside[n] # "none" /\ disk'[n] = aside[n] /\ aside'[n] = "none"
          /\ \A m \in Names : m # n => disk'[m] = disk[m] /\ aside'[m] = aside[m]
      BY <2>1, <3>2
    <3> HIDE DEF n
    <3>4. Planned("conversation", "brain")'
      BY <2>0, <2>1, <3>1 DEF Planned
    <3>5. \A m \in Payload : IF \E i \in 1..locals'.moved : locals'.plan[i] = m
                            THEN disk'[m] = "none" ELSE aside'[m] = "none"
      <4>1. CASE locals.moved = 1
        BY <3>1, <3>2, <3>3, <4>1, <2>0
      <4>2. CASE locals.moved = 2
        <5>1. locals.plan[1] = "conversation" /\ n = "brain" /\ locals.plan[2] = "brain"
          BY <2>0, <2>1, <3>2, <4>2, AntigravityOrder DEF Planned
        <5>2. disk["conversation"] = "none"
          BY <2>0, <4>2, <5>1
        <5> QED
          BY <3>1, <3>3, <4>2, <5>1, <5>2
      <4>3. locals.moved \in {1, 2}
        BY <2>0, <2>1, AntigravityOrder
      <4> QED
        BY <4>1, <4>2, <4>3
    <3>6. locals.owed \/ "none" # disk'["conversation"] \/ "none" # aside'["conversation"]
      BY <2>0, <3>2, <3>3
    <3> HIDE DEF PutBack, Goto
    <3> QED
      BY <2>0, <3>1, <3>2, <3>3, <3>4, <3>5, <3>6
  <2>2. CASE EndBadly("restore") /\ UNCHANGED store
    BY <2>0, <2>2
  <2>3. CASE locals.moved = 0 /\ End("restore", "failed") /\ UNCHANGED store
    BY <2>0, <2>3
  <2> QED
    BY <1>15, <2>1, <2>2, <2>3 DEF AntigravityRestore
<1>16. CASE AntigravityDiscard
  BY <1>16 DEF AntigravityDiscard
<1>17. CASE AntigravitySweep
  BY <1>17 DEF AntigravitySweep
<1> QED
  BY <1>1, <1>2, <1>3, <1>4, <1>5, <1>6, <1>7, <1>8, <1>9, <1>10, <1>11, <1>12, <1>13,
     <1>14, <1>15, <1>16, <1>17 DEF AntigravityStep

\* A step of a command loses nothing.
LEMMA AntigravityTurns ==
  ASSUME Typed, Common, AntigravityInv, kind = "antigravity", AntigravityStep, UNCHANGED helper
  PROVE  TurnsStay /\ BlobsStay
<1> USE DEF Typed, StoreTyped, Locals, Common, AntigravityInv, Goto, Step, End, EndBadly,
   Put,
            SetAside, PutBack, Listed, Listing, Generated, Names, store, around, TurnsStay,
            BlobsStay, Kept, KeptNext, Turns,
            Owed, Staged, Payload, ConversationAsGenerated, RowAsGenerated
<1>1. CASE AntigravityIdle
  BY <1>1 DEF AntigravityIdle, Checked
<1>2. CASE AntigravitySummaries
  BY <1>2 DEF AntigravitySummaries
<1>3. CASE AntigravityValidate
  BY <1>3 DEF AntigravityValidate
<1>4. CASE AntigravityPublish
  BY <1>4 DEF AntigravityPublish
<1>5. CASE AntigravityAddRow
  BY <1>5 DEF AntigravityAddRow
<1>6. CASE AntigravityVerify
  BY <1>6 DEF AntigravityVerify
<1>7. CASE AntigravityCompare
  BY <1>7 DEF AntigravityCompare
<1>8. CASE AntigravityRemoveSummaries
  BY <1>8 DEF AntigravityRemoveSummaries
<1>9. CASE AntigravityRemoveConversation
  BY <1>9 DEF AntigravityRemoveConversation
<1>10. CASE AntigravityMoveAside
  BY <1>10 DEF AntigravityMoveAside
<1>11. CASE AntigravityCommit
  BY <1>11 DEF AntigravityCommit
<1>12. CASE AntigravityRemove
  BY <1>12 DEF AntigravityRemove
<1>13. CASE AntigravityPlan
  BY <1>13 DEF AntigravityPlan
<1>14. CASE AntigravityStage
  <2>0. /\ Planned("conversation", "brain") /\ pc = "stage"
        /\ "conversation" \in Names /\ "brain" \in Names
    BY <1>14 DEF AntigravityStage
  <2>1. CASE /\ locals.moved < Len(locals.plan)
             /\ SetAside(locals.plan[locals.moved + 1])
    <3> DEFINE n == locals.plan[locals.moved + 1]
    <3>1. n \in Payload /\ n \in Names
      BY <2>0, <2>1, AntigravityOrder
    <3>2. CASE locals.moved = 0
      <4>1. aside[n] = "none"
        BY <2>0, <3>1, <3>2
      <4>2. disk[n] # "none" /\ disk' = [disk EXCEPT ![n] = "none"]
            /\ aside' = [aside EXCEPT ![n] = disk[n]]
        BY <2>1
      <4> HIDE DEF n
      <4> QED
        BY <3>1, <4>1, <4>2
    <3>3. CASE locals.moved = 1
      <4>1. n = "brain" /\ locals.plan[1] = "conversation"
        BY <2>0, <2>1, <3>3, AntigravityOrder DEF Planned
      <4>2. ~ \E i \in 1..locals.moved : locals.plan[i] = n
        BY <3>3, <4>1
      <4>3. aside[n] = "none"
        BY <2>0, <3>1, <4>2
      <4>4. disk[n] # "none" /\ disk' = [disk EXCEPT ![n] = "none"]
            /\ aside' = [aside EXCEPT ![n] = disk[n]]
        BY <2>1
      <4> HIDE DEF n
      <4> QED
        BY <3>1, <4>3, <4>4
    <3> QED
      BY <2>0, <2>1, <3>2, <3>3, AntigravityOrder
  <2>2. CASE Step("stage", "discard") /\ Put("row", "none") /\ UNCHANGED aside
    BY <2>0, <2>2
  <2>3. CASE UNCHANGED store
    BY <2>3
  <2> QED
    BY <1>14, <2>1, <2>2, <2>3 DEF AntigravityStage
<1>15. CASE AntigravityRestore
  <2>0. /\ Planned("conversation", "brain") /\ pc = "restore"
        /\ "conversation" \in Names /\ "brain" \in Names
    BY <1>15 DEF AntigravityRestore
  <2>1. CASE /\ locals.moved > 0
             /\ PutBack(locals.plan[locals.moved])
    <3> DEFINE n == locals.plan[locals.moved]
    <3>1. n \in Payload /\ n \in Names
      BY <2>0, <2>1, AntigravityOrder
    <3>2. locals.moved \in 1..locals.moved
      BY <2>0, <2>1 DEF Planned
    <3>3. disk[n] = "none"
      BY <2>0, <3>1, <3>2
    <3>4. aside[n] # "none" /\ disk' = [disk EXCEPT ![n] = aside[n]]
          /\ aside' = [aside EXCEPT ![n] = "none"]
      BY <2>1
    <3> HIDE DEF n
    <3> QED
      BY <3>1, <3>3, <3>4
  <2>2. CASE UNCHANGED store
    BY <2>2
  <2> QED
    BY <1>15, <2>1, <2>2 DEF AntigravityRestore
<1>16. CASE AntigravityDiscard
  BY <1>16 DEF AntigravityDiscard
<1>17. CASE AntigravitySweep
  <2>1. command = "sweep" /\ disk' = disk
    BY <1>17 DEF AntigravitySweep
  <2>2. \A n \in Names : aside'[n] # aside[n] => disk["row"] = "none"
    BY <1>17 DEF AntigravitySweep, Pending
  <2> QED
    BY <2>1, <2>2
<1> QED
  BY <1>1, <1>2, <1>3, <1>4, <1>5, <1>6, <1>7, <1>8, <1>9, <1>10, <1>11, <1>12, <1>13,
     <1>14, <1>15, <1>16, <1>17 DEF AntigravityStep

\* The shared steps keep the invariant.
LEMMA AntigravityShared ==
  ASSUME Typed, Common, AntigravityInv, kind = "antigravity", Shared
  PROVE  AntigravityInv'
<1> USE DEF Typed, StoreTyped, Locals, Common, AntigravityInv, Listed, Listing, Generated,
   Names, store,
            around, Closed, Nothing, NoneAside, Planned, Put,
            Owed, Staged, Payload, ConversationAsGenerated, RowAsGenerated
<1>1. CASE Import
  BY <1>1 DEF Import, First, Begin
<1>2. CASE Undo
  BY <1>2 DEF Undo, First, Begin, AimAt
<1>3. CASE Delete
  BY <1>3 DEF Delete, Begin, Empty
<1>4. CASE DeleteAnother
  BY <1>4 DEF DeleteAnother, First, Begin
<1>5. CASE Kill
  <2>1. /\ pc' = "idle" /\ outcome' = "killed" /\ UNCHANGED <<kind, agent, command, store>>
        /\ locals'.owed = Owed /\ locals'.goal = locals.goal
    BY <1>5 DEF Kill
  <2>2. Owed' = Owed /\ Listed' = Listed
    BY <2>1
  <2> HIDE DEF Owed, Staged, Listed
  <2> QED
    BY <2>1, <2>2
<1>6. CASE Around(Open)
  BY <1>6 DEF Around, Open
<1>7. CASE Around(Close)
  BY <1>7 DEF Around, Close
<1>8. CASE Around(Continue)
  <2>1. /\ UNCHANGED <<kind, aside, command, pc, locals, outcome, agent>>
        /\ Listed /\ disk["conversation"] # "none" /\ agent = "open"
    BY <1>8 DEF Around, Continue, Needed, Parts
  <2>2. /\ disk'["conversation"] = "grown" /\ disk'["brain"] = "grown" /\ disk'["row"] = "grown"
    BY <1>8 DEF Around, Continue, TouchedBy
  <2> QED
    BY <2>1, <2>2
<1>9. CASE Around(Recreate)
  BY <1>9 DEF Around, Recreate
<1>10. CASE Around(SelectOrShare)
  BY <1>10 DEF Around, SelectOrShare
<1> QED
  BY <1>1, <1>2, <1>3, <1>4, <1>5, <1>6, <1>7, <1>8, <1>9, <1>10 DEF Shared, AgentStep
-----------------------------------------------------------------------------
(* Cursor IDE *)

NamesIt(w) == disk[w] \in NamesUs

\* No selection names a composer that is not there, but for the workspace whose database
\* was not there when the session was imported; between the plan and the end of a
\* deletion, exactly the selections that were changed are to be put back.
IdeInv ==
  /\ NoneAside
  /\ disk["records"] \in {"none", "made", "grown"}
  /\ pc \notin {"idle", "check"} => agent = "closed"
  /\ command \in {"none", "import", "undo", "delete"}
  /\ NamesIt("elsewhere") \/ (Listed /\ disk["elsewhere"] # "before") =>
       disk["records"] = "grown"
  /\ NamesIt("selection") /\ ~Listed => command = "undo" /\ locals.found = "none"
  /\ locals.created => disk["blob"] # "theirs"
  /\ command = "none" => /\ disk["records"] = "none" /\ disk["selection"] = "before"
                         /\ disk["elsewhere"] = "before"
                         /\ locals.found = "none" /\ locals.goal = "none"
  /\ command \in {"import", "undo"} =>
       /\ locals.found \in {"none", "before"}
       /\ disk["selection"] \in {"before", "ours", "both"}
       /\ disk["elsewhere"] \in {"before", "both"}
       /\ locals.found = "none" => disk["selection"] # "ours"
       /\ pc \in {"idle", "check", "import", "undo", "insert", "select", "published",
                  "unselect", "rows", "read_back"}
  /\ command = "import" /\ pc # "idle" => locals.goal \in {"none", "failed"}
  /\ command = "undo" =>
       pc \notin {"import", "insert", "select", "published"} /\ locals.goal = "undone"
  /\ command = "delete" =>
       pc \in {"idle", "check", "delete", "apply", "restore", "read_back_deletion"}
  /\ command = "delete" /\ pc \in {"check", "delete"} => locals.moved = 0
  /\ pc \in {"import", "insert"} \/ (pc = "check" /\ command = "import") =>
       disk["records"] = "none" /\ disk["selection"] = "before" /\ locals.found = "none"
  /\ pc \in {"select", "published"} => disk["records"] # "none"
  /\ pc \in {"unselect", "rows"} => disk["records"] = "made"
  /\ pc = "select" => disk["selection"] = "before" /\ locals.found = "none"
  /\ command = "import" /\ pc # "idle" /\ locals.found = "none" =>
       disk["selection"] = "before"
  /\ pc \in {"rows", "read_back"} =>
       disk["selection"] = "before" \/ (command = "undo" /\ locals.found = "none")
  /\ pc = "read_back" => disk["records"] = "none"
  /\ pc \in {"apply", "restore"} =>
       /\ Planned("selection", "elsewhere") /\ Listed
       /\ \A i \in 1..Len(locals.plan) :
            IF i <= locals.moved THEN disk[locals.plan[i]] \in {"emptied", "others"}
            ELSE NamesIt(locals.plan[i])
  /\ pc = "apply" =>
       \A w \in Workspaces : NamesIt(w) => \E i \in 1..Len(locals.plan) : locals.plan[i] = w
  /\ pc = "read_back_deletion" =>
       disk["records"] = "none" /\ \A w \in Workspaces : ~NamesIt(w)
  /\ outcome \in {"failed", "undone"} /\ command \in {"import", "undo"} =>
       /\ disk["records"] = "none" /\ disk["selection"] \in {"before", "both"}
       /\ disk["elsewhere"] = "before"

\* The plan of its deletions has every workspace that selects the composer.
LEMMA SelectionsPlan ==
  ASSUME NEW S
  PROVE  /\ InOrder("selection", "elsewhere", S) \in Seq(Names)
         /\ Len(InOrder("selection", "elsewhere", S)) \in 0..2
         /\ \A i \in 1..Len(InOrder("selection", "elsewhere", S)) :
              InOrder("selection", "elsewhere", S)[i] \in S \cap Workspaces
         /\ Len(InOrder("selection", "elsewhere", S)) = 2 =>
              /\ InOrder("selection", "elsewhere", S)[1] = "selection"
              /\ InOrder("selection", "elsewhere", S)[2] = "elsewhere"
         /\ \A w \in S \cap Workspaces :
              \E i \in 1..Len(InOrder("selection", "elsewhere", S)) :
                InOrder("selection", "elsewhere", S)[i] = w
<1>1. "selection" \in Names /\ "elsewhere" \in Names
  BY DEF Names
<1> QED
  BY <1>1 DEF InOrder, Only, Workspaces

\* A workspace is changed, and the rows are deleted when all are.
LEMMA SelectionDropped ==
  ASSUME Typed, Common, IdeInv, kind = "cursor_ide", IdeApply
  PROVE  /\ pc = "apply" /\ command = "delete" /\ UNCHANGED <<around, aside, outcome>>
         /\ \/ /\ locals.moved < Len(locals.plan) /\ pc' = "apply"
               /\ locals' = [locals EXCEPT !.moved = locals.moved + 1]
               /\ \E w \in Workspaces, v \in {"emptied", "others"} :
                    /\ w = locals.plan[locals.moved + 1] /\ disk' = [disk EXCEPT ![w] = v]
                    /\ w = "elsewhere" => v = "others"
            \/ /\ locals.moved = Len(locals.plan) /\ pc' = "read_back_deletion"
               /\ locals' = locals /\ disk' = [disk EXCEPT !["records"] = "none"]
            \/ pc' = "restore" /\ locals' = locals /\ disk' = disk
<1>1. /\ pc = "apply" /\ command = "delete" /\ UNCHANGED <<around, aside, outcome>>
      /\ Planned("selection", "elsewhere")
  BY DEF IdeApply, IdeInv, Common, Goto, Step
<1>2. CASE /\ locals.moved < Len(locals.plan)
           /\ Goto("apply", "apply") /\ locals' = [locals EXCEPT !.moved = locals.moved + 1]
           /\ LET w == locals.plan[locals.moved + 1] IN Put(w, Dropped[disk[w]])
  <2> DEFINE w == locals.plan[locals.moved + 1]
  <2>1. w \in Workspaces
    BY <1>1, <1>2, NextInPlan DEF Workspaces, Names
  <2>2. locals.moved + 1 \in 1..Len(locals.plan) /\ ~(locals.moved + 1 <= locals.moved)
    BY <1>1, <1>2 DEF Planned
  <2>3. disk[w] \in {"ours", "both"}
    BY <1>1, <2>2 DEF IdeInv, NamesIt, NamesUs
  <2>4. w = "elsewhere" => disk[w] = "both"
    BY <2>3 DEF Common
  <2>5. Dropped[disk[w]] \in {"emptied", "others"} /\ (w = "elsewhere" => Dropped[disk[w]] = "others")
    BY <2>3, <2>4 DEF Dropped
  <2>6. disk' = [disk EXCEPT ![w] = Dropped[disk[w]]] /\ pc' = "apply"
    BY <1>2 DEF Put, Goto
  <2> HIDE DEF w
  <2>7. w = locals.plan[locals.moved + 1]
    BY DEF w
  <2> QED
    BY <1>1, <1>2, <2>1, <2>5, <2>6, <2>7
<1>3. CASE /\ locals.moved = Len(locals.plan)
           /\ Step("apply", "read_back_deletion") /\ Put("records", "none")
  BY <1>1, <1>3 DEF Step, Goto, Put
<1>4. CASE Step("apply", "restore") /\ UNCHANGED disk
  BY <1>1, <1>4 DEF Step, Goto
<1> QED
  BY <1>2, <1>3, <1>4 DEF IdeApply

\* A workspace is put back as it was.
LEMMA SelectionRestored ==
  ASSUME Typed, Common, IdeInv, kind = "cursor_ide", IdeRestore
  PROVE  /\ pc = "restore" /\ command = "delete" /\ UNCHANGED <<around, aside>>
         /\ \/ /\ locals.moved > 0 /\ pc' = "restore" /\ outcome' = outcome
               /\ locals' = [locals EXCEPT !.moved = locals.moved - 1]
               /\ \E w \in Workspaces, v \in NamesUs :
                    /\ w = locals.plan[locals.moved] /\ disk' = [disk EXCEPT ![w] = v]
                    /\ w = "elsewhere" => v = "both"
            \/ /\ pc' = "idle" /\ disk' = disk /\ outcome' = "not_restored"
               /\ locals' = [locals EXCEPT !.owed = TRUE]
            \/ pc' = "idle" /\ disk' = disk /\ outcome' = "failed" /\ locals' = locals
<1>1. /\ pc = "restore" /\ command = "delete" /\ UNCHANGED <<around, aside>>
      /\ Planned("selection", "elsewhere")
  BY DEF IdeRestore, IdeInv, Common, Goto, Step, End, EndBadly
<1>2. CASE /\ locals.moved > 0
           /\ Goto("restore", "restore") /\ locals' = [locals EXCEPT !.moved = locals.moved - 1]
           /\ LET w == locals.plan[locals.moved] IN Put(w, Undropped[disk[w]])
  <2> DEFINE w == locals.plan[locals.moved]
  <2>1. w \in Workspaces
    BY <1>1, <1>2, LastOfPlan DEF Workspaces, Names
  <2>2. locals.moved \in 1..Len(locals.plan) /\ locals.moved <= locals.moved
    BY <1>1, <1>2 DEF Planned
  <2>3. disk[w] \in {"emptied", "others"}
    BY <1>1, <2>2 DEF IdeInv
  <2>4. w = "elsewhere" => disk[w] = "others"
    BY <2>3 DEF Common
  <2>5. Undropped[disk[w]] \in NamesUs /\ (w = "elsewhere" => Undropped[disk[w]] = "both")
    BY <2>3, <2>4 DEF Undropped, NamesUs
  <2>6. disk' = [disk EXCEPT ![w] = Undropped[disk[w]]] /\ pc' = "restore" /\ outcome' = outcome
    BY <1>2 DEF Put, Goto
  <2> HIDE DEF w
  <2>7. w = locals.plan[locals.moved]
    BY DEF w
  <2> QED
    BY <1>1, <1>2, <2>1, <2>5, <2>6, <2>7
<1>3. CASE EndBadly("restore") /\ UNCHANGED disk
  BY <1>1, <1>3 DEF EndBadly
<1>4. CASE End("restore", "failed") /\ UNCHANGED disk
  BY <1>1, <1>4 DEF End
<1> QED
  BY <1>2, <1>3, <1>4 DEF IdeRestore

\* A step of a command keeps the types of the store.
LEMMA IdeStoreTyped ==
  ASSUME Typed, Common, IdeInv, kind = "cursor_ide", IdeStep, UNCHANGED helper
  PROVE  StoreTyped'
<1> USE DEF Typed, StoreTyped, Goto, Step, End, EndBadly, Put, SetAside, PutBack,
            Names, Values, Contents, Generated, store
<1>1. CASE IdeIdle
  BY <1>1 DEF IdeIdle, Checked
<1>2. CASE IdeValidate
  BY <1>2 DEF IdeValidate
<1>3. CASE IdeInsert
  <2>1. \E b \in {"made", disk["blob"]} :
          disk' \in {disk, [disk EXCEPT !["records"] = "made", !["blob"] = b]}
    BY <1>3 DEF IdeInsert
  <2>2. aside' = aside
    BY <1>3 DEF IdeInsert
  <2> QED
    BY <2>1, <2>2
<1>4. CASE IdeSelect
  BY <1>4 DEF IdeSelect
<1>5. CASE IdeNoWorkspace
  BY <1>5 DEF IdeNoWorkspace
<1>6. CASE IdeVerify
  BY <1>6 DEF IdeVerify
<1>7. CASE IdeCompare
  BY <1>7 DEF IdeCompare
<1>8. CASE IdeUnselect
  <2>1. locals.found \in {"none", "before"}
    BY <1>8 DEF IdeUnselect, IdeInv, Common
  <2> QED
    BY <1>8, <2>1 DEF IdeUnselect
<1>9. CASE IdeDeleteRows
  BY SMTT(20), <1>9 DEF IdeDeleteRows
<1>10. CASE IdeReadBack
  BY <1>10 DEF IdeReadBack
<1>11. CASE IdePlan
  BY <1>11 DEF IdePlan
<1>12. CASE IdeApply
  <2>1. CASE \E w \in Workspaces, v \in {"emptied", "others"} :
               disk' = [disk EXCEPT ![w] = v] /\ (w = "elsewhere" => v = "others")
    BY <1>12, <2>1, SelectionDropped DEF Workspaces
  <2>2. CASE disk' \in {disk, [disk EXCEPT !["records"] = "none"]}
    BY <1>12, <2>2, SelectionDropped
  <2> QED
    BY <1>12, <2>1, <2>2, SelectionDropped
<1>13. CASE IdeRestore
  <2>1. CASE \E w \in Workspaces, v \in NamesUs :
               disk' = [disk EXCEPT ![w] = v] /\ (w = "elsewhere" => v = "both")
    BY <1>13, <2>1, SelectionRestored DEF Workspaces, NamesUs
  <2>2. CASE disk' = disk
    BY <1>13, <2>2, SelectionRestored
  <2> QED
    BY <1>13, <2>1, <2>2, SelectionRestored
<1>14. CASE IdeReadBackDeletion
  BY <1>14 DEF IdeReadBackDeletion
<1> QED
  BY <1>1, <1>2, <1>3, <1>4, <1>5, <1>6, <1>7, <1>8, <1>9, <1>10, <1>11, <1>12, <1>13,
     <1>14 DEF IdeStep

\* A step of a command keeps the types of its local variables.
LEMMA IdeLocals ==
  ASSUME Typed, Common, IdeInv, kind = "cursor_ide", IdeStep, UNCHANGED helper
  PROVE  locals' \in Locals
<1>0. locals \in Locals /\ locals.moved \in Nat
  BY LocalsUpdate DEF Typed
<1> USE DEF Goto, Step, End, EndBadly, AimAt
<1>1. CASE IdeIdle
  BY <1>1, <1>0, LocalsUpdate DEF IdeIdle, Checked
<1>2. CASE IdeValidate
  BY <1>2, <1>0, LocalsUpdate DEF IdeValidate
<1>3. CASE IdeInsert
  <2>1. BlobIsNew \in BOOLEAN
    BY DEF BlobIsNew
  <2> QED
    BY <1>3, <1>0, <2>1, LocalsUpdate DEF IdeInsert
<1>4. CASE IdeSelect
  <2>1. disk["selection"] \in Values
    BY DEF Typed, StoreTyped, Names
  <2> QED
    BY <1>4, <1>0, <2>1, LocalsUpdate DEF IdeSelect
<1>5. CASE IdeNoWorkspace
  BY <1>5, <1>0, LocalsUpdate DEF IdeNoWorkspace
<1>6. CASE IdeVerify
  BY <1>6, <1>0, LocalsUpdate DEF IdeVerify
<1>7. CASE IdeCompare
  BY <1>7, <1>0, LocalsUpdate DEF IdeCompare
<1>8. CASE IdeUnselect
  BY <1>8, <1>0, LocalsUpdate DEF IdeUnselect
<1>9. CASE IdeDeleteRows
  BY <1>9, <1>0, LocalsUpdate DEF IdeDeleteRows
<1>10. CASE IdeReadBack
  BY <1>10, <1>0, LocalsUpdate DEF IdeReadBack
<1>11. CASE IdePlan
  <2> DEFINE plan == InOrder("selection", "elsewhere", {w \in Workspaces : disk[w] \in NamesUs})
  <2>1. plan \in Seq(Names)
    BY SelectionsPlan
  <2>2. locals' = locals \/ locals' = [locals EXCEPT !.plan = plan]
    BY <1>11 DEF IdePlan
  <2> HIDE DEF plan
  <2> QED
    BY <1>0, <2>1, <2>2, LocalsUpdate
<1>12. CASE IdeApply
  <2>1. locals' \in {locals, [locals EXCEPT !.moved = locals.moved + 1]}
    BY <1>12 DEF IdeApply
  <2>2. locals.moved + 1 \in Nat
    BY <1>0
  <2> QED
    BY <1>0, <2>1, <2>2, LocalsUpdate
<1>13. CASE IdeRestore
  <2>1. CASE locals.moved > 0 /\ locals' = [locals EXCEPT !.moved = locals.moved - 1]
    <3>1. locals.moved - 1 \in Nat
      BY <1>0, <2>1
    <3> QED
      BY <1>0, <2>1, <3>1, LocalsUpdate
  <2>2. CASE locals' \in {locals, [locals EXCEPT !.owed = TRUE]}
    BY <1>0, <2>2, LocalsUpdate
  <2> QED
    BY <1>13, <2>1, <2>2 DEF IdeRestore
<1>14. CASE IdeReadBackDeletion
  BY <1>14, <1>0, LocalsUpdate DEF IdeReadBackDeletion
<1> QED
  BY <1>1, <1>2, <1>3, <1>4, <1>5, <1>6, <1>7, <1>8, <1>9, <1>10, <1>11, <1>12, <1>13,
     <1>14 DEF IdeStep

\* A step of a command keeps what the kinds have in common.
LEMMA IdeCommon ==
  ASSUME Typed, Common, IdeInv, kind = "cursor_ide", IdeStep, UNCHANGED helper
  PROVE  Common'
<1> USE DEF Typed, StoreTyped, Locals, Common, IdeInv, Goto, Step, End, EndBadly, AimAt,
   Put,
            SetAside, PutBack, Listed, Listing, Generated, Names, Commanded, around, store,
            NamesIt, NamesUs, Workspaces, BlobIsNew, SelectionRetained
<1>1. CASE IdeIdle
  BY <1>1 DEF IdeIdle, Checked
<1>2. CASE IdeValidate
  BY <1>2 DEF IdeValidate
<1>3. CASE IdeInsert
  <2>1. /\ UNCHANGED <<kind, agent, knows, command>> /\ pc = "insert"
        /\ disk'["selection"] = disk["selection"] /\ disk'["elsewhere"] = disk["elsewhere"]
        /\ disk'["blob"] \in {disk["blob"], "made"} /\ locals'.owed = locals.owed
    BY <1>3 DEF IdeInsert
  <2>2. (pc' = "select" /\ outcome' = outcome) \/ (pc' = "idle" /\ outcome' = "failed")
    BY <1>3 DEF IdeInsert
  <2> QED
    BY <2>1, <2>2
<1>4. CASE IdeSelect
  <2>1. /\ UNCHANGED <<kind, agent, knows, command, outcome>> /\ pc = "select"
        /\ pc' \in {"published", "undo"} /\ locals'.owed = locals.owed
        /\ disk'["blob"] = disk["blob"] /\ disk'["elsewhere"] = disk["elsewhere"]
        /\ disk'["selection"] \in {disk["selection"], "ours"} /\ disk'["records"] = disk["records"]
    BY <1>4 DEF IdeSelect
  <2> QED
    BY <2>1
<1>5. CASE IdeNoWorkspace
  BY <1>5 DEF IdeNoWorkspace
<1>6. CASE IdeVerify
  <2>1. command = "import" /\ ~locals.owed /\ UNCHANGED <<kind, agent, knows, command, count, store>>
    BY <1>6 DEF IdeVerify
  <2>2. CASE disk["records"] = "made" /\ End("published", "imported")
    BY <2>1, <2>2
  <2>3. CASE Goto("published", "undo") /\ AimAt("failed")
    BY <2>1, <2>3
  <2> QED
    BY <1>6, <2>2, <2>3 DEF IdeVerify
<1>7. CASE IdeCompare
  BY <1>7 DEF IdeCompare
<1>8. CASE IdeUnselect
  BY <1>8 DEF IdeUnselect
<1>9. CASE IdeDeleteRows
  BY <1>9 DEF IdeDeleteRows
<1>10. CASE IdeReadBack
  BY <1>10 DEF IdeReadBack
<1>11. CASE IdePlan
  BY <1>11 DEF IdePlan
<1>12. CASE IdeApply
  <2>1. /\ pc = "apply" /\ command = "delete" /\ UNCHANGED <<around, aside, outcome>>
        /\ pc' # "idle" /\ locals'.owed = locals.owed
    BY <1>12, SelectionDropped
  <2>2. /\ disk'["blob"] = disk["blob"]
        /\ disk'["selection"] \in {"before", "ours", "both", "emptied", "others"}
        /\ disk'["elsewhere"] \in {"before", "both", "others"}
    <3>1. CASE \E w \in Workspaces, v \in {"emptied", "others"} :
                 disk' = [disk EXCEPT ![w] = v] /\ (w = "elsewhere" => v = "others")
      BY <3>1
    <3>2. CASE disk' \in {disk, [disk EXCEPT !["records"] = "none"]}
      BY <3>2
    <3> QED
      BY <1>12, <3>1, <3>2, SelectionDropped
  <2> QED
    BY <2>1, <2>2
<1>13. CASE IdeRestore
  <2>1. /\ pc = "restore" /\ command = "delete" /\ UNCHANGED <<around, aside>>
        /\ outcome' \in {"running", "failed", "not_restored"} /\ (pc' = "idle" \/ outcome' = "running")
    BY <1>13, SelectionRestored
  <2>2. /\ disk'["blob"] = disk["blob"]
        /\ disk'["selection"] \in {"before", "ours", "both", "emptied", "others"}
        /\ disk'["elsewhere"] \in {"before", "both", "others"}
    <3>1. CASE \E w \in Workspaces, v \in NamesUs :
                 disk' = [disk EXCEPT ![w] = v] /\ (w = "elsewhere" => v = "both")
      BY <3>1
    <3>2. CASE disk' = disk
      BY <3>2
    <3> QED
      BY <1>13, <3>1, <3>2, SelectionRestored
  <2> QED
    BY <2>1, <2>2
<1>14. CASE IdeReadBackDeletion
  BY <1>14 DEF IdeReadBackDeletion
<1> QED
  BY <1>1, <1>2, <1>3, <1>4, <1>5, <1>6, <1>7, <1>8, <1>9, <1>10, <1>11, <1>12, <1>13,
     <1>14 DEF IdeStep

\* A step of a command keeps the invariant.
LEMMA IdeOwn ==
  ASSUME Typed, Common, IdeInv, kind = "cursor_ide", IdeStep, UNCHANGED helper
  PROVE  IdeInv'
<1> USE DEF Common, IdeInv, Listed, Listing, Generated, NoneAside, around, store, NamesIt,
            NamesUs, Workspaces
<1>1. CASE IdeIdle
  <2>1. /\ pc = "check" /\ UNCHANGED <<around, aside>>
        /\ disk'["selection"] = disk["selection"] /\ disk'["elsewhere"] = disk["elsewhere"]
        /\ disk'["records"] = disk["records"] /\ disk'["blob"] = disk["blob"]
        /\ locals'.found = locals.found /\ locals'.goal = locals.goal
        /\ locals'.moved = locals.moved /\ locals'.plan = locals.plan
        /\ locals'.created = locals.created
    BY <1>1 DEF IdeIdle, Checked, Goto, Step, End, EndBadly, AimAt, Put, Locals, Typed,
       StoreTyped, Names
  <2>2. \/ pc' = command /\ outcome' = outcome /\ agent = "closed"
        \/ command # "undo" /\ pc' = "idle" /\ outcome' = "failed"
        \/ command = "undo" /\ pc' = "idle" /\ outcome' = "not_restored"
    BY <1>1 DEF IdeIdle, Checked, Goto, Step, End, EndBadly, AimAt, Put, Locals, Typed,
       StoreTyped, Names
  <2> QED
    BY <2>1, <2>2
<1>2. CASE IdeValidate
  <2>1. /\ pc = "import" /\ UNCHANGED <<around, aside>>
        /\ disk'["selection"] = disk["selection"] /\ disk'["elsewhere"] = disk["elsewhere"]
        /\ disk'["records"] = disk["records"] /\ disk'["blob"] = disk["blob"]
        /\ locals'.found = locals.found /\ locals'.goal = locals.goal
        /\ locals'.moved = locals.moved /\ locals'.plan = locals.plan
        /\ locals'.created = locals.created /\ locals'.owed = locals.owed
    BY <1>2 DEF IdeValidate, Goto, Step, End, EndBadly, AimAt, Put, Locals, Typed,
       StoreTyped, Names
  <2>2. \/ pc' = "insert" /\ outcome' = outcome
        \/ pc' = "idle" /\ outcome' = "failed"
    BY <1>2 DEF IdeValidate, Goto, Step, End, EndBadly, AimAt, Put, Locals, Typed,
       StoreTyped, Names
  <2> QED
    BY <2>1, <2>2
<1>3. CASE IdeInsert
  <2>1. /\ pc = "insert" /\ UNCHANGED <<around, aside>>
        /\ disk'["selection"] = disk["selection"] /\ disk'["elsewhere"] = disk["elsewhere"]
        /\ locals'.found = locals.found /\ locals'.goal = locals.goal
        /\ locals'.moved = locals.moved /\ locals'.plan = locals.plan
        /\ locals'.owed = locals.owed
    <3>1. CASE /\ Goto("insert", "select") /\ UNCHANGED aside
               /\ locals' = [locals EXCEPT !.created = BlobIsNew]
               /\ disk' = [disk EXCEPT !["records"] = "made",
                                       !["blob"] = IF BlobIsNew THEN "made" ELSE disk["blob"]]
      BY <3>1 DEF Goto, Locals, Typed, StoreTyped, Names
    <3>2. CASE End("insert", "failed") /\ UNCHANGED store
      BY <3>2 DEF End, store
    <3> QED
      BY <1>3, <3>1, <3>2 DEF IdeInsert
  <2>2. \/ pc' = "idle" /\ outcome' = "failed" /\ disk'["records"] = disk["records"]
           /\ disk'["blob"] = disk["blob"] /\ locals'.created = locals.created
        \/ pc' = "select" /\ outcome' = outcome /\ disk'["records"] = "made"
           /\ (locals'.created => disk'["blob"] = "made")
    BY <1>3 DEF IdeInsert, BlobIsNew, Goto, Step, End, EndBadly, AimAt, Put, Locals,
       Typed, StoreTyped, Names
  <2> QED
    BY <2>1, <2>2
<1>4. CASE IdeSelect
  <2>1. /\ pc = "select" /\ UNCHANGED <<around, aside>>
        /\ disk'["elsewhere"] = disk["elsewhere"] /\ disk'["records"] = disk["records"]
        /\ disk'["blob"] = disk["blob"] /\ locals'.moved = locals.moved
        /\ locals'.plan = locals.plan /\ locals'.created = locals.created
        /\ locals'.owed = locals.owed
    BY <1>4 DEF IdeSelect, Goto, Step, End, EndBadly, AimAt, Put, Locals, Typed,
       StoreTyped, Names
  <2>2. \/ pc' = "published" /\ disk'["selection"] = "ours" /\ locals'.found = disk["selection"]
           /\ locals'.goal = locals.goal /\ outcome' = outcome
        \/ pc' = "undo" /\ disk'["selection"] = disk["selection"]
           /\ locals'.found = locals.found /\ locals'.goal = "failed" /\ outcome' = outcome
    BY <1>4 DEF IdeSelect, Goto, Step, End, EndBadly, AimAt, Put, Locals, Typed,
       StoreTyped, Names
  <2> QED
    BY <2>1, <2>2
<1>5. CASE IdeNoWorkspace
  <2>1. /\ pc = "select" /\ UNCHANGED <<around, aside>>
        /\ disk'["selection"] = disk["selection"] /\ disk'["elsewhere"] = disk["elsewhere"]
        /\ disk'["records"] = disk["records"] /\ disk'["blob"] = disk["blob"]
        /\ locals'.found = locals.found /\ locals'.goal = locals.goal
        /\ locals'.moved = locals.moved /\ locals'.plan = locals.plan
        /\ locals'.created = locals.created /\ locals'.owed = locals.owed
        /\ pc' = "published" /\ outcome' = outcome
    BY <1>5 DEF IdeNoWorkspace, Goto, Step, End, EndBadly, AimAt, Put, Locals, Typed,
       StoreTyped, Names
  <2>2. \/ TRUE
    BY <1>5 DEF IdeNoWorkspace, Goto, Step, End, EndBadly, AimAt, Put, Locals, Typed,
       StoreTyped, Names
  <2> QED
    BY <2>1, <2>2
<1>6. CASE IdeVerify
  <2>1. /\ pc = "published" /\ UNCHANGED <<around, aside>>
        /\ disk'["selection"] = disk["selection"] /\ disk'["elsewhere"] = disk["elsewhere"]
        /\ disk'["records"] = disk["records"] /\ disk'["blob"] = disk["blob"]
        /\ locals'.found = locals.found /\ locals'.moved = locals.moved
        /\ locals'.plan = locals.plan /\ locals'.created = locals.created
        /\ locals'.owed = locals.owed
    BY <1>6 DEF IdeVerify, Goto, Step, End, EndBadly, AimAt, Put, Locals, Typed,
       StoreTyped, Names
  <2>2. \/ pc' = "idle" /\ outcome' = "imported" /\ locals'.goal = locals.goal
        \/ pc' = "undo" /\ outcome' = outcome /\ locals'.goal = "failed"
    BY <1>6 DEF IdeVerify, Goto, Step, End, EndBadly, AimAt, Put, Locals, Typed,
       StoreTyped, Names
  <2> QED
    BY <2>1, <2>2
<1>7. CASE IdeCompare
  <2>1. /\ pc = "undo" /\ UNCHANGED <<around, aside>>
        /\ disk'["selection"] = disk["selection"] /\ disk'["elsewhere"] = disk["elsewhere"]
        /\ disk'["records"] = disk["records"] /\ disk'["blob"] = disk["blob"]
        /\ locals'.found = locals.found /\ locals'.goal = locals.goal
        /\ locals'.moved = locals.moved /\ locals'.plan = locals.plan
        /\ locals'.created = locals.created
    BY <1>7 DEF IdeCompare, Goto, Step, End, EndBadly, AimAt, Put, Locals, Typed,
       StoreTyped, Names
  <2>2. \/ pc' = "unselect" /\ outcome' = outcome /\ disk["records"] = "made"
        \/ pc' = "idle" /\ outcome' = "not_restored"
    BY <1>7 DEF IdeCompare, Goto, Step, End, EndBadly, AimAt, Put, Locals, Typed,
       StoreTyped, Names
  <2> QED
    BY <2>1, <2>2
<1>8. CASE IdeUnselect
  <2>1. /\ pc = "unselect" /\ UNCHANGED <<around, aside>>
        /\ disk'["elsewhere"] = disk["elsewhere"] /\ disk'["records"] = disk["records"]
        /\ disk'["blob"] = disk["blob"] /\ locals'.found = locals.found
        /\ locals'.goal = locals.goal /\ locals'.moved = locals.moved
        /\ locals'.plan = locals.plan /\ locals'.created = locals.created
    BY <1>8 DEF IdeUnselect, Goto, Step, End, EndBadly, AimAt, Put, Locals, Typed,
       StoreTyped, Names
  <2>2. \/ pc' = "rows" /\ outcome' = outcome /\ disk'["selection"] = disk["selection"]
           /\ locals.found \in {"none", disk["selection"]}
        \/ pc' = "rows" /\ outcome' = outcome /\ disk'["selection"] = locals.found
           /\ locals.found # "none"
        \/ pc' = "idle" /\ outcome' = "not_restored" /\ disk'["selection"] = disk["selection"]
    BY <1>8 DEF IdeUnselect, Goto, Step, End, EndBadly, AimAt, Put, Locals, Typed,
       StoreTyped, Names
  <2> QED
    BY <2>1, <2>2
<1>9. CASE IdeDeleteRows
  <2>1. /\ pc = "rows" /\ UNCHANGED <<around, aside>>
        /\ disk'["selection"] = disk["selection"] /\ disk'["elsewhere"] = disk["elsewhere"]
        /\ locals'.found = locals.found /\ locals'.goal = locals.goal
        /\ locals'.moved = locals.moved /\ locals'.plan = locals.plan
        /\ locals'.created = locals.created /\ disk'["blob"] \in {disk["blob"], "none"}
    BY <1>9 DEF IdeDeleteRows, Goto, Step, End, EndBadly, AimAt, Put, Locals, Typed,
       StoreTyped, Names
  <2>2. \/ pc' = "read_back" /\ outcome' = outcome /\ disk'["records"] = "none"
        \/ pc' = "idle" /\ outcome' = "not_restored" /\ disk'["records"] = disk["records"]
    BY <1>9 DEF IdeDeleteRows, Goto, Step, End, EndBadly, AimAt, Put, Locals, Typed,
       StoreTyped, Names
  <2> QED
    BY <2>1, <2>2
<1>10. CASE IdeReadBack
  <2>1. /\ pc = "read_back" /\ UNCHANGED <<around, aside>>
        /\ disk'["selection"] = disk["selection"] /\ disk'["elsewhere"] = disk["elsewhere"]
        /\ disk'["records"] = disk["records"] /\ disk'["blob"] = disk["blob"]
        /\ locals'.found = locals.found /\ locals'.goal = locals.goal
        /\ locals'.moved = locals.moved /\ locals'.plan = locals.plan
        /\ locals'.created = locals.created
    BY <1>10 DEF IdeReadBack, Goto, Step, End, EndBadly, AimAt, Put, Locals, Typed,
       StoreTyped, Names
  <2>2. \/ pc' = "idle" /\ outcome' \in {locals.goal, "not_restored"}
    BY <1>10 DEF IdeReadBack, Goto, Step, End, EndBadly, AimAt, Put, Locals, Typed,
       StoreTyped, Names
  <2> QED
    BY <2>1, <2>2
<1>11. CASE IdePlan
  <2> DEFINE S == {w \in Workspaces : disk[w] \in NamesUs}
             plan == InOrder("selection", "elsewhere", S)
  <2>1. CASE End("delete", "failed") /\ UNCHANGED store
    BY <2>1 DEF End
  <2>2. CASE /\ Listed /\ Goto("delete", "apply") /\ UNCHANGED store
             /\ locals' = [locals EXCEPT !.plan = plan]
    <3>1. \A w \in Workspaces : w \in S <=> NamesIt(w)
      OBVIOUS
    <3> HIDE DEF S
    <3>2. /\ Len(plan) \in 0..2 /\ \A i \in 1..Len(plan) : plan[i] \in S \cap Workspaces
          /\ Len(plan) = 2 => plan[1] = "selection" /\ plan[2] = "elsewhere"
          /\ \A w \in S \cap Workspaces : \E i \in 1..Len(plan) : plan[i] = w
      BY SelectionsPlan
    <3> HIDE DEF plan
    <3>3. /\ locals'.plan = plan /\ locals'.moved = 0 /\ locals'.owed = locals.owed
          /\ locals'.found = locals.found /\ locals'.goal = locals.goal
          /\ locals'.created = locals.created /\ UNCHANGED <<around, outcome, disk, aside>>
          /\ pc = "delete" /\ pc' = "apply" /\ command = "delete"
      BY <2>2 DEF Goto, Typed, Locals
    <3>4. \A i \in 1..Len(plan) : plan[i] \in {"selection", "elsewhere"}
      BY <3>2
    <3>5. Planned("selection", "elsewhere")'
      BY <3>2, <3>3, <3>4 DEF Planned
    <3>6. /\ \A i \in 1..Len(plan) : NamesIt(plan[i])
          /\ \A w \in Workspaces : NamesIt(w) => \E i \in 1..Len(plan) : plan[i] = w
      BY <3>1, <3>2
    <3> QED
      BY <2>2, <3>3, <3>5, <3>6
  <2> QED
    BY <1>11, <2>1, <2>2 DEF IdePlan
<1>12. CASE IdeApply
  <2>0. /\ Planned("selection", "elsewhere") /\ Listed /\ agent = "closed"
        /\ pc = "apply" /\ command = "delete" /\ UNCHANGED <<around, aside, outcome>>
    BY <1>12, SelectionDropped DEF IdeApply
  <2>1. CASE /\ locals.moved < Len(locals.plan) /\ pc' = "apply"
             /\ locals' = [locals EXCEPT !.moved = locals.moved + 1]
             /\ \E w \in Workspaces, v \in {"emptied", "others"} :
                  w = locals.plan[locals.moved + 1] /\ disk' = [disk EXCEPT ![w] = v]
    <3>1. /\ locals'.plan = locals.plan /\ locals'.moved = locals.moved + 1
          /\ locals'.owed = locals.owed /\ locals'.found = locals.found
          /\ locals'.created = locals.created
      BY <2>1
    <3>2. Planned("selection", "elsewhere")'
      BY <2>0, <2>1, <3>1 DEF Planned
    <3>3. PICK w \in Workspaces, v \in {"emptied", "others"} :
            w = locals.plan[locals.moved + 1] /\ disk' = [disk EXCEPT ![w] = v]
      BY <2>1
    <3>4. /\ disk'[w] \in {"emptied", "others"} /\ \A n \in Names \ {w} : disk'[n] = disk[n]
          /\ disk'["records"] = disk["records"] /\ disk'["blob"] = disk["blob"]
      BY <3>3 DEF Typed, StoreTyped, Names
    <3>5. \A i \in 1..Len(locals.plan) :
            IF i <= locals'.moved THEN disk'[locals.plan[i]] \in {"emptied", "others"}
            ELSE disk'[locals.plan[i]] \in NamesUs
      <4>1. CASE locals.moved = 0
        <5>1. Len(locals.plan) = 2 => w = "selection" /\ locals.plan[2] = "elsewhere"
          BY <2>0, <3>3, <4>1, NextInPlan DEF Planned
        <5> QED
          BY <2>0, <2>1, <3>1, <3>3, <3>4, <4>1, <5>1 DEF Planned
      <4>2. CASE locals.moved = 1
        <5>1. Len(locals.plan) = 2 /\ w = "elsewhere" /\ locals.plan[1] = "selection"
          BY <2>0, <2>1, <3>3, <4>2, NextInPlan DEF Planned
        <5> QED
          BY <2>0, <2>1, <3>1, <3>3, <3>4, <4>2, <5>1 DEF Planned
      <4> QED
        BY <2>0, <2>1, <4>1, <4>2, NextInPlan DEF Names
    <3>6. \A n \in Workspaces : disk'[n] \in NamesUs =>
            disk[n] \in NamesUs /\ \E i \in 1..Len(locals.plan) : locals.plan[i] = n
      BY <2>0, <3>3, <3>4 DEF Names
    <3>7. disk[w] \in NamesUs
      <4>1. locals.moved + 1 \in 1..Len(locals.plan) /\ ~(locals.moved + 1 <= locals.moved)
        BY <2>0, <2>1 DEF Planned
      <4> QED
        BY <2>0, <3>3, <4>1
    <3>8. disk["elsewhere"] = "before" => disk'["elsewhere"] = "before"
      BY <3>4, <3>7 DEF Names
    <3> QED
      BY <2>0, <2>1, <3>1, <3>2, <3>4, <3>5, <3>6, <3>8
  <2>2. CASE /\ locals.moved = Len(locals.plan) /\ pc' = "read_back_deletion"
             /\ locals' = locals /\ disk' = [disk EXCEPT !["records"] = "none"]
    <3>1. \A w \in Workspaces : ~NamesIt(w)
      <4> SUFFICES ASSUME NEW w \in Workspaces, NamesIt(w) PROVE FALSE
        OBVIOUS
      <4>1. PICK i \in 1..Len(locals.plan) : locals.plan[i] = w
        BY <2>0
      <4>2. i <= locals.moved
        BY <2>2, <4>1
      <4> QED
        BY <2>0, <4>1, <4>2
    <3>2. /\ disk'["records"] = "none" /\ disk'["selection"] = disk["selection"]
          /\ disk'["elsewhere"] = disk["elsewhere"] /\ disk'["blob"] = disk["blob"]
      BY <2>2 DEF Typed, StoreTyped, Names
    <3> QED
      BY <2>0, <2>2, <3>1, <3>2
  <2>3. CASE pc' = "restore" /\ locals' = locals /\ disk' = disk
    BY <2>0, <2>3 DEF Planned
  <2> QED
    BY <1>12, <2>1, <2>2, <2>3, SelectionDropped
<1>13. CASE IdeRestore
  <2>0. /\ Planned("selection", "elsewhere") /\ Listed /\ agent = "closed"
        /\ pc = "restore" /\ command = "delete" /\ UNCHANGED <<around, aside>>
    BY <1>13, SelectionRestored DEF IdeRestore
  <2>1. CASE /\ locals.moved > 0 /\ pc' = "restore" /\ outcome' = outcome
             /\ locals' = [locals EXCEPT !.moved = locals.moved - 1]
             /\ \E w \in Workspaces, v \in NamesUs :
                  /\ w = locals.plan[locals.moved] /\ disk' = [disk EXCEPT ![w] = v]
                  /\ w = "elsewhere" => v = "both"
    <3>1. /\ locals'.plan = locals.plan /\ locals'.moved = locals.moved - 1
          /\ locals'.owed = locals.owed /\ locals'.found = locals.found
          /\ locals'.created = locals.created
      BY <2>1
    <3>2. Planned("selection", "elsewhere")'
      BY <2>0, <2>1, <3>1 DEF Planned
    <3>3. PICK w \in Workspaces, v \in NamesUs :
            /\ w = locals.plan[locals.moved] /\ disk' = [disk EXCEPT ![w] = v]
            /\ w = "elsewhere" => v = "both"
      BY <2>1
    <3>4. /\ disk'[w] \in NamesUs /\ \A n \in Names \ {w} : disk'[n] = disk[n]
          /\ disk'["records"] = disk["records"] /\ disk'["blob"] = disk["blob"]
      BY <3>3 DEF Typed, StoreTyped, Names
    <3>5. \A i \in 1..Len(locals.plan) :
            IF i <= locals'.moved THEN disk'[locals.plan[i]] \in {"emptied", "others"}
            ELSE disk'[locals.plan[i]] \in NamesUs
      <4>1. CASE locals.moved = 1
        <5>1. Len(locals.plan) = 2 => w = "selection" /\ locals.plan[2] = "elsewhere"
          BY <2>0, <3>3, <4>1, LastOfPlan DEF Planned
        <5> QED
          BY <2>0, <2>1, <3>1, <3>3, <3>4, <4>1, <5>1 DEF Planned
      <4>2. CASE locals.moved = 2
        <5>1. Len(locals.plan) = 2 /\ w = "elsewhere" /\ locals.plan[1] = "selection"
          BY <2>0, <2>1, <3>3, <4>2, LastOfPlan DEF Planned
        <5> QED
          BY <2>0, <2>1, <3>1, <3>3, <3>4, <4>2, <5>1 DEF Planned
      <4> QED
        BY <2>0, <2>1, <4>1, <4>2, LastOfPlan DEF Names
    <3>6. disk[w] \in {"emptied", "others"}
      <4>1. locals.moved \in 1..Len(locals.plan) /\ locals.moved <= locals.moved
        BY <2>0, <2>1 DEF Planned
      <4> QED
        BY <2>0, <3>3, <4>1
    <3>7. disk["elsewhere"] = "before" => disk'["elsewhere"] = "before"
      BY <3>4, <3>6 DEF Names
    <3> QED
      BY <2>0, <2>1, <3>1, <3>2, <3>4, <3>5, <3>7
  <2>2. CASE /\ pc' = "idle" /\ disk' = disk /\ outcome' \in {"not_restored", "failed"}
             /\ locals' \in {locals, [locals EXCEPT !.owed = TRUE]}
    <3>1. locals'.found = locals.found /\ locals'.created = locals.created
      BY <2>2 DEF Typed, Locals
    <3> QED
      BY <2>0, <2>2, <3>1
  <2> QED
    BY <1>13, <2>1, <2>2, SelectionRestored
<1>14. CASE IdeReadBackDeletion
  <2>1. /\ pc = "read_back_deletion" /\ UNCHANGED <<around, aside>>
        /\ disk'["selection"] = disk["selection"] /\ disk'["elsewhere"] = disk["elsewhere"]
        /\ disk'["records"] = disk["records"] /\ disk'["blob"] = disk["blob"]
        /\ locals'.found = locals.found /\ locals'.goal = locals.goal
        /\ locals'.moved = locals.moved /\ locals'.plan = locals.plan
        /\ locals'.created = locals.created /\ locals'.owed = locals.owed
    BY <1>14 DEF IdeReadBackDeletion, Goto, Step, End, EndBadly, AimAt, Put, Locals,
       Typed, StoreTyped, Names
  <2>2. \/ pc' = "idle" /\ outcome' \in {"deleted", "remains"}
    BY <1>14 DEF IdeReadBackDeletion, Goto, Step, End, EndBadly, AimAt, Put, Locals,
       Typed, StoreTyped, Names
  <2> QED
    BY <2>1, <2>2
<1> QED
  BY <1>1, <1>2, <1>3, <1>4, <1>5, <1>6, <1>7, <1>8, <1>9, <1>10, <1>11, <1>12, <1>13,
     <1>14 DEF IdeStep

\* A step of a command loses nothing.
LEMMA IdeTurns ==
  ASSUME Typed, Common, IdeInv, kind = "cursor_ide", IdeStep, UNCHANGED helper
  PROVE  TurnsStay /\ BlobsStay
<1> USE DEF Typed, StoreTyped, Locals, Common, IdeInv, Goto, Step, End, EndBadly, Put,
            SetAside, PutBack, Listed, Listing, Generated, Names, store, around, TurnsStay,
            BlobsStay, Kept, KeptNext, Turns,
            NamesIt, NamesUs, Workspaces, BlobIsNew, SelectionRetained
<1>1. CASE IdeIdle
  BY <1>1 DEF IdeIdle, Checked
<1>2. CASE IdeValidate
  BY <1>2 DEF IdeValidate
<1>3. CASE IdeInsert
  BY <1>3 DEF IdeInsert
<1>4. CASE IdeSelect
  BY <1>4 DEF IdeSelect
<1>5. CASE IdeNoWorkspace
  BY <1>5 DEF IdeNoWorkspace
<1>6. CASE IdeVerify
  BY <1>6 DEF IdeVerify
<1>7. CASE IdeCompare
  BY <1>7 DEF IdeCompare
<1>8. CASE IdeUnselect
  BY <1>8 DEF IdeUnselect
<1>9. CASE IdeDeleteRows
  <2>1. disk["records"] = "made" /\ (locals.created => disk["blob"] # "theirs")
    BY <1>9 DEF IdeDeleteRows
  <2>2. /\ aside' = aside
        /\ disk' \in {disk, [disk EXCEPT !["records"] = "none"],
                      [disk EXCEPT !["records"] = "none", !["blob"] = "none"]}
        /\ disk'["blob"] # disk["blob"] => locals.created /\ disk["blob"] # "shared"
    BY <1>9 DEF IdeDeleteRows, Collected
  <2> HIDE DEF Step, Goto, EndBadly, Put
  <2>3. CASE disk' = disk
    BY <2>2, <2>3
  <2>4. CASE disk' = [disk EXCEPT !["records"] = "none"]
    BY <2>1, <2>2, <2>4
  <2>5. CASE disk' = [disk EXCEPT !["records"] = "none", !["blob"] = "none"]
    BY <2>1, <2>2, <2>5
  <2> QED
    BY <2>2, <2>3, <2>4, <2>5
<1>10. CASE IdeReadBack
  BY <1>10 DEF IdeReadBack
<1>11. CASE IdePlan
  BY <1>11 DEF IdePlan
<1>12. CASE IdeApply
  <2>1. CASE \E w \in Workspaces, v \in {"emptied", "others"} :
               disk' = [disk EXCEPT ![w] = v] /\ (w = "elsewhere" => v = "others")
    <3>1. aside' = aside
      BY <1>12, SelectionDropped
    <3> QED
      BY <2>1, <3>1 DEF Workspaces
  <2>2. CASE disk' \in {disk, [disk EXCEPT !["records"] = "none"]}
    BY <1>12, <2>2, SelectionDropped
  <2> HIDE DEF TurnsStay, BlobsStay
  <2> QED
    BY <1>12, <2>1, <2>2, SelectionDropped
<1>13. CASE IdeRestore
  <2>1. CASE \E w \in Workspaces, v \in NamesUs :
               disk' = [disk EXCEPT ![w] = v] /\ (w = "elsewhere" => v = "both")
    BY <1>13, <2>1, SelectionRestored DEF Workspaces, NamesUs
  <2>2. CASE disk' = disk
    BY <1>13, <2>2, SelectionRestored
  <2> HIDE DEF TurnsStay, BlobsStay
  <2> QED
    BY <1>13, <2>1, <2>2, SelectionRestored
<1>14. CASE IdeReadBackDeletion
  BY <1>14 DEF IdeReadBackDeletion
<1> QED
  BY <1>1, <1>2, <1>3, <1>4, <1>5, <1>6, <1>7, <1>8, <1>9, <1>10, <1>11, <1>12, <1>13,
     <1>14 DEF IdeStep

\* The shared steps keep the invariant.
LEMMA IdeShared ==
  ASSUME Typed, Common, IdeInv, kind = "cursor_ide", Shared
  PROVE  IdeInv'
<1> USE DEF Typed, StoreTyped, Locals, Common, IdeInv, Listed, Listing, Generated, Names,
   store,
            around, Closed, Nothing, NoneAside, Planned, Put,
            NamesIt, NamesUs, Workspaces, BlobIsNew, SelectionRetained
<1>1. CASE Import
  BY <1>1 DEF Import, First, Begin
<1>2. CASE Undo
  BY <1>2 DEF Undo, First, Begin, AimAt
<1>3. CASE Delete
  BY <1>3 DEF Delete, Begin, Empty
<1>4. CASE DeleteAnother
  BY <1>4 DEF DeleteAnother, First, Begin
<1>5. CASE Kill
  BY <1>5 DEF Kill, Staged
<1>6. CASE Around(Open)
  BY <1>6 DEF Around, Open
<1>7. CASE Around(Close)
  BY <1>7 DEF Around, Close
<1>8. CASE Around(Continue)
  <2>1. /\ UNCHANGED <<kind, aside, command, pc, locals, outcome, agent>>
        /\ Listed /\ agent = "open"
    BY <1>8 DEF Around, Continue
  <2>2. /\ disk'["records"] = "grown" /\ disk'["selection"] = disk["selection"]
        /\ disk'["elsewhere"] = disk["elsewhere"] /\ disk'["blob"] = disk["blob"]
    BY <1>8 DEF Around, Continue, TouchedBy
  <2> QED
    BY <2>1, <2>2
<1>9. CASE Around(Recreate)
  BY <1>9 DEF Around, Recreate
<1>10. CASE Around(SelectOrShare)
  BY <1>10 DEF Around, SelectOrShare
<1> QED
  BY <1>1, <1>2, <1>3, <1>4, <1>5, <1>6, <1>7, <1>8, <1>9, <1>10 DEF Shared, AgentStep
=============================================================================
