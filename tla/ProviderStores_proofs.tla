------------------------ MODULE ProviderStores_proofs ------------------------
(***************************************************************************)
(* The theorems about ProviderStores: the invariant of every kind of store  *)
(* together, the errors that leave nothing, the turns that are not lost,    *)
(* and the stores as an implementation of AtomicSessions.                   *)
(***************************************************************************)
EXTENDS IndexedStores_proofs, SequenceTheorems

-----------------------------------------------------------------------------
(* The providers' own programs *)

Helpers == [up : BOOLEAN, asked : Seq(Requests), said : Seq(Messages)]

\* Requests and answers, by the number they have and what they are about.
Asks(S) == \A i \in DOMAIN helper.asked : <<helper.asked[i].id, helper.asked[i].what>> \in S
Answers(S) == \A i \in DOMAIN helper.said : <<helper.said[i].id, helper.said[i].to>> \in S

Importing == <<1, "import">>
Reading == <<2, "read">>
Undoing == <<DeletionId[kind], "delete">>

\* An answer that says the session is deleted is true, and stays so.
DeletionsAreTrue ==
  \A i \in DOMAIN helper.said :
    helper.said[i].to = "delete" =>
      helper.said[i].says = "refused"
      \/ (helper.said[i].says = "done" /\ disk["thread"] = "none")

\* What the program may have been asked for at each step of omni: while a deletion is
\* awaited nothing else it was asked for can bring the session back.
HelperInv ==
  /\ NoneAside
  /\ disk["thread"] \in Generated \cup {"none"}
  /\ command \in {"none", "import", "undo"}
  /\ command = "none" => disk["thread"] = "none"
  /\ command = "import" =>
       pc \in {"idle", "import", "import_sent", "looking", "reading", "taking_back", "shutdown",
              "finish", "read_back", "undo", "comparing", "deleting"}
  /\ command = "undo" =>
       pc \in {"idle", "undo", "comparing", "deleting"} /\ locals.goal = "undone"
  /\ pc = "import" => disk["thread"] = "none" /\ ~helper.up
  /\ pc = "idle" /\ outcome # "killed" => ~helper.up
  /\ pc = "import_sent" =>
       /\ Len(helper.asked) <= 1 /\ (helper.asked = <<>> \/ helper.said = <<>>)
       /\ Asks({Importing}) /\ Answers({Importing})
  /\ pc = "reading" =>
       Asks({Reading}) /\ Answers({Importing, Reading}) /\ kind \in {"codex", "grok"}
  /\ pc = "taking_back" =>
       /\ Asks({Reading, Undoing}) /\ Answers({Importing, Reading, Undoing})
       /\ DeletionsAreTrue /\ kind \in {"codex", "grok"}
  /\ pc = "comparing" => Asks({Reading}) /\ Answers({Reading})
  /\ pc = "deleting" =>
       /\ Asks({Reading, <<1, "delete">>}) /\ Answers({Reading, <<1, "delete">>})
       /\ DeletionsAreTrue
  /\ outcome \in {"failed", "undone"} =>
       disk["thread"] = "none" \/ (kind = "codex" /\ locals.found = "read")

\* A program that is not there, or was just started.
LEMMA NobodyThere ==
  Nobody \in Helpers /\ ~Nobody.up /\ Nobody.asked = <<>> /\ Nobody.said = <<>>
  BY DEF Nobody, Helpers

\* It has one request, and has said nothing.
LEMMA JustStarted ==
  ASSUME NEW id \in Nat, NEW what \in Whats
  PROVE  /\ Started(id, what) \in Helpers /\ Started(id, what).said = <<>>
         /\ Started(id, what).asked = <<[id |-> id, what |-> what]>>
         /\ Initialized \in Helpers /\ Initialized.said = <<>> /\ Initialized.asked = <<>>
<1>1. [id |-> id, what |-> what] \in Requests
  BY DEF Requests
<1>2. /\ <<[id |-> id, what |-> what]>> \in Seq(Requests)
      /\ <<>> \in Seq(Messages) /\ <<>> \in Seq(Requests)
  BY <1>1
<1>3. Initialized \in Helpers /\ Initialized.asked = <<>> /\ Initialized.said = <<>>
  BY NobodyThere DEF Initialized, Helpers
<1> DEFINE request == [id |-> id, what |-> what]
<1>4. Append(<<>>, request) = <<request>>
  OBVIOUS
<1> HIDE DEF request
<1>5. Started(id, what) = [Initialized EXCEPT !.asked = <<request>>]
  BY <1>3, <1>4 DEF Started, Asked, request
<1>6. <<request>> \in Seq(Requests)
  BY <1>2 DEF request
<1>7. /\ Started(id, what) \in Helpers /\ Started(id, what).said = <<>>
      /\ Started(id, what).asked = <<request>>
  BY <1>3, <1>5, <1>6 DEF Helpers
<1> QED
  BY <1>3, <1>7 DEF request

\* A request is added behind the others.
LEMMA AskedMore ==
  ASSUME NEW state \in Helpers, NEW id \in Nat, NEW what \in Whats
  PROVE  /\ Asked(state, id, what) \in Helpers /\ Asked(state, id, what).said = state.said
         /\ Asked(state, id, what).up = state.up
         /\ \A i \in DOMAIN Asked(state, id, what).asked :
              \/ \E j \in DOMAIN state.asked : Asked(state, id, what).asked[i] = state.asked[j]
              \/ Asked(state, id, what).asked[i] = [id |-> id, what |-> what]
<1>1. [id |-> id, what |-> what] \in Requests
  BY DEF Requests
<1>2. state.asked \in Seq(Requests) /\ state.said \in Seq(Messages) /\ state.up \in BOOLEAN
  BY DEF Helpers
<1> DEFINE request == [id |-> id, what |-> what]
           more == Append(state.asked, request)
<1> HIDE DEF request
<1>3. /\ more \in Seq(Requests)
      /\ \A i \in DOMAIN more :
           (\E j \in DOMAIN state.asked : more[i] = state.asked[j]) \/ more[i] = request
  BY <1>1, <1>2 DEF request
<1>4. Asked(state, id, what) = [state EXCEPT !.asked = more]
  BY DEF Asked, request
<1> HIDE DEF more
<1>5. /\ Asked(state, id, what) \in Helpers /\ Asked(state, id, what).said = state.said
      /\ Asked(state, id, what).up = state.up /\ Asked(state, id, what).asked = more
  BY <1>2, <1>3, <1>4 DEF Helpers
<1> QED
  BY <1>3, <1>5 DEF request

\* The answer omni hears, and the ones it leaves.
LEMMA HeardReply ==
  ASSUME helper \in Helpers, NEW id \in Nat, NEW good, Hears(id, good)
  PROVE  /\ Reply(id) \in DOMAIN helper.said
         /\ helper.said[Reply(id)].id = id /\ helper.said[Reply(id)].says \in good
         /\ helper.said[Reply(id)].to \in Whats
         /\ Passed(id) \in Helpers /\ Passed(id).asked = helper.asked /\ Passed(id).up = helper.up
         /\ \A i \in DOMAIN Passed(id).said : \E j \in DOMAIN helper.said : Passed(id).said[i] = helper.said[j]
<1>1. helper.asked \in Seq(Requests) /\ helper.said \in Seq(Messages) /\ helper.up \in BOOLEAN
  BY DEF Helpers
<1>2. PICK i \in Replies(id) : helper.said[i].says \in good
  BY DEF Hears
<1>3. Reply(id) \in Replies(id)
  BY <1>2 DEF Reply
<1>4. DOMAIN helper.said = 1..Len(helper.said) /\ Len(helper.said) \in Nat
  BY <1>1
<1>5. Reply(id) = i
  BY <1>2, <1>3, <1>4 DEF Replies
<1>6. /\ Reply(id) \in DOMAIN helper.said
      /\ helper.said[Reply(id)].id = id /\ helper.said[Reply(id)].says \in good
  BY <1>2, <1>3, <1>5 DEF Replies
<1>7. \A k \in 1..Len(helper.said) : helper.said[k] \in Messages
  BY <1>1
<1> DEFINE rest == SubSeq(helper.said, Reply(id) + 1, Len(helper.said))
<1>8. \A k \in (Reply(id) + 1)..Len(helper.said) : helper.said[k] \in Messages
  BY <1>4, <1>6, <1>7
<1>9. Reply(id) + 1 \in Int /\ Len(helper.said) \in Int /\ Reply(id) \in 1..Len(helper.said)
  BY <1>4, <1>6
<1>10. rest \in Seq(Messages)
  BY <1>8, <1>9, SubSeqProperties
<1>11. Len(rest) = Len(helper.said) - Reply(id)
  BY <1>8, <1>9, SubSeqProperties
<1>12. \A k \in 1..Len(rest) : rest[k] = helper.said[Reply(id) + k]
  BY <1>8, <1>9, <1>11, SubSeqProperties
<1> HIDE DEF rest
<1>13. DOMAIN rest = 1..Len(rest)
  BY <1>10
<1>14. ASSUME NEW k \in DOMAIN rest
       PROVE  \E j \in DOMAIN helper.said : rest[k] = helper.said[j]
  <2>1. Reply(id) + k \in DOMAIN helper.said
    BY <1>4, <1>9, <1>11, <1>13
  <2>2. rest[k] = helper.said[Reply(id) + k]
    BY <1>12, <1>13
  <2> QED
    BY <2>1, <2>2
<1>15. Passed(id) = [helper EXCEPT !.said = rest]
  BY DEF Passed, rest
<1>16. /\ Passed(id) \in Helpers /\ Passed(id).asked = helper.asked /\ Passed(id).up = helper.up
       /\ Passed(id).said = rest
  BY <1>1, <1>10, <1>15 DEF Helpers
<1>17. helper.said[Reply(id)].to \in Whats
  BY <1>4, <1>6, <1>7 DEF Messages
<1> QED
  BY <1>6, <1>14, <1>16, <1>17

\* What omni does with the program it talks to, of the four kinds together.
Talks ==
  \/ Begun("import_sent")
  \/ kind \in {"codex", "grok"} /\ Imported
  \/ Looked
  \/ Verified
  \/ TakenBack
  \/ ShutDown
  \/ ReadBackTarget
  \/ ServerUndo
  \/ Compared
  \/ Deleted
  \/ HermesImported
  \/ HermesFinish
  \/ HermesUndo
  \/ HermesDeleted
  \/ OpenCodeImported
  \/ OpenCodeUndo
  \/ OpenCodeDeleted

\* A step of a command is one of the program, its end, or one of the talk with it.
LEMMA CommandCases ==
  ASSUME CommandStep
  PROVE  Serve \/ Exit \/ (Talks /\ UNCHANGED store)
  BY DEF CommandStep, ServerStep, HermesStep, OpenCodeStep, Talks

\* Talking keeps the types of the local variables.
LEMMA TalkLocals ==
  ASSUME Typed, Common, HelperInv, kind \in Commanded, Talks, UNCHANGED store
  PROVE  locals' \in Locals
<1>0. locals \in Locals /\ locals.moved \in Nat /\ helper \in Helpers
  BY LocalsUpdate DEF Typed, Helpers
<1> USE DEF Goto, Step, End, EndBadly, AimAt
<1>1. CASE Begun("import_sent")
  BY <1>1, <1>0, LocalsUpdate DEF Begun
<1>2. CASE kind \in {"codex", "grok"} /\ Imported
  BY <1>2, <1>0, LocalsUpdate DEF Imported
<1>3. CASE Looked
  BY <1>3, <1>0, LocalsUpdate DEF Looked, TakeBack
<1>4. CASE Verified
  BY <1>4, <1>0, LocalsUpdate DEF Verified
<1>5. CASE TakenBack
  <2>1. CASE pc' = "idle" /\ \E id \in {DeletionId[kind]}, good \in {{"done"}, {"done"} \cup Contents} :
               Hears(id, good) /\ locals' = [locals EXCEPT !.found = helper.said[Reply(id)].to]
    <3>1. kind \in {"codex", "grok"} /\ DeletionId[kind] \in Nat
      BY <1>5 DEF DeletionId, TakenBack, HelperInv
    <3> QED
      BY <2>1, <3>1, <1>0, HeardReply DEF Locals
  <2>2. CASE EndBadly("taking_back")
    BY <2>2, <1>0, LocalsUpdate
  <2> QED
    BY <1>5, <2>1, <2>2 DEF TakenBack
<1>6. CASE ShutDown
  BY <1>6, <1>0, LocalsUpdate DEF ShutDown, TakeBack
<1>7. CASE ReadBackTarget
  BY <1>7, <1>0, LocalsUpdate DEF ReadBackTarget, TakeBack
<1>8. CASE ServerUndo
  BY <1>8, <1>0, LocalsUpdate DEF ServerUndo
<1>9. CASE Compared
  BY <1>9, <1>0, LocalsUpdate DEF Compared
<1>10. CASE Deleted
  BY <1>10, <1>0, LocalsUpdate DEF Deleted
<1>11. CASE HermesImported
  BY <1>11, <1>0, LocalsUpdate DEF HermesImported
<1>12. CASE HermesFinish
  BY <1>12, <1>0, LocalsUpdate DEF HermesFinish, TakeBack
<1>13. CASE HermesUndo
  BY <1>13, <1>0, LocalsUpdate DEF HermesUndo
<1>14. CASE HermesDeleted
  BY <1>14, <1>0, LocalsUpdate DEF HermesDeleted, Deleted
<1>15. CASE OpenCodeImported
  BY <1>15, <1>0 DEF OpenCodeImported, Locals
<1>16. CASE OpenCodeUndo
  BY <1>16, <1>0, LocalsUpdate DEF OpenCodeUndo
<1>17. CASE OpenCodeDeleted
  BY <1>17, <1>0, LocalsUpdate DEF OpenCodeDeleted, Deleted
<1> QED
  BY <1>1, <1>2, <1>3, <1>4, <1>5, <1>6, <1>7, <1>8, <1>9, <1>10, <1>11, <1>12, <1>13,
     <1>14, <1>15, <1>16, <1>17 DEF Talks

\* The programs omni starts.
LEMMA Starts ==
  ASSUME NEW next,
         \/ next = Nobody \/ next = Started(1, "import") \/ next = Started(1, "delete")
         \/ next = Started(2, "read")
  PROVE  next \in Helpers /\ next.said = <<>>
<1>1. {"import", "read", "delete"} \subseteq Whats /\ {1, 2} \subseteq Nat
  BY DEF Whats
<1>2. Started(1, "import") \in Helpers /\ Started(1, "import").said = <<>>
  BY <1>1, JustStarted
<1>3. Started(1, "delete") \in Helpers /\ Started(1, "delete").said = <<>>
  BY <1>1, JustStarted
<1>4. Started(2, "read") \in Helpers /\ Started(2, "read").said = <<>>
  BY <1>1, JustStarted
<1> QED
  BY <1>2, <1>3, <1>4, NobodyThere

\* A request after an answer.
LEMMA AsksOn ==
  ASSUME helper \in Helpers, NEW heard \in Nat, NEW good, Hears(heard, good),
         NEW id \in Nat, NEW what \in Whats
  PROVE  /\ Asked(Passed(heard), id, what) \in Helpers
         /\ \A i \in DOMAIN Asked(Passed(heard), id, what).said :
              \E j \in DOMAIN helper.said : Asked(Passed(heard), id, what).said[i] = helper.said[j]
         /\ \A i \in DOMAIN Asked(Passed(heard), id, what).asked :
              \/ \E j \in DOMAIN helper.asked :
                   Asked(Passed(heard), id, what).asked[i] = helper.asked[j]
              \/ Asked(Passed(heard), id, what).asked[i] = [id |-> id, what |-> what]
<1>1. /\ Passed(heard) \in Helpers /\ Passed(heard).asked = helper.asked
      /\ \A i \in DOMAIN Passed(heard).said :
           \E j \in DOMAIN helper.said : Passed(heard).said[i] = helper.said[j]
  BY HeardReply
<1> DEFINE passed == Passed(heard)
<1> HIDE DEF passed
<1>2. /\ Asked(passed, id, what) \in Helpers /\ Asked(passed, id, what).said = passed.said
      /\ \A i \in DOMAIN Asked(passed, id, what).asked :
           \/ \E j \in DOMAIN passed.asked : Asked(passed, id, what).asked[i] = passed.asked[j]
           \/ Asked(passed, id, what).asked[i] = [id |-> id, what |-> what]
  BY <1>1, AskedMore DEF passed
<1> QED
  BY <1>1, <1>2 DEF passed

\* The program has said only what it said before.
LEMMA TalkHelper ==
  ASSUME Typed, Common, HelperInv, kind \in Commanded, Talks, UNCHANGED store
  PROVE  /\ helper' \in Helpers /\ (pc' = "idle" => ~helper'.up)
         /\ \A i \in DOMAIN helper'.said : \E j \in DOMAIN helper.said : helper'.said[i] = helper.said[j]
<1>0. helper \in Helpers /\ {"import", "read", "delete"} \subseteq Whats
  BY DEF Typed, Helpers, Whats
<1> USE DEF Goto, Step, End, EndBadly, Gone
<1>1. CASE Begun("import_sent")
  BY <1>1, <1>0, NobodyThere, Starts DEF Begun
<1>2. CASE kind \in {"codex", "grok"} /\ Imported
  <2>1. CASE Hears(1, {"done"}) /\ pc' = "reading" /\ helper' = Asked(Passed(1), 2, "read")
    <3>1. 1 \in Nat /\ 2 \in Nat /\ "read" \in Whats /\ Hears(1, {"done"})
      BY <2>1, <1>0
    <3>2. /\ Asked(Passed(1), 2, "read") \in Helpers
          /\ \A i \in DOMAIN Asked(Passed(1), 2, "read").said :
               \E j \in DOMAIN helper.said : Asked(Passed(1), 2, "read").said[i] = helper.said[j]
      BY <3>1, <1>0, AsksOn
    <3> QED
      BY <2>1, <3>2
  <2>2. CASE helper' = Nobody
    BY <2>2, NobodyThere
  <2>3. CASE pc' = "looking" /\ helper' = Started(2, "read")
    BY <2>3, Starts
  <2> QED
    BY <1>2, <2>1, <2>2, <2>3 DEF Imported
<1>3. CASE Looked
  BY <1>3, <1>0, NobodyThere, Starts DEF Looked, TakeBack
<1>4. CASE Verified
  <2>1. DeletionId[kind] \in Nat
    BY <1>4 DEF DeletionId, HelperInv, Verified
  <2>2. CASE Hears(2, {"made"}) /\ pc' = "shutdown" /\ helper' = Passed(2)
    BY <2>2, <1>0, HeardReply
  <2>3. CASE /\ pc' = "taking_back" /\ Hears(2, {"refused"} \cup (Contents \ {"made"}))
             /\ helper' = Asked(Passed(2), DeletionId[kind], "delete")
    <3>1. 2 \in Nat /\ DeletionId[kind] \in Nat /\ "delete" \in Whats /\ Hears(2, {"refused"} \cup (Contents \ {"made"}))
      BY <2>1, <2>3, <1>0
    <3>2. /\ Asked(Passed(2), DeletionId[kind], "delete") \in Helpers
          /\ \A i \in DOMAIN Asked(Passed(2), DeletionId[kind], "delete").said :
               \E j \in DOMAIN helper.said : Asked(Passed(2), DeletionId[kind], "delete").said[i] = helper.said[j]
      BY <3>1, <1>0, AsksOn
    <3> QED
      BY <2>3, <3>2
  <2>4. CASE pc' = "taking_back" /\ helper' = Asked(helper, DeletionId[kind], "delete")
    BY <2>1, <2>4, <1>0, AskedMore
  <2> QED
    BY <1>4, <2>2, <2>3, <2>4 DEF Verified
<1>5. CASE TakenBack
  BY <1>5, <1>0, NobodyThere, Starts DEF TakenBack
<1>6. CASE ShutDown
  BY <1>6, <1>0, NobodyThere, Starts DEF ShutDown, TakeBack
<1>7. CASE ReadBackTarget
  BY <1>7, <1>0, NobodyThere, Starts DEF ReadBackTarget, TakeBack
<1>8. CASE ServerUndo
  BY <1>8, <1>0, NobodyThere, Starts DEF ServerUndo
<1>9. CASE Compared
  <2>1. CASE Hears(2, {"made"}) /\ pc' = "deleting" /\ helper' = Asked(Passed(2), 1, "delete")
    <3>1. 1 \in Nat /\ 2 \in Nat /\ "delete" \in Whats /\ Hears(2, {"made"})
      BY <2>1, <1>0
    <3>2. /\ Asked(Passed(2), 1, "delete") \in Helpers
          /\ \A i \in DOMAIN Asked(Passed(2), 1, "delete").said :
               \E j \in DOMAIN helper.said : Asked(Passed(2), 1, "delete").said[i] = helper.said[j]
      BY <3>1, <1>0, AsksOn
    <3> QED
      BY <2>1, <3>2
  <2>2. CASE helper' = Nobody
    BY <2>2, NobodyThere
  <2> QED
    BY <1>9, <2>1, <2>2 DEF Compared
<1>10. CASE Deleted
  BY <1>10, <1>0, NobodyThere, Starts DEF Deleted
<1>11. CASE HermesImported
  BY <1>11, <1>0, NobodyThere, Starts DEF HermesImported
<1>12. CASE HermesFinish
  BY <1>12, <1>0, NobodyThere, Starts DEF HermesFinish, TakeBack
<1>13. CASE HermesUndo
  BY <1>13, <1>0, NobodyThere, Starts DEF HermesUndo
<1>14. CASE HermesDeleted
  BY <1>14, <1>0, NobodyThere, Starts DEF HermesDeleted, Deleted
<1>15. CASE OpenCodeImported
  BY <1>15, <1>0, NobodyThere, Starts DEF OpenCodeImported
<1>16. CASE OpenCodeUndo
  BY <1>16, <1>0, NobodyThere, Starts DEF OpenCodeUndo
<1>17. CASE OpenCodeDeleted
  BY <1>17, <1>0, NobodyThere, Starts DEF OpenCodeDeleted, Deleted
<1> QED
  BY <1>1, <1>2, <1>3, <1>4, <1>5, <1>6, <1>7, <1>8, <1>9, <1>10, <1>11, <1>12, <1>13,
     <1>14, <1>15, <1>16, <1>17 DEF Talks

\* The deletion of a rollback ends with its goal when the session is gone.
DeletedFacts ==
  /\ pc = "deleting" /\ pc' = "idle" /\ UNCHANGED <<kind, agent, knows, command, disk>>
  /\ helper' = Nobody /\ locals'.goal = locals.goal
  /\ \/ locals' = locals /\ outcome' = locals.goal /\ disk["thread"] = "none"
     \/ locals'.owed = TRUE /\ locals'.found = locals.found /\ outcome' = "not_restored"

\* An answer to the request to delete leads to one of the two ends.
LEMMA DeletedShape ==
  ASSUME Typed, HelperInv, Deleted, UNCHANGED store
  PROVE  DeletedFacts
<1>1. helper \in Helpers /\ locals \in Locals
  BY DEF Typed, Helpers
<1>2. CASE Hears(1, {"done"}) /\ End("deleting", locals.goal) /\ Gone
  <2>1. /\ Reply(1) \in DOMAIN helper.said /\ helper.said[Reply(1)].says = "done"
        /\ helper.said[Reply(1)].id = 1
    BY <1>1, <1>2, HeardReply
  <2>2. <<helper.said[Reply(1)].id, helper.said[Reply(1)].to>> \in {Reading, <<1, "delete">>}
    BY <1>2, <2>1 DEF HelperInv, Answers, End
  <2>3. helper.said[Reply(1)].to = "delete"
    BY <2>1, <2>2 DEF Reading
  <2>4. disk["thread"] = "none"
    BY <1>2, <2>1, <2>3 DEF HelperInv, DeletionsAreTrue, End
  <2> QED
    BY <1>2, <2>4 DEF DeletedFacts, End, Gone, around, store
<1>3. CASE EndBadly("deleting") /\ Gone
  BY <1>1, <1>3 DEF DeletedFacts, EndBadly, Gone, around, store, Locals
<1> QED
  BY <1>2, <1>3 DEF Deleted

\* Talking keeps what the kinds have in common.
LEMMA TalkCommon ==
  ASSUME Typed, Common, HelperInv, kind \in Commanded, Talks, UNCHANGED store
  PROVE  Common'
<1> USE DEF Typed, StoreTyped, Locals, Common, HelperInv, Goto, Step, End, EndBadly, AimAt,
            Listed, Listing, Generated, Names, Commanded, around, store
<1>1. CASE Begun("import_sent")
  BY <1>1 DEF Begun
<1>2. CASE kind \in {"codex", "grok"} /\ Imported
  BY <1>2 DEF Imported
<1>3. CASE Looked
  BY <1>3 DEF Looked, TakeBack
<1>4. CASE Verified
  BY <1>4 DEF Verified
<1>5. CASE TakenBack
  BY <1>5 DEF TakenBack
<1>6. CASE ShutDown
  BY <1>6 DEF ShutDown, TakeBack
<1>7. CASE ReadBackTarget
  <2>1. UNCHANGED <<command, knows, kind, disk>> /\ locals'.owed = locals.owed /\ pc = "read_back"
    BY <1>7 DEF ReadBackTarget, TakeBack
  <2>2. \/ pc' = "idle" /\ outcome' = "imported" /\ disk["thread"] = "made"
        \/ pc' = "undo" /\ outcome' = outcome
    BY <1>7 DEF ReadBackTarget, TakeBack
  <2> QED
    BY <2>1, <2>2
<1>8. CASE ServerUndo
  BY <1>8 DEF ServerUndo
<1>9. CASE Compared
  BY <1>9 DEF Compared
<1>10. CASE Deleted
  <2>1. DeletedFacts
    BY <1>10, DeletedShape
  <2> QED
    BY <2>1 DEF DeletedFacts
<1>11. CASE HermesImported
  BY <1>11 DEF HermesImported
<1>12. CASE HermesFinish
  <2>1. /\ UNCHANGED <<command, knows, kind, disk, outcome>> /\ locals'.owed = locals.owed
        /\ pc = "finish" /\ pc' \in {"read_back", "undo"}
    BY <1>12 DEF HermesFinish, TakeBack
  <2> QED
    BY <2>1
<1>13. CASE HermesUndo
  BY <1>13 DEF HermesUndo
<1>14. CASE HermesDeleted
  <2>1. CASE Deleted
    <3>1. DeletedFacts
      BY <2>1, DeletedShape
    <3> QED
      BY <3>1 DEF DeletedFacts
  <2>2. CASE EndBadly("deleting")
    BY <2>2
  <2> QED
    BY <1>14, <2>1, <2>2 DEF HermesDeleted
<1>15. CASE OpenCodeImported
  <2>1. /\ UNCHANGED <<command, knows, kind, disk, outcome>> /\ locals'.owed = locals.owed
        /\ pc = "import_sent" /\ pc' \in {"read_back", "undo"}
    BY <1>15 DEF OpenCodeImported
  <2> QED
    BY <2>1
<1>16. CASE OpenCodeUndo
  BY <1>16 DEF OpenCodeUndo
<1>17. CASE OpenCodeDeleted
  <2>1. CASE Deleted
    <3>1. DeletedFacts
      BY <2>1, DeletedShape
    <3> QED
      BY <3>1 DEF DeletedFacts
  <2>2. CASE ~Deleted
    <3>1. UNCHANGED <<command, knows, kind, disk, locals>> /\ pc = "deleting" /\ pc' = "idle"
      BY <2>2, <1>17 DEF OpenCodeDeleted
    <3>2. outcome' \in {"failed", "unanswered"}
      BY <2>2, <1>17 DEF OpenCodeDeleted
    <3> QED
      BY <3>1, <3>2
  <2> QED
    BY <2>1, <2>2
<1> QED
  BY <1>1, <1>2, <1>3, <1>4, <1>5, <1>6, <1>7, <1>8, <1>9, <1>10, <1>11, <1>12, <1>13,
     <1>14, <1>15, <1>16, <1>17 DEF Talks

\* What it has said stays true, and of the same kinds.
LEMMA TalkAnswers ==
  ASSUME Typed, Common, HelperInv, kind \in Commanded, Talks, UNCHANGED store
  PROVE  /\ DeletionsAreTrue => DeletionsAreTrue'
         /\ \A p \in {Importing, Reading, Undoing, <<1, "delete">>} :
              (\E i \in DOMAIN helper'.said : <<helper'.said[i].id, helper'.said[i].to>> = p)
              => (\E i \in DOMAIN helper.said : <<helper.said[i].id, helper.said[i].to>> = p)
  BY TalkHelper DEF DeletionsAreTrue, store

\* A program that was started has its first request, and has said nothing.
Fresh(state, id, what) ==
  /\ Len(state.asked) = 1 /\ state.said = <<>> /\ DOMAIN state.said = {}
  /\ \A i \in DOMAIN state.asked : state.asked[i].id = id /\ state.asked[i].what = what

\* The request is the one it was started for.
LEMMA StartsWith ==
  ASSUME NEW id \in Nat, NEW what \in Whats
  PROVE  Fresh(Started(id, what), id, what)
<1> DEFINE request == [id |-> id, what |-> what]
<1>1. Started(id, what).said = <<>> /\ Started(id, what).asked = <<request>>
  BY JustStarted
<1>2. request.id = id /\ request.what = what
  OBVIOUS
<1> HIDE DEF request
<1>3. Len(<<request>>) = 1 /\ DOMAIN <<request>> = {1} /\ <<request>>[1] = request
  OBVIOUS
<1>4. DOMAIN <<>> = {}
  OBVIOUS
<1> QED
  BY <1>1, <1>2, <1>3, <1>4 DEF Fresh

\* The requests the commands start a program for.
LEMMA FreshStarts ==
  /\ Fresh(Started(1, "import"), 1, "import") /\ Fresh(Started(1, "delete"), 1, "delete")
  /\ Fresh(Started(2, "read"), 2, "read")
<1>1. 1 \in Nat /\ 2 \in Nat /\ {"import", "read", "delete"} \subseteq Whats
  BY DEF Whats
<1>2. Fresh(Started(1, "import"), 1, "import")
  BY <1>1, StartsWith
<1>3. Fresh(Started(1, "delete"), 1, "delete")
  BY <1>1, StartsWith
<1>4. Fresh(Started(2, "read"), 2, "read")
  BY <1>1, StartsWith
<1> QED
  BY <1>2, <1>3, <1>4

\* Talking keeps the invariant.
LEMMA TalkOwn ==
  ASSUME Typed, Common, HelperInv, kind \in Commanded, Talks, UNCHANGED store
  PROVE  HelperInv'
<1>0. /\ locals \in Locals /\ helper \in Helpers /\ (pc' = "idle" => ~helper'.up)
      /\ pc # "idle" => outcome = "running" /\ command # "none"
      /\ \A m \in {"failed", "undone"} : [locals EXCEPT !.goal = m].goal = m
      /\ [locals EXCEPT !.owed = TRUE].goal = locals.goal
      /\ {"import", "read", "delete"} \subseteq Whats /\ {1, 2} \subseteq Nat
  BY TalkHelper DEF Typed, Common, Helpers, Locals, Whats
<1> USE DEF Goto, Step, End, EndBadly, AimAt, Gone, around, store
<1>1. CASE Begun("import_sent")
  <2>1. CASE pc' = "import_sent" /\ locals' = locals /\ helper' = Started(1, "import")
    <3>1. UNCHANGED <<command, kind, disk, aside, outcome>> /\ pc = "import"
      BY <2>1, <1>1 DEF Begun
    <3>2. Fresh(helper', 1, "import")
      BY <2>1, FreshStarts
    <3>3. Asks({Importing})' /\ Answers({Importing})' /\ Len(helper'.asked) <= 1
      BY <3>2 DEF Fresh, Asks, Answers, Importing
    <3>4. command = "import" /\ helper'.said = <<>>
      BY <1>0, <3>1, <3>2 DEF Fresh, HelperInv
    <3> QED
      BY <1>0, <2>1, <3>1, <3>3, <3>4 DEF HelperInv, NoneAside
  <2>2. CASE End("import", "failed")
    <3>1. UNCHANGED <<command, kind, disk, aside>> /\ pc = "import" /\ pc' = "idle"
          /\ locals' = locals
      BY <2>2, <1>1, <1>0 DEF Begun
    <3> QED
      BY <1>0, <3>1 DEF HelperInv, NoneAside
  <2> QED
    BY <1>1, <2>1, <2>2 DEF Begun
<1>2. CASE kind \in {"codex", "grok"} /\ Imported
  <2>1. CASE /\ locals' = locals /\ kind \in {"codex", "grok"} /\ pc' = "reading"
             /\ Hears(1, {"done"}) /\ helper' = Asked(Passed(1), 2, "read")
    <3>1. 1 \in Nat /\ 2 \in Nat /\ "read" \in Whats /\ Hears(1, {"done"})
      BY <2>1, <1>2, <1>0
    <3>2. /\ \A k \in DOMAIN Asked(Passed(1), 2, "read").said :
               \E j \in DOMAIN helper.said : Asked(Passed(1), 2, "read").said[k] = helper.said[j]
          /\ \A k \in DOMAIN Asked(Passed(1), 2, "read").asked :
               \/ \E j \in DOMAIN helper.asked : Asked(Passed(1), 2, "read").asked[k] = helper.asked[j]
               \/ Asked(Passed(1), 2, "read").asked[k] = [id |-> 2, what |-> "read"]
      BY <3>1, <1>0, AsksOn
    <3>3. /\ \A k \in DOMAIN helper'.said :
               \E j \in DOMAIN helper.said : helper'.said[k] = helper.said[j]
          /\ \A k \in DOMAIN helper'.asked :
               \/ \E j \in DOMAIN helper.asked : helper'.asked[k] = helper.asked[j]
               \/ helper'.asked[k].id = 2 /\ helper'.asked[k].what = "read"
      BY <2>1, <3>2
    <3>4. UNCHANGED <<command, kind, disk, aside, outcome>> /\ pc = "import_sent"
      BY <2>1, <1>2 DEF Imported
    <3>5. helper.asked = <<>>
      <4>1. Reply(1) \in DOMAIN helper.said
        BY <3>1, <1>0, HeardReply
      <4>2. helper.said # <<>>
        BY <4>1
      <4> QED
        BY <3>4, <4>2 DEF HelperInv
    <3>6. DOMAIN helper.asked = {}
      BY <3>5
    <3> QED
      BY <1>0, <2>1, <3>3, <3>4, <3>6
      DEF Asks, Answers, Importing, Reading, Undoing, DeletionsAreTrue, HelperInv, NoneAside
  <2>2. CASE pc' = "idle" /\ outcome' = "unanswered"
    BY <1>2, <1>0, <2>2 DEF Imported, HelperInv, NoneAside
  <2>3. CASE pc' = "looking"
    BY <1>2, <1>0, <2>3 DEF Imported, HelperInv, NoneAside
  <2> QED
    BY <1>2, <2>1, <2>2, <2>3 DEF Imported
<1>3. CASE Looked
  BY <1>3, <1>0 DEF Looked, TakeBack, HelperInv, NoneAside
<1>4. CASE Verified
  <2>1. DeletionId[kind] \in Nat /\ pc = "reading" /\ kind \in {"codex", "grok"}
    BY <1>4 DEF DeletionId, HelperInv, Verified
  <2>2. CASE /\ locals' = [locals EXCEPT !.goal = "failed"] /\ pc' = "taking_back"
             /\ Hears(2, {"refused"} \cup (Contents \ {"made"})) /\ helper' = Asked(Passed(2), DeletionId[kind], "delete")
    <3>1. 2 \in Nat /\ DeletionId[kind] \in Nat /\ "delete" \in Whats /\ Hears(2, {"refused"} \cup (Contents \ {"made"}))
      BY <2>1, <2>2, <1>4, <1>0
    <3>2. /\ \A k \in DOMAIN Asked(Passed(2), DeletionId[kind], "delete").said :
               \E j \in DOMAIN helper.said : Asked(Passed(2), DeletionId[kind], "delete").said[k] = helper.said[j]
          /\ \A k \in DOMAIN Asked(Passed(2), DeletionId[kind], "delete").asked :
               \/ \E j \in DOMAIN helper.asked : Asked(Passed(2), DeletionId[kind], "delete").asked[k] = helper.asked[j]
               \/ Asked(Passed(2), DeletionId[kind], "delete").asked[k] = [id |-> DeletionId[kind], what |-> "delete"]
      BY <3>1, <1>0, AsksOn
    <3>3. /\ \A k \in DOMAIN helper'.said :
               \E j \in DOMAIN helper.said : helper'.said[k] = helper.said[j]
          /\ \A k \in DOMAIN helper'.asked :
               \/ \E j \in DOMAIN helper.asked : helper'.asked[k] = helper.asked[j]
               \/ helper'.asked[k].id = DeletionId[kind] /\ helper'.asked[k].what = "delete"
      BY <2>2, <3>2
    <3>4. UNCHANGED <<command, kind, disk, aside, outcome>> /\ pc = "reading"
      BY <2>2, <1>4 DEF Verified
    <3> QED
      BY <2>1, <1>0, <2>2, <3>3, <3>4
      DEF Asks, Answers, Importing, Reading, Undoing, DeletionsAreTrue, HelperInv, NoneAside
  <2>3. CASE /\ pc' = "taking_back" /\ locals' = [locals EXCEPT !.goal = "failed"]
             /\ helper' = Asked(helper, DeletionId[kind], "delete")
    <3>1. DeletionId[kind] \in Nat /\ "delete" \in Whats
      BY <2>1, <1>0
    <3>a. LET more == Asked(helper, DeletionId[kind], "delete")
          IN  /\ more.said = helper.said
              /\ \A i \in DOMAIN more.asked :
                   \/ \E j \in DOMAIN helper.asked : more.asked[i] = helper.asked[j]
                   \/ more.asked[i] = [id |-> DeletionId[kind], what |-> "delete"]
      BY <3>1, <1>0, AskedMore
    <3>2. /\ helper'.said = helper.said
          /\ \A i \in DOMAIN helper'.asked :
               \/ \E j \in DOMAIN helper.asked : helper'.asked[i] = helper.asked[j]
               \/ helper'.asked[i].id = DeletionId[kind] /\ helper'.asked[i].what = "delete"
      BY <2>3, <3>a
    <3>3. UNCHANGED <<command, kind, disk, aside, outcome>>
      BY <2>3, <1>4 DEF Verified
    <3> QED
      BY <1>0, <2>1, <2>3, <3>2, <3>3
      DEF Asks, Answers, Importing, Reading, Undoing, DeletionsAreTrue, HelperInv, NoneAside
  <2>4. CASE pc' = "shutdown"
    BY <1>4, <1>0, <2>4 DEF Verified, HelperInv, NoneAside
  <2> QED
    BY <1>4, <2>2, <2>3, <2>4 DEF Verified
<1>5. CASE TakenBack
  <2>1. CASE EndBadly("taking_back")
    BY <1>5, <1>0, <2>1 DEF HelperInv, NoneAside
  <2>2. CASE ~EndBadly("taking_back")
    <3>1. PICK id \in {DeletionId[kind]} :
            /\ Hears(id, {"done"} \cup IF kind = "codex" THEN Contents ELSE {})
            /\ pc = "taking_back" /\ pc' = "idle" /\ outcome' = "failed"
            /\ locals' = [locals EXCEPT !.found = helper.said[Reply(id)].to]
            /\ UNCHANGED around
      BY <1>5, <2>2 DEF TakenBack
    <3>2. kind \in {"codex", "grok"} /\ id \in Nat /\ id = DeletionId[kind]
      BY <3>1 DEF HelperInv, DeletionId
    <3>3. /\ Reply(id) \in DOMAIN helper.said /\ helper.said[Reply(id)].id = id
          /\ helper.said[Reply(id)].says \in {"done"} \cup IF kind = "codex" THEN Contents ELSE {}
      BY <1>0, <3>1, <3>2, HeardReply
    <3>4. helper.said[Reply(id)].says # "refused"
      BY <3>3 DEF Contents, Generated
    <3>5. /\ <<helper.said[Reply(id)].id, helper.said[Reply(id)].to>> \in {Importing, Reading, Undoing}
          /\ DeletionsAreTrue
      BY <3>1, <3>3 DEF HelperInv, Answers
    <3>6. helper.said[Reply(id)].to \in {"read", "delete"}
      BY <3>2, <3>3, <3>5 DEF Importing, Reading, Undoing, DeletionId
    <3>7. helper.said[Reply(id)].to = "read" => kind = "codex"
      BY <3>2, <3>3, <3>5 DEF Importing, Reading, Undoing, DeletionId
    <3>8. helper.said[Reply(id)].to = "delete" => disk["thread"] = "none"
      BY <3>3, <3>4, <3>5 DEF DeletionsAreTrue
    <3>9. /\ locals'.found = helper.said[Reply(id)].to /\ locals'.goal = locals.goal
          /\ UNCHANGED <<command, kind, disk, aside>>
      BY <1>0, <3>1 DEF Locals
    <3> QED
      BY <1>0, <3>1, <3>6, <3>7, <3>8, <3>9 DEF HelperInv, NoneAside
  <2> QED
    BY <2>1, <2>2
<1>6. CASE ShutDown
  BY <1>6, <1>0 DEF ShutDown, TakeBack, HelperInv, NoneAside
<1>7. CASE ReadBackTarget
  BY <1>7, <1>0 DEF ReadBackTarget, TakeBack, HelperInv, NoneAside
<1>8. CASE ServerUndo
  <2>1. CASE pc' = "deleting" /\ locals' = locals /\ helper' = Started(1, "delete")
    <3>1. UNCHANGED <<command, kind, disk, aside, outcome>> /\ pc = "undo"
      BY <2>1, <1>8 DEF ServerUndo
    <3>2. Fresh(helper', 1, "delete")
      BY <2>1, FreshStarts
    <3> QED
      BY <1>0, <2>1, <3>1, <3>2
      DEF Fresh, Asks, Answers, Importing, Reading, Undoing, DeletionsAreTrue, HelperInv,
         NoneAside
  <2>2. CASE pc' = "comparing" /\ locals' = locals /\ helper' = Started(2, "read")
    <3>1. UNCHANGED <<command, kind, disk, aside, outcome>> /\ pc = "undo"
      BY <2>2, <1>8 DEF ServerUndo
    <3>2. Fresh(helper', 2, "read")
      BY <2>2, FreshStarts
    <3> QED
      BY <1>0, <2>2, <3>1, <3>2
      DEF Fresh, Asks, Answers, Importing, Reading, Undoing, DeletionsAreTrue, HelperInv,
         NoneAside
  <2>3. CASE EndBadly("undo")
    <3>1. UNCHANGED <<command, kind, disk, aside>> /\ pc = "undo" /\ pc' = "idle"
          /\ outcome' = "not_restored" /\ locals'.goal = locals.goal
      BY <2>3, <1>8, <1>0 DEF ServerUndo
    <3> QED
      BY <1>0, <3>1 DEF HelperInv, NoneAside
  <2> QED
    BY <1>8, <2>1, <2>2, <2>3 DEF ServerUndo
<1>9. CASE Compared
  <2>1. CASE /\ locals' = locals /\ pc' = "deleting"
             /\ Hears(2, {"made"}) /\ helper' = Asked(Passed(2), 1, "delete")
    <3>1. 2 \in Nat /\ 1 \in Nat /\ "delete" \in Whats /\ Hears(2, {"made"})
      BY <2>1, <1>9, <1>0
    <3>2. /\ \A k \in DOMAIN Asked(Passed(2), 1, "delete").said :
               \E j \in DOMAIN helper.said : Asked(Passed(2), 1, "delete").said[k] = helper.said[j]
          /\ \A k \in DOMAIN Asked(Passed(2), 1, "delete").asked :
               \/ \E j \in DOMAIN helper.asked : Asked(Passed(2), 1, "delete").asked[k] = helper.asked[j]
               \/ Asked(Passed(2), 1, "delete").asked[k] = [id |-> 1, what |-> "delete"]
      BY <3>1, <1>0, AsksOn
    <3>3. /\ \A k \in DOMAIN helper'.said :
               \E j \in DOMAIN helper.said : helper'.said[k] = helper.said[j]
          /\ \A k \in DOMAIN helper'.asked :
               \/ \E j \in DOMAIN helper.asked : helper'.asked[k] = helper.asked[j]
               \/ helper'.asked[k].id = 1 /\ helper'.asked[k].what = "delete"
      BY <2>1, <3>2
    <3>4. UNCHANGED <<command, kind, disk, aside, outcome>> /\ pc = "comparing"
      BY <2>1, <1>9 DEF Compared
    <3> QED
      BY <1>0, <2>1, <3>3, <3>4
      DEF Asks, Answers, Importing, Reading, Undoing, DeletionsAreTrue, HelperInv, NoneAside
  <2>2. CASE EndBadly("comparing")
    BY <1>9, <1>0, <2>2 DEF Compared, HelperInv, NoneAside
  <2> QED
    BY <1>9, <2>1, <2>2 DEF Compared
<1>10. CASE Deleted
  <2>1. DeletedFacts
    BY <1>10, DeletedShape
  <2> QED
    BY <1>0, <2>1 DEF DeletedFacts, HelperInv, NoneAside
<1>11. CASE HermesImported
  BY <1>11, <1>0 DEF HermesImported, HelperInv, NoneAside
<1>12. CASE HermesFinish
  BY <1>12, <1>0 DEF HermesFinish, TakeBack, HelperInv, NoneAside
<1>13. CASE HermesUndo
  <2>1. CASE pc' = "deleting" /\ locals' = locals /\ helper' = Started(1, "delete")
    <3>1. UNCHANGED <<command, kind, disk, aside, outcome>> /\ pc = "undo"
      BY <2>1, <1>13 DEF HermesUndo
    <3>2. Fresh(helper', 1, "delete")
      BY <2>1, FreshStarts
    <3> QED
      BY <1>0, <2>1, <3>1, <3>2
      DEF Fresh, Asks, Answers, Importing, Reading, Undoing, DeletionsAreTrue, HelperInv,
         NoneAside
  <2>2. CASE EndBadly("undo")
    <3>1. UNCHANGED <<command, kind, disk, aside>> /\ pc = "undo" /\ pc' = "idle"
          /\ outcome' = "not_restored" /\ locals'.goal = locals.goal
      BY <2>2, <1>13, <1>0 DEF HermesUndo
    <3> QED
      BY <1>0, <3>1 DEF HelperInv, NoneAside
  <2> QED
    BY <1>13, <2>1, <2>2 DEF HermesUndo
<1>14. CASE HermesDeleted
  BY <1>14, <1>0 DEF HermesDeleted, Deleted, HelperInv, NoneAside
<1>15. CASE OpenCodeImported
  BY <1>15, <1>0 DEF OpenCodeImported, HelperInv, NoneAside
<1>16. CASE OpenCodeUndo
  <2>1. CASE pc' = "deleting" /\ locals' = locals /\ helper' = Started(1, "delete")
    <3>1. UNCHANGED <<command, kind, disk, aside, outcome>> /\ pc = "undo"
      BY <2>1, <1>16 DEF OpenCodeUndo
    <3>2. Fresh(helper', 1, "delete")
      BY <2>1, FreshStarts
    <3> QED
      BY <1>0, <2>1, <3>1, <3>2
      DEF Fresh, Asks, Answers, Importing, Reading, Undoing, DeletionsAreTrue, HelperInv,
         NoneAside
  <2>2. CASE EndBadly("undo")
    <3>1. UNCHANGED <<command, kind, disk, aside>> /\ pc = "undo" /\ pc' = "idle"
          /\ outcome' = "not_restored" /\ locals'.goal = locals.goal
      BY <2>2, <1>16, <1>0 DEF OpenCodeUndo
    <3> QED
      BY <1>0, <3>1 DEF HelperInv, NoneAside
  <2> QED
    BY <1>16, <2>1, <2>2 DEF OpenCodeUndo
<1>17. CASE OpenCodeDeleted
  <2>1. CASE Deleted
    <3>1. DeletedFacts
      BY <2>1, DeletedShape
    <3> QED
      BY <1>0, <3>1 DEF DeletedFacts, HelperInv, NoneAside
  <2>2. CASE ~Deleted
    <3>1. UNCHANGED <<command, kind, disk, aside, locals>> /\ pc = "deleting" /\ pc' = "idle"
      BY <2>2, <1>17 DEF OpenCodeDeleted
    <3>2. (outcome' = "failed" /\ disk["thread"] = "none") \/ outcome' = "unanswered"
      BY <2>2, <1>17 DEF OpenCodeDeleted
    <3> QED
      BY <1>0, <3>1, <3>2 DEF HelperInv, NoneAside
  <2> QED
    BY <2>1, <2>2
<1> QED
  BY <1>1, <1>2, <1>3, <1>4, <1>5, <1>6, <1>7, <1>8, <1>9, <1>10, <1>11, <1>12, <1>13,
     <1>14, <1>15, <1>16, <1>17 DEF Talks

-----------------------------------------------------------------------------
(* The program works, or ends *)

\* What a request does: the program serves them in their order, one answer for each.
LEMMA ServeFacts ==
  ASSUME Typed, Serve
  PROVE  /\ helper.up /\ UNCHANGED <<kind, agent, knows, command, pc, locals, outcome, aside>>
         /\ helper' \in Helpers /\ helper'.up
         /\ Len(helper.asked) \in Nat /\ Len(helper.asked) >= 1
         /\ Len(helper'.asked) = Len(helper.asked) - 1
         /\ \A i \in DOMAIN helper'.asked : helper'.asked[i] = helper.asked[i + 1]
         /\ \A i \in DOMAIN helper'.asked : i + 1 \in DOMAIN helper.asked
         /\ 1 \in DOMAIN helper.asked /\ Head(helper.asked) = helper.asked[1]
         /\ \E says \in {"done", "refused"} \cup Contents :
              /\ \A i \in DOMAIN helper'.said :
                   \/ i \in DOMAIN helper.said /\ helper'.said[i] = helper.said[i]
                   \/ /\ helper'.said[i].id = helper.asked[1].id
                      /\ helper'.said[i].to = helper.asked[1].what
                      /\ helper'.said[i].says = says
              /\ \/ /\ helper.asked[1].what = "import" /\ disk["thread"] = "none"
                    /\ says \in {"done", "refused"} /\ disk' = [disk EXCEPT !["thread"] = "made"]
                 \/ /\ helper.asked[1].what = "delete" /\ disk["thread"] # "none"
                    /\ says \in {"done", "refused"} /\ disk' = [disk EXCEPT !["thread"] = "none"]
                 \/ helper.asked[1].what = "read" /\ disk' = disk
                 \/ says = "refused" /\ disk' = disk
<1>1. helper.asked \in Seq(Requests) /\ helper.said \in Seq(Messages) /\ helper.up /\ helper.asked # <<>>
  BY DEF Typed, Serve
<1>2. PICK request \in {Head(helper.asked)}, says \in {"done", "refused"} \cup Contents :
        /\ helper' = [helper EXCEPT !.asked = Tail(helper.asked),
                        !.said = Append(helper.said, [id |-> request.id, to |-> request.what,
                                                      says |-> says])]
        /\ \/ /\ request.what = "import" /\ disk["thread"] = "none"
              /\ says \in {"done", "refused"} /\ Put("thread", "made")
           \/ /\ request.what = "delete" /\ disk["thread"] # "none"
              /\ says \in {"done", "refused"} /\ Put("thread", "none")
           \/ request.what = "read" /\ says = disk["thread"] /\ UNCHANGED disk
           \/ says = "refused" /\ UNCHANGED disk
  BY DEF Serve
<1> DEFINE message == [id |-> request.id, to |-> request.what, says |-> says]
<1>3. /\ request = helper.asked[1] /\ request \in Requests /\ 1 \in DOMAIN helper.asked
      /\ Head(helper.asked) = helper.asked[1]
  BY <1>1
<1>4. /\ message \in Messages /\ message.id = request.id
      /\ message.to = request.what /\ message.says = says
  BY <1>2, <1>3 DEF Requests, Messages
<1> DEFINE more == Append(helper.said, message)
           less == Tail(helper.asked)
<1>5. helper' = [helper EXCEPT !.asked = less, !.said = more]
  BY <1>2
<1> HIDE DEF message
<1>6. /\ more \in Seq(Messages)
      /\ \A i \in DOMAIN more :
           \/ i \in DOMAIN helper.said /\ more[i] = helper.said[i]
           \/ more[i] = message
  BY <1>1, <1>4
<1>7. /\ less \in Seq(Requests) /\ Len(helper.asked) \in Nat /\ Len(helper.asked) >= 1
      /\ Len(less) = Len(helper.asked) - 1
      /\ \A i \in DOMAIN less : less[i] = helper.asked[i + 1] /\ i + 1 \in DOMAIN helper.asked
  BY <1>1
<1> HIDE DEF more, less
<1>8. helper'.asked = less /\ helper'.said = more /\ helper'.up = helper.up /\ helper' \in Helpers
  BY <1>1, <1>5, <1>6, <1>7 DEF Typed, Helpers
<1>9. UNCHANGED <<kind, agent, knows, command, pc, locals, outcome, aside>>
  BY DEF Serve, around
<1>10. \A i \in DOMAIN helper'.said :
         \/ i \in DOMAIN helper.said /\ helper'.said[i] = helper.said[i]
         \/ /\ helper'.said[i].id = helper.asked[1].id
            /\ helper'.said[i].to = helper.asked[1].what
            /\ helper'.said[i].says = says
  BY <1>3, <1>4, <1>6, <1>8
<1>11. \/ /\ helper.asked[1].what = "import" /\ disk["thread"] = "none"
          /\ says \in {"done", "refused"} /\ disk' = [disk EXCEPT !["thread"] = "made"]
       \/ /\ helper.asked[1].what = "delete" /\ disk["thread"] # "none"
          /\ says \in {"done", "refused"} /\ disk' = [disk EXCEPT !["thread"] = "none"]
       \/ helper.asked[1].what = "read" /\ disk' = disk
       \/ says = "refused" /\ disk' = disk
  BY <1>2, <1>3 DEF Put
<1>12. \A i \in DOMAIN helper'.asked :
         helper'.asked[i] = helper.asked[i + 1] /\ i + 1 \in DOMAIN helper.asked
  BY <1>7, <1>8
<1>13. Len(helper'.asked) = Len(helper.asked) - 1
  BY <1>7, <1>8
<1> QED
  BY <1>1, <1>3, <1>7, <1>8, <1>9, <1>10, <1>11, <1>12, <1>13

\* The program keeps the types.
LEMMA ServeTyped ==
  ASSUME Typed, Common, HelperInv, kind \in Commanded, Serve
  PROVE  Typed'
<1>1. /\ UNCHANGED <<kind, agent, knows, locals, aside>> /\ helper' \in Helpers
      /\ \E n \in {"made", "none"} : disk' = [disk EXCEPT !["thread"] = n] \/ disk' = disk
  BY ServeFacts
<1> QED
  BY <1>1 DEF Typed, StoreTyped, Names, Values, Contents, Generated, Helpers

\* The program keeps what the kinds have in common.
LEMMA ServeCommon ==
  ASSUME Typed, Common, HelperInv, kind \in Commanded, Serve
  PROVE  Common'
<1>1. /\ UNCHANGED <<kind, knows, command, pc, locals, outcome>> /\ helper.up
      /\ \E n \in {"made", "none"} : disk' = [disk EXCEPT !["thread"] = n] \/ disk' = disk
  BY ServeFacts
<1>2. pc # "idle" \/ outcome = "killed"
  BY <1>1 DEF HelperInv
<1>3. outcome \in {"running", "killed"} /\ command # "none"
  BY <1>2 DEF Common
<1>4. \A n \in {"selection", "elsewhere", "blob"} : disk'[n] = disk[n]
  BY <1>1 DEF Typed, StoreTyped, Names
<1> QED
  BY <1>1, <1>3, <1>4 DEF Common

\* The program keeps the invariant.
LEMMA ServeOwn ==
  ASSUME Typed, Common, HelperInv, kind \in Commanded, Serve
  PROVE  HelperInv'
<1>1. /\ helper' \in Helpers /\ UNCHANGED <<kind, command, pc, locals, outcome, aside>> /\ helper.up /\ helper'.up
      /\ Len(helper.asked) \in Nat /\ Len(helper.asked) >= 1
      /\ Len(helper'.asked) = Len(helper.asked) - 1
      /\ \A i \in DOMAIN helper'.asked : \E j \in DOMAIN helper.asked : helper'.asked[i] = helper.asked[j]
      /\ 1 \in DOMAIN helper.asked
  BY ServeFacts
<1>2. PICK says \in {"done", "refused"} \cup Contents :
        /\ \A i \in DOMAIN helper'.said :
             \/ i \in DOMAIN helper.said /\ helper'.said[i] = helper.said[i]
             \/ /\ helper'.said[i].id = helper.asked[1].id
                /\ helper'.said[i].to = helper.asked[1].what
                /\ helper'.said[i].says = says
        /\ \/ /\ helper.asked[1].what = "import" /\ disk["thread"] = "none"
              /\ says \in {"done", "refused"} /\ disk' = [disk EXCEPT !["thread"] = "made"]
           \/ /\ helper.asked[1].what = "delete" /\ disk["thread"] # "none"
              /\ says \in {"done", "refused"} /\ disk' = [disk EXCEPT !["thread"] = "none"]
           \/ helper.asked[1].what = "read" /\ disk' = disk
           \/ says = "refused" /\ disk' = disk
  BY ServeFacts
<1>3. /\ pc # "idle" \/ outcome = "killed"
      /\ outcome \in {"running", "killed"} /\ command # "none" /\ pc # "import"
  BY <1>1 DEF HelperInv, Common
<1>4. disk'["thread"] \in Generated \cup {"none"}
  BY <1>2 DEF Typed, StoreTyped, Names, HelperInv, Generated
<1>5. CASE pc = "import_sent"
  <2>1. Asks({Importing}) /\ Answers({Importing}) /\ Len(helper.asked) <= 1
    BY <1>5 DEF HelperInv
  <2>2. Len(helper'.asked) = 0
    <3> DEFINE n == Len(helper.asked)
    <3>1. n \in Nat /\ n >= 1 /\ n <= 1 /\ Len(helper'.asked) = n - 1
      BY <1>1, <2>1
    <3> HIDE DEF n
    <3> QED
      BY <3>1
  <2>3. helper'.asked = <<>>
    BY <1>1, <2>2 DEF Helpers
  <2>4. Asks({Importing})'
    BY <1>1, <2>1 DEF Asks, Importing
  <2>5. Answers({Importing})'
    BY <1>1, <1>2, <2>1 DEF Asks, Answers, Importing
  <2> QED
    BY <1>1, <1>3, <1>4, <1>5, <2>2, <2>3, <2>4, <2>5 DEF HelperInv, NoneAside
<1>6. CASE pc = "reading"
  <2>1. <<helper.asked[1].id, helper.asked[1].what>> \in {Reading}
    BY <1>1, <1>6 DEF HelperInv, Asks
  <2>2. Asks({Reading})'
    BY <1>1, <1>6 DEF HelperInv, Asks, Importing, Reading, Undoing
  <2>3. Answers({Importing, Reading})'
    BY <1>1, <1>2, <1>6, <2>1 DEF HelperInv, Answers, Importing, Reading, Undoing
  <2> QED
    BY <1>1, <1>3, <1>4, <1>6, <2>2, <2>3 DEF HelperInv, NoneAside
<1>7. CASE pc = "taking_back"
  <2>1. <<helper.asked[1].id, helper.asked[1].what>> \in {Reading, Undoing}
    BY <1>1, <1>7 DEF HelperInv, Asks
  <2>2. Asks({Reading, Undoing})'
    BY <1>1, <1>7 DEF HelperInv, Asks, Importing, Reading, Undoing
  <2>3. Answers({Importing, Reading, Undoing})'
    BY <1>1, <1>2, <1>7, <2>1 DEF HelperInv, Answers, Importing, Reading, Undoing
  <2>4. helper.asked[1].what # "import"
    BY <2>1 DEF Importing, Reading, Undoing
  <2>5. disk["thread"] = "none" => disk'["thread"] = "none"
    BY <1>2, <2>4 DEF Typed, StoreTyped, Names
  <2>6. DeletionsAreTrue'
    BY <1>1, <1>2, <1>7, <2>4, <2>5 DEF HelperInv, DeletionsAreTrue, Typed, StoreTyped,
       Names
  <2> QED
    BY <1>1, <1>3, <1>4, <1>7, <2>2, <2>3, <2>6 DEF HelperInv, NoneAside
<1>8. CASE pc = "comparing"
  <2>1. <<helper.asked[1].id, helper.asked[1].what>> \in {Reading}
    BY <1>1, <1>8 DEF HelperInv, Asks
  <2>2. Asks({Reading})'
    BY <1>1, <1>8 DEF HelperInv, Asks, Importing, Reading, Undoing
  <2>3. Answers({Reading})'
    BY <1>1, <1>2, <1>8, <2>1 DEF HelperInv, Answers, Importing, Reading, Undoing
  <2> QED
    BY <1>1, <1>3, <1>4, <1>8, <2>2, <2>3 DEF HelperInv, NoneAside
<1>9. CASE pc = "deleting"
  <2>1. <<helper.asked[1].id, helper.asked[1].what>> \in {Reading, <<1, "delete">>}
    BY <1>1, <1>9 DEF HelperInv, Asks
  <2>2. Asks({Reading, <<1, "delete">>})'
    BY <1>1, <1>9 DEF HelperInv, Asks, Importing, Reading, Undoing
  <2>3. Answers({Reading, <<1, "delete">>})'
    BY <1>1, <1>2, <1>9, <2>1 DEF HelperInv, Answers, Importing, Reading, Undoing
  <2>4. helper.asked[1].what # "import"
    BY <2>1 DEF Importing, Reading, Undoing
  <2>5. disk["thread"] = "none" => disk'["thread"] = "none"
    BY <1>2, <2>4 DEF Typed, StoreTyped, Names
  <2>6. DeletionsAreTrue'
    BY <1>1, <1>2, <1>9, <2>4, <2>5 DEF HelperInv, DeletionsAreTrue, Typed, StoreTyped,
       Names
  <2> QED
    BY <1>1, <1>3, <1>4, <1>9, <2>2, <2>3, <2>6 DEF HelperInv, NoneAside
<1>10. CASE pc \notin {"import_sent", "reading", "taking_back", "comparing", "deleting"}
  BY <1>1, <1>3, <1>4, <1>10 DEF HelperInv, NoneAside
<1> QED
  BY <1>5, <1>6, <1>7, <1>8, <1>9, <1>10

\* A program that ends answers nothing any more.
LEMMA ExitKeeps ==
  ASSUME Typed, Common, HelperInv, kind \in Commanded, Exit
  PROVE  Typed' /\ Common' /\ HelperInv'
<1>1. UNCHANGED <<kind, disk, aside, agent, knows, command, pc, locals, outcome>>
  BY DEF Exit, around, store
<1>2. /\ helper' \in Helpers /\ ~helper'.up /\ helper'.said = helper.said
      /\ helper'.asked = <<>>
  <2>1. <<>> \in Seq(Requests)
    OBVIOUS
  <2>2. helper \in Helpers /\ helper' = [helper EXCEPT !.up = FALSE, !.asked = <<>>]
    BY DEF Exit, Typed, Helpers
  <2> QED
    BY <2>1, <2>2 DEF Helpers
<1>3. DOMAIN helper'.asked = {} /\ Len(helper'.asked) = 0
  BY <1>2
<1>4. Typed'
  BY <1>1, <1>2 DEF Typed, StoreTyped, Helpers
<1>5. Common'
  BY <1>1 DEF Common, Listed
<1>6. DeletionsAreTrue => DeletionsAreTrue'
  BY <1>1, <1>2 DEF DeletionsAreTrue
<1>7. /\ Asks({Importing})' /\ Asks({Reading})' /\ Asks({Reading, Undoing})'
      /\ Asks({Reading, <<1, "delete">>})'
  BY <1>1, <1>3 DEF Asks
<1>8. /\ Answers({Importing}) => Answers({Importing})'
      /\ Answers({Reading}) => Answers({Reading})'
      /\ Answers({Importing, Reading}) => Answers({Importing, Reading})'
      /\ Answers({Reading, <<1, "delete">>}) => Answers({Reading, <<1, "delete">>})'
  BY <1>2 DEF Answers, Importing, Reading
<1>9. Answers({Importing, Reading, Undoing}) => Answers({Importing, Reading, Undoing})'
  BY <1>1, <1>2 DEF Answers, Importing, Reading, Undoing
<1>10. HelperInv'
  BY <1>1, <1>2, <1>3, <1>6, <1>7, <1>8, <1>9 DEF HelperInv, NoneAside
<1> QED
  BY <1>4, <1>5, <1>10

\* The steps of every kind keep the invariant: the agent goes on only with a session that
\* is listed.
LEMMA HelperShared ==
  ASSUME Typed, Common, HelperInv, kind \in Commanded, Shared
  PROVE  HelperInv'
<1>0. /\ helper' = helper /\ kind' = kind /\ locals \in Locals
      /\ pc # "idle" => outcome = "running" /\ command # "none"
      /\ kind \in {"codex", "grok", "opencode", "hermes"}
  BY DEF Shared, Import, Undo, Delete, DeleteAnother, Begin, Kill, around, AgentStep,
     Around,
         Typed, Common, Commanded
<1>1. CASE Import
  BY <1>0, <1>1 DEF Import, First, Begin, Closed, HelperInv, NoneAside, store
<1>2. CASE Undo
  <2>1. /\ command' = "undo" /\ pc' = "undo" /\ outcome' = "running" /\ ~helper.up
        /\ UNCHANGED <<disk, aside>> /\ locals'.goal = "undone"
    BY <1>0, <1>2 DEF Undo, First, Begin, Closed, AimAt, store, Locals, HelperInv
  <2> QED
    BY <1>0, <2>1 DEF HelperInv, NoneAside
<1>3. CASE Delete
  BY <1>0, <1>3 DEF Delete
<1>4. CASE DeleteAnother
  BY <1>0, <1>4 DEF DeleteAnother
<1>5. CASE Kill
  BY <1>0, <1>5 DEF Kill, HelperInv, NoneAside, around, store
<1>6. CASE Around(Open) \/ Around(Close)
  <2>1. UNCHANGED <<disk, aside, command, pc, locals, outcome>>
    BY <1>6 DEF Around, Open, Close
  <2>2. /\ DeletionsAreTrue => DeletionsAreTrue'
        /\ \A i \in DOMAIN helper'.asked : helper'.asked[i] = helper.asked[i]
    BY <1>0, <2>1 DEF DeletionsAreTrue
  <2> QED
    BY <1>0, <2>1, <2>2 DEF HelperInv, NoneAside, Asks, Answers, Importing, Reading, Undoing
<1>7. CASE Around(Continue)
  <2>1. /\ UNCHANGED <<aside, command, pc, locals, outcome>>
        /\ disk["thread"] # "none" /\ disk'["thread"] = "grown"
    BY <1>0, <1>7 DEF Around, Continue, Listed, Listing, Generated, TouchedBy, Names
  <2>2. command # "none" /\ pc # "import"
    BY <2>1 DEF HelperInv
  <2>3. DeletionsAreTrue => DeletionsAreTrue'
    BY <1>0, <2>1 DEF DeletionsAreTrue
  <2> QED
    BY <1>0, <2>1, <2>2, <2>3
    DEF HelperInv, NoneAside, Asks, Answers, Importing, Reading, Undoing, Generated
<1>8. CASE Around(Recreate) \/ Around(SelectOrShare)
  BY <1>0, <1>8 DEF Around, Recreate, SelectOrShare
<1> QED
  BY <1>1, <1>2, <1>3, <1>4, <1>5, <1>6, <1>7, <1>8 DEF Shared, AgentStep

\* What a program of the provider destroys, it was asked to delete.
LEMMA CommandTurns ==
  ASSUME Typed, Common, kind \in Commanded, CommandStep
  PROVE  TurnsStay /\ BlobsStay
<1>1. CASE Serve
  <2>1. /\ aside' = aside /\ helper.asked # <<>> /\ Head(helper.asked) = helper.asked[1]
        /\ \/ disk' = disk
           \/ disk["thread"] = "none" /\ disk' = [disk EXCEPT !["thread"] = "made"]
           \/ /\ helper.asked[1].what = "delete"
              /\ disk' = [disk EXCEPT !["thread"] = "none"]
    BY <1>1, ServeFacts DEF Serve
  <2> QED
    BY <2>1 DEF TurnsStay, BlobsStay, Kept, KeptNext, Turns, Typed, StoreTyped, Names
<1>2. CASE UNCHANGED <<disk, aside>>
  BY <1>2 DEF TurnsStay, BlobsStay, Kept, KeptNext
<1> QED
  BY <1>1, <1>2, CommandCases DEF Exit, store
-----------------------------------------------------------------------------
(* Every kind of store *)

KindInv ==
  /\ kind = "claude" => ClaudeInv
  /\ kind = "pi" => PiInv
  /\ kind = "cursor_cli" => CursorInv
  /\ kind = "antigravity" => AntigravityInv
  /\ kind = "cursor_ide" => IdeInv
  /\ kind \in Commanded => HelperInv

\* The inductive invariant.
IInv == Typed /\ Common /\ KindInv

\* The kinds there are.
LEMMA AllKinds ==
  ASSUME Typed
  PROVE  kind \in {"claude", "pi", "cursor_cli", "antigravity", "cursor_ide"} \cup Commanded
  BY StoresAssumption DEF Typed, Parts, Commanded

\* Before anything has been done.
LEMMA WritingBegins ==
  ASSUME WritingInit
  PROVE  IInv
<1> USE StoresAssumption DEF WritingInit, StoreInit
<1>1. PICK blob \in {"none", "theirs"} :
        /\ kind # "cursor_ide" => blob = "none"
        /\ disk = [n \in Names |->
                     IF n = "blob" THEN blob
                     ELSE IF n \in {"selection", "elsewhere"} THEN "before" ELSE "none"]
  OBVIOUS
<1>2. /\ Len(helper.asked) = 0 /\ helper \in [up : BOOLEAN, asked : Seq(Requests), said : Seq(Messages)]
      /\ ~helper.up /\ helper = Nobody
  <2>1. <<>> \in Seq(Requests) /\ <<>> \in Seq(Messages)
    OBVIOUS
  <2> QED
    BY <2>1 DEF Nobody
<1>3. Typed
  BY <1>1, <1>2, EmptyLocals DEF Typed, StoreTyped, Values, Contents, Names
<1>4. /\ locals.goal = "none" /\ locals.found = "none" /\ locals.owed = FALSE /\ locals.moved = 0
      /\ locals.created = FALSE
  BY DEF Empty
<1>5. Listing[kind] \in Names \ {"blob", "selection", "elsewhere"}
  BY <1>3, AllKinds DEF Listing, Names, Commanded
<1>6. ~Listed
  BY <1>1, <1>5 DEF Listed, Generated
<1>7. Common
  BY <1>1, <1>2, <1>4, <1>6 DEF Common, Names
<1>8. NoneAside /\ Nothing(Names \ {"blob", "selection", "elsewhere"})
  BY <1>1 DEF NoneAside, Nothing
<1>9. KindInv
  <2>1. kind = "claude" => ClaudeInv
    BY <1>4, <1>6, <1>8 DEF ClaudeInv, NoneAside, Nothing, Names, Contents, SidecarInPlace
  <2>2. kind = "pi" => PiInv
    BY <1>4, <1>6, <1>8 DEF PiInv, NoneAside, Nothing, Names, Contents
  <2>3. kind = "cursor_cli" => CursorInv
    BY <1>4, <1>6, <1>8 DEF CursorInv, NoneAside, Nothing, Names, Contents, Directory
  <2>4. kind = "antigravity" => AntigravityInv
    BY <1>4, <1>6, <1>8 DEF AntigravityInv, NoneAside, Nothing, Names, Contents, Payload
  <2>5. kind = "cursor_ide" => IdeInv
    <3>1. /\ kind = "cursor_ide" => disk["records"] = "none"
          /\ disk["selection"] = "before" /\ disk["elsewhere"] = "before"
      BY <1>1, <1>8 DEF Nothing, Names
    <3> QED
      BY <1>4, <1>6, <1>8, <3>1 DEF IdeInv, NamesIt, NamesUs
  <2>6. kind \in Commanded => HelperInv
    BY <1>2, <1>4, <1>6, <1>8 DEF HelperInv, NoneAside, Nothing, Names, Contents
  <2> QED
    BY <2>1, <2>2, <2>3, <2>4, <2>5, <2>6 DEF KindInv
<1> QED
  BY <1>3, <1>7, <1>9 DEF IInv

\* A provider's own program plays no part in the other kinds of store.
LEMMA NobodyServes ==
  ASSUME Typed, Common, kind \notin Commanded
  PROVE  ~CommandStep
<1>1. ~helper.up
  BY DEF Common, Nobody
<1> QED
  BY <1>1 DEF CommandStep, Serve, Exit, ServerStep, HermesStep, OpenCodeStep, Commanded

\* A step of a command is one of its kind.
LEMMA OwnCommand ==
  ASSUME Command
  PROVE  kind \notin Commanded
  BY DEF Command, ClaudeStep, PiStep, CursorStep, AntigravityStep, IdeStep, Commanded

\* A command changes neither the agent nor which command it is.
LEMMA TalkAround ==
  ASSUME Talks
  PROVE  UNCHANGED around
<1> USE DEF Goto, Step, End, EndBadly, TakeBack, Deleted
<1> QED
  BY DEF Talks, Begun, Imported, Looked, Verified, TakenBack, ShutDown, ReadBackTarget,
     ServerUndo,
         Compared, HermesImported, HermesFinish, HermesUndo, HermesDeleted,
         OpenCodeImported,
         OpenCodeUndo, OpenCodeDeleted

\* A step of a command leaves the store's kind, the agent and the choice of the command alone.
LEMMA CommandAround ==
  ASSUME Command
  PROVE  UNCHANGED around
<1> USE DEF Goto, Step, End, EndBadly, Checked
<1>1. CASE ClaudeStep
  BY <1>1 DEF ClaudeStep, ClaudeIdentify, ClaudePublish, ClaudeValidate, ClaudeIdle,
              ClaudeMoveAside, ClaudeCompare, ClaudePutBack, ClaudeRemove, ClaudePlan,
              ClaudeStage, ClaudeLook, ClaudeMoveBack, ClaudeRestored, ClaudeDiscard
<1>2. CASE PiStep
  BY <1>2 DEF PiStep, PiIdentify, PiPublish, PiValidate, PiCompare, PiRemove, PiIdle,
              PiIdentified, PiDelete
<1>3. CASE CursorStep
  BY <1>3 DEF CursorStep, CursorIdentify, CursorPrepare, CursorIdle, CursorLink,
              CursorPublished, CursorCompare, CursorRemove, CursorStage, CursorVerify,
              CursorRestore, CursorDiscard
<1>4. CASE AntigravityStep
  BY <1>4 DEF AntigravityStep, AntigravityIdle, AntigravitySummaries, AntigravityValidate,
              AntigravityPublish, AntigravityAddRow, AntigravityVerify, AntigravityCompare,
              AntigravityRemoveSummaries, AntigravityRemoveConversation,
              AntigravityMoveAside, AntigravityCommit, AntigravityRemove, AntigravitySweep,
              AntigravityPlan, AntigravityStage, AntigravityRestore, AntigravityDiscard
<1>5. CASE IdeStep
  BY <1>5 DEF IdeStep, IdeIdle, IdeValidate, IdeInsert, IdeSelect, IdeNoWorkspace,
     IdeVerify,
              IdeCompare, IdeUnselect, IdeDeleteRows, IdeReadBack, IdePlan, IdeApply,
              IdeRestore, IdeReadBackDeletion
<1> QED
  BY <1>1, <1>2, <1>3, <1>4, <1>5 DEF Command

\* A command that omni carries out itself.
LEMMA CommandKeeps ==
  ASSUME IInv, Command, UNCHANGED helper
  PROVE  IInv' /\ TurnsStay /\ BlobsStay
<1>1. Typed /\ Common /\ KindInv /\ kind' = kind
  BY CommandAround DEF IInv, around
<1>2. ASSUME StoreTyped', locals' \in Locals
      PROVE  Typed'
  BY <1>1, <1>2, CommandAround DEF Typed, around
<1>3. CASE ClaudeStep
  <2>1. kind = "claude" /\ ClaudeInv
    BY <1>1, <1>3 DEF ClaudeStep, KindInv
  <2>2. StoreTyped' /\ locals' \in Locals /\ Common' /\ ClaudeInv' /\ TurnsStay /\ BlobsStay
    BY <1>1, <1>3, <2>1, ClaudeStoreTyped, ClaudeLocals, ClaudeCommon, ClaudeOwn,
       ClaudeTurns
  <2> QED
    BY <1>1, <1>2, <2>1, <2>2 DEF IInv, KindInv, Commanded
<1>4. CASE PiStep
  <2>1. kind = "pi" /\ PiInv
    BY <1>1, <1>4 DEF PiStep, KindInv
  <2>2. StoreTyped' /\ locals' \in Locals /\ Common' /\ PiInv' /\ TurnsStay /\ BlobsStay
    BY <1>1, <1>4, <2>1, PiStoreTyped, PiLocals, PiCommon, PiOwn, PiTurns
  <2> QED
    BY <1>1, <1>2, <2>1, <2>2 DEF IInv, KindInv, Commanded
<1>5. CASE CursorStep
  <2>1. kind = "cursor_cli" /\ CursorInv
    BY <1>1, <1>5 DEF CursorStep, KindInv
  <2>2. StoreTyped' /\ locals' \in Locals /\ Common' /\ CursorInv' /\ TurnsStay /\ BlobsStay
    BY <1>1, <1>5, <2>1, CursorStoreTyped, CursorLocals, CursorCommon, CursorOwn,
       CursorTurns
  <2> QED
    BY <1>1, <1>2, <2>1, <2>2 DEF IInv, KindInv, Commanded
<1>6. CASE AntigravityStep
  <2>1. kind = "antigravity" /\ AntigravityInv
    BY <1>1, <1>6 DEF AntigravityStep, KindInv
  <2>2. /\ StoreTyped' /\ locals' \in Locals /\ Common' /\ AntigravityInv'
        /\ TurnsStay /\ BlobsStay
    BY <1>1, <1>6, <2>1, AntigravityStoreTyped, AntigravityLocals, AntigravityCommon,
       AntigravityOwn, AntigravityTurns
  <2> QED
    BY <1>1, <1>2, <2>1, <2>2 DEF IInv, KindInv, Commanded
<1>7. CASE IdeStep
  <2>1. kind = "cursor_ide" /\ IdeInv
    BY <1>1, <1>7 DEF IdeStep, KindInv
  <2>2. StoreTyped' /\ locals' \in Locals /\ Common' /\ IdeInv' /\ TurnsStay /\ BlobsStay
    BY <1>1, <1>7, <2>1, IdeStoreTyped, IdeLocals, IdeCommon, IdeOwn, IdeTurns
  <2> QED
    BY <1>1, <1>2, <2>1, <2>2 DEF IInv, KindInv, Commanded
<1> QED
  BY <1>3, <1>4, <1>5, <1>6, <1>7 DEF Command

\* A command that a provider's program carries out.
LEMMA TalkKeeps ==
  ASSUME IInv, CommandStep
  PROVE  IInv' /\ TurnsStay /\ BlobsStay
<1>1. Typed /\ Common /\ kind \in Commanded /\ HelperInv
  BY NobodyServes DEF IInv, KindInv
<1>2. ASSUME kind' = kind, Typed', Common', HelperInv'
      PROVE  IInv'
  BY <1>1, <1>2 DEF IInv, KindInv, Commanded
<1>3. TurnsStay /\ BlobsStay
  BY <1>1, CommandTurns
<1>4. CASE Serve
  <2>1. kind' = kind
    BY <1>1, <1>4, ServeFacts
  <2> QED
    BY <1>1, <1>2, <1>3, <1>4, <2>1, ServeTyped, ServeCommon, ServeOwn
<1>5. CASE Exit
  <2>1. kind' = kind
    BY <1>5 DEF Exit, around
  <2> QED
    BY <1>1, <1>2, <1>3, <1>5, <2>1, ExitKeeps
<1>6. CASE Talks /\ UNCHANGED store
  <2>1. UNCHANGED <<kind, agent, knows>>
    BY <1>6, TalkAround DEF around
  <2>2. locals' \in Locals /\ helper' \in Helpers /\ Common' /\ HelperInv'
    BY <1>1, <1>6, TalkLocals, TalkHelper, TalkCommon, TalkOwn
  <2>3. Typed'
    BY <1>1, <1>6, <2>1, <2>2 DEF Typed, StoreTyped, store, Helpers
  <2> QED
    BY <1>2, <1>3, <2>1, <2>2, <2>3
<1> QED
  BY <1>4, <1>5, <1>6, CommandCases

\* The steps that every kind has.
LEMMA SharedKeeps ==
  ASSUME IInv, Shared
  PROVE  IInv' /\ TurnsStay /\ BlobsStay
<1>1. Typed /\ Common /\ KindInv
  BY DEF IInv
<1>2. kind' = kind
  BY DEF Shared, Import, Undo, Delete, DeleteAnother, Begin, Kill, around, AgentStep, Around
<1>3. Typed' /\ Common' /\ TurnsStay /\ BlobsStay
  BY <1>1, SharedTyped, SharedCommon, SharedTurns
<1>4. /\ kind = "claude" => ClaudeInv'
      /\ kind = "pi" => PiInv'
      /\ kind = "cursor_cli" => CursorInv'
  BY <1>1, ClaudeShared, PiShared, CursorShared DEF KindInv
<1>5. /\ kind = "antigravity" => AntigravityInv'
      /\ kind = "cursor_ide" => IdeInv'
      /\ kind \in Commanded => HelperInv'
  BY <1>1, AntigravityShared, IdeShared, HelperShared DEF KindInv
<1> QED
  BY <1>2, <1>3, <1>4, <1>5 DEF IInv, KindInv, Commanded

\* A step that changes nothing.
LEMMA StutterKeeps ==
  ASSUME IInv, UNCHANGED <<vars, helper>>
  PROVE  IInv' /\ TurnsStay /\ BlobsStay
<1> USE DEF vars
<1>1. Typed' /\ Common'
  BY DEF IInv, Typed, StoreTyped, Common, Listed
<1>2. ClaudeInv => ClaudeInv'
  BY DEF ClaudeInv, NoneAside, Nothing, Listed, SidecarInPlace, Planned
<1>3. PiInv => PiInv'
  BY DEF PiInv, NoneAside, Listed
<1>4. CursorInv => CursorInv'
  BY DEF CursorInv, NoneAside, Nothing, Listed
<1>5. AntigravityInv => AntigravityInv'
  BY DEF AntigravityInv, NoneAside, Nothing, Listed, Planned, Owed, Staged
<1>6. IdeInv => IdeInv'
  BY DEF IdeInv, NoneAside, Listed, Planned, NamesIt
<1>7. HelperInv => HelperInv'
  BY DEF HelperInv, NoneAside, Asks, Answers, DeletionsAreTrue, Undoing, Importing, Reading
<1>8. TurnsStay /\ BlobsStay
  BY DEF TurnsStay, BlobsStay, Kept, KeptNext
<1> QED
  BY <1>1, <1>2, <1>3, <1>4, <1>5, <1>6, <1>7, <1>8 DEF IInv, KindInv

\* Every step keeps the invariant, and loses neither a turn nor a blob of others.
LEMMA StepKeeps ==
  ASSUME IInv, [Next]_<<vars, helper>>
  PROVE  IInv' /\ TurnsStay /\ BlobsStay
<1>1. CommandStep \/ (Command /\ UNCHANGED helper) \/ Shared \/ UNCHANGED <<vars, helper>>
  BY DEF Next, Shared
<1> QED
  BY <1>1, CommandKeeps, TalkKeeps, SharedKeeps, StutterKeeps

-----------------------------------------------------------------------------
(* The theorems *)

\* At every moment the stores are of their types, and every command is where the state of
\* its kind says: what it has put aside, what it still finds, and what an answer may say.
THEOREM StoresInvariant == Spec => []IInv
<1>1. WritingInit => IInv
  BY WritingBegins
<1>2. IInv /\ [Next]_<<vars, helper>> => IInv'
  BY StepKeeps
<1> QED
  BY <1>1, <1>2, PTL DEF Spec

\* An import or a rollback that fails without saying that something stays behind has left
\* nothing, in any of the nine stores (but for the exceptions the property names).
THEOREM FailuresAreClean == Spec => []ErrorsAreClean
<1>1. IInv => ErrorsAreClean
  <2> SUFFICES ASSUME IInv, command \in {"import", "undo"}, outcome \in {"failed", "undone"},
                      ~(kind = "pi" /\ command = "import"),
                      ~(kind = "codex" /\ locals.found = "read")
               PROVE  /\ \A n \in Mine : disk[n] \in {"none", "new"} /\ aside[n] = "none"
                      /\ \A w \in Workspaces : disk[w] \in {"before", "both"}
                      /\ ~helper.up
    BY DEF ErrorsAreClean
  <2> USE DEF Workspaces
  <2>1. Typed /\ Common /\ KindInv /\ pc = "idle"
    BY DEF IInv, Common
  <2>2. CASE kind = "claude"
    <3>1. Mine = {"transcript", "sidecar"}
      BY <2>2 DEF Mine, Parts, ToSet
    <3> QED
      BY <2>1, <2>2, <3>1 DEF KindInv, ClaudeInv, Common, Commanded, Nobody
  <2>3. CASE kind = "pi"
    <3>1. Mine = {"file"}
      BY <2>3 DEF Mine, Parts, ToSet
    <3> QED
      BY <2>1, <2>3, <3>1 DEF KindInv, PiInv, NoneAside, Names, Listed, Listing, Contents,
                               Generated, Common, Commanded, Nobody
  <2>4. CASE kind = "cursor_cli"
    <3>1. Mine = {"database", "metadata"}
      BY <2>4 DEF Mine, Parts, ToSet
    <3> QED
      BY <2>1, <2>4, <3>1 DEF KindInv, CursorInv, NoneAside, Names, Listed, Listing,
         Contents,
                               Generated, Common, Commanded, Nobody
  <2>5. CASE kind = "antigravity"
    <3>1. Mine = {"conversation", "brain", "row"}
      BY <2>5 DEF Mine, Parts, ToSet
    <3> QED
      BY <2>1, <2>5, <3>1 DEF KindInv, AntigravityInv, NoneAside, Nothing, Names, Common,
                               Commanded, Nobody
  <2>6. CASE kind = "cursor_ide"
    <3>1. Mine = {"records"}
      BY <2>6 DEF Mine, Parts, ToSet
    <3> QED
      BY <2>1, <2>6, <3>1 DEF KindInv, IdeInv, NoneAside, Names, Common, Commanded, Nobody
  <2>7. CASE kind \in Commanded
    <3>1. Mine = {"thread"}
      BY <2>7 DEF Mine, Parts, ToSet, Commanded
    <3> QED
      BY <2>1, <2>7, <3>1 DEF KindInv, HelperInv, NoneAside, Names, Common, Commanded
  <2> QED
    BY <2>1, <2>2, <2>3, <2>4, <2>5, <2>6, <2>7, AllKinds
<1> QED
  BY <1>1, StoresInvariant, PTL

\* No step of omni destroys what an agent wrote, but for the deletion that was asked for.
THEOREM TurnsAreKept == Spec => NothingLost
<1>1. IInv /\ [Next]_<<vars, helper>> => [TurnsStay /\ BlobsStay]_<<vars, helper>>
  BY StepKeeps
<1> QED
  BY <1>1, StoresInvariant, PTL DEF Spec, NothingLost

\* A session in pieces is listed, and owed to somebody.
LEMMA OwedDamage ==
  ASSUME IInv, Damaged
  PROVE  Owed /\ Listed
<1>1. Typed /\ Common /\ KindInv
  BY DEF IInv
<1>2. CASE kind = "claude"
  <2>1. Mine = {"transcript", "sidecar"} /\ Needed[kind] = {}
    BY <1>2 DEF Mine, Parts, ToSet, Needed
  <2> QED
    BY <1>1, <1>2, <2>1 DEF KindInv, ClaudeInv, SidecarInPlace, Damaged, Incomplete,
       Dangling,
                             Listed, Listing, Generated, Owed
<1>3. CASE kind = "pi"
  <2>1. Mine = {"file"} /\ Needed[kind] = {}
    BY <1>3 DEF Mine, Parts, ToSet, Needed
  <2> QED
    BY <1>1, <1>3, <2>1 DEF KindInv, PiInv, NoneAside, Names, Damaged, Incomplete, Dangling
<1>4. CASE kind = "cursor_cli"
  <2>1. Mine = {"database", "metadata"} /\ Needed[kind] = {"database"}
    BY <1>4 DEF Mine, Parts, ToSet, Needed
  <2> QED
    BY <1>1, <1>4, <2>1 DEF KindInv, CursorInv, Damaged, Incomplete, Dangling, Listed,
       Listing,
                             Generated, Owed
<1>5. CASE kind = "antigravity"
  <2>1. Mine = {"conversation", "brain", "row"} /\ Needed[kind] = {"conversation"}
    BY <1>5 DEF Mine, Parts, ToSet, Needed
  <2> QED
    BY <1>1, <1>5, <2>1 DEF KindInv, AntigravityInv, Damaged, Incomplete, Dangling, Listed,
                             Listing, Generated
<1>6. CASE kind = "cursor_ide"
  <2>1. Mine = {"records"} /\ Needed[kind] = {}
    BY <1>6 DEF Mine, Parts, ToSet, Needed
  <2> QED
    BY <1>1, <1>6, <2>1 DEF KindInv, IdeInv, NoneAside, NamesIt, Workspaces, Names, Damaged,
                             Incomplete, Dangling, Listed, Listing, Generated
<1>7. CASE kind \in Commanded
  <2>1. Mine = {"thread"} /\ Needed[kind] = {}
    BY <1>7 DEF Mine, Parts, ToSet, Needed, Commanded
  <2> QED
    BY <1>1, <1>7, <2>1 DEF KindInv, HelperInv, NoneAside, Names, Damaged, Incomplete,
                             Dangling, Commanded
<1> QED
  BY <1>1, <1>2, <1>3, <1>4, <1>5, <1>6, <1>7, AllKinds

\* What an answer says is so.
Truths ==
  /\ Answer = "there" => View = "whole"
  /\ Answer = "gone" => View = "none"
  /\ View = "damaged" => Owed

\* They are, in every state of the invariant.
LEMMA AnswersAgree == IInv => Truths
<1> SUFFICES ASSUME IInv PROVE Truths
  OBVIOUS
<1>1. Common
  BY DEF IInv
<1>2. outcome = "imported" => Listed /\ ~Owed
  BY <1>1 DEF Common, Owed, Staged
<1>3. outcome \in {"undone", "deleted"} => ~Listed
  BY <1>1 DEF Common
<1> QED
  BY <1>2, <1>3, OwedDamage DEF Truths, Answer, View

\* The stores implement AtomicSessions: a session is listed as a whole or not at all.
THEOREM StoresAreAtomic == Spec => ListedIsWhole
<1>1. WritingInit => Sessions!Init
  <2> SUFFICES ASSUME WritingInit PROVE Sessions!Init
    OBVIOUS
  <2>1. IInv /\ outcome = "none" /\ locals.owed = FALSE /\ ~Staged /\ command = "none"
    BY WritingBegins DEF WritingInit, StoreInit, Empty, Staged
  <2>2. ~Listed /\ ~Owed
    BY <2>1 DEF IInv, Common, Owed
  <2>3. View = "none" /\ Answer = "open"
    BY <2>1, <2>2, OwedDamage DEF View, Answer
  <2> QED
    BY <2>2, <2>3 DEF Sessions!Init
<1>2. IInv /\ [Next]_<<vars, helper>> => [Sessions!Next]_Sessions!vars
  <2> SUFFICES ASSUME IInv, [Next]_<<vars, helper>> PROVE Sessions!Next
    OBVIOUS
  <2>1. IInv'
    BY StepKeeps
  <2>2. Truths'
    BY <2>1, AnswersAgree, PTL
  <2>3. {View, View'} \subseteq {"none", "whole", "damaged"}
    BY DEF View
  <2>4. Owed' \in BOOLEAN /\ Answer' \in {"there", "gone", "open"}
    BY DEF Owed, Answer
  <2>5. Sessions!Excused /\ Sessions!Truthful
    BY <2>2 DEF Truths, Sessions!Excused, Sessions!Truthful
  <2>6. Sessions!Appear \/ Sessions!Disappear \/ Sessions!Damage \/ View' = View
    BY <2>3 DEF Sessions!Appear, Sessions!Disappear, Sessions!Damage
  <2> QED
    BY <2>4, <2>5, <2>6 DEF Sessions!Next
<1> QED
  BY <1>1, <1>2, StoresInvariant, PTL DEF Spec, ListedIsWhole, Sessions!Spec
=============================================================================
