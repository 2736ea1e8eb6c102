-------------------------- MODULE LocalWork_proofs ---------------------------
(* Proofs about what omni does on its own machine: the threads that prepare the *)
(* search index, for any number of workers and items and any distance; the      *)
(* interrupt guard, for any number of Ctrl+C and of guards; and the files omni  *)
(* publishes, for any number of commands, releases, agent updates and power     *)
(* losses.                                                                      *)
EXTENDS PrepareQueue, LocalFiles, InterruptGuard, TLAPS

-----------------------------------------------------------------------------
(* The threads that prepare the search index                                    *)


Looping == {"take", "notify", "consume"}

\* Where the consumer's loop is, relative to what it has told the workers.
LoopRule ==
  /\ consumer = "take" => nextConsume = index /\ index < Items
  /\ consumer \in {"notify", "consume"} => nextConsume = index + 1 /\ index < Items

\* While the consumer runs, an item is prepared by one worker at a time, is not ready
\* before that, and is not consumed twice.
OwnerRule ==
  /\ \A i \in ready : i < nextClaim
  /\ \A w \in Workers : worker[w] = "prepare" => item[w] < nextClaim
  /\ consumer \in Looping =>
       /\ nextConsume <= nextClaim
       /\ \A i \in ready : nextConsume <= i
       /\ \A w \in Workers : worker[w] = "prepare" => item[w] \notin ready /\ nextConsume <= item[w]
       /\ \A v, w \in Workers :
            worker[v] = "prepare" /\ worker[w] = "prepare" /\ item[v] = item[w] => v = w

\* The queue is closed by the end of the loop, or by a worker that panicked.
ClosedRule ==
  closed => \/ consumer \in {"closed", "join", "done"}
            \/ \E w \in Workers : worker[w] \in {"unwound", "panicked"}

QueueInv ==
  /\ TypeOK /\ LoopRule /\ OwnerRule /\ ClosedRule
  /\ nextClaim <= nextConsume + Ahead
  /\ NothingLost /\ EarlyEndHasReason

\* The invariant holds initially.
LEMMA QueueInit == Init => QueueInv
<1> SUFFICES ASSUME Init PROVE QueueInv
  OBVIOUS
<1> USE ItemsAssumption, AheadAssumption DEF Init
<1>1. TypeOK
  <2>1. 0 \in 0..(Items - 1) /\ 0 \in 0..Items
    OBVIOUS
  <2> QED
    BY <2>1 DEF TypeOK, WorkerSteps, ConsumerSteps
<1>2. LoopRule /\ OwnerRule /\ ClosedRule
  BY DEF LoopRule, OwnerRule, ClosedRule, Looping
<1>3. nextClaim <= nextConsume + Ahead
  OBVIOUS
<1>4. NothingLost
  <2> SUFFICES ASSUME NEW i \in 0..(0 - 1) PROVE FALSE
    BY DEF NothingLost
  <2> QED
    OBVIOUS
<1>5. EarlyEndHasReason
  BY DEF EarlyEndHasReason
<1> QED
  BY <1>1, <1>2, <1>3, <1>4, <1>5 DEF QueueInv

\* Every step keeps the types.
LEMMA TypeStep ==
  ASSUME TypeOK, LoopRule, [Next]_vars
  PROVE  TypeOK'
<1> USE ItemsAssumption, AheadAssumption
    DEF TypeOK, LoopRule, MustWait, WorkerSteps, ConsumerSteps, WorkerGoto, ConsumerGoto,
       Calling, Threads
<1>1. ASSUME NEW w \in Workers, Wait(w) PROVE TypeOK'
  BY <1>1 DEF Wait
<1>2. ASSUME NEW w \in Workers, Claim(w) PROVE TypeOK'
  BY <1>2 DEF Claim
<1>3. ASSUME NEW w \in Workers, Return(w) PROVE TypeOK'
  BY <1>3 DEF Return
<1>4. ASSUME NEW w \in Workers, Insert(w) PROVE TypeOK'
  BY <1>4 DEF Insert
<1>5. ASSUME NEW w \in Workers, Notify(w) PROVE TypeOK'
  BY <1>5 DEF Notify
<1>6. ASSUME NEW w \in Workers, CloseOnPanic(w) PROVE TypeOK'
  BY <1>6 DEF CloseOnPanic
<1>7. ASSUME NEW w \in Workers, Panic(w) PROVE TypeOK'
  BY <1>7 DEF Panic
<1>8. CASE WaitForResult
  BY <1>8 DEF WaitForResult
<1>9. CASE Take
  BY <1>9 DEF Take
<1>10. CASE NotifyClaimable
  BY <1>10 DEF NotifyClaimable
<1>11. CASE Consume
  BY <1>11 DEF Consume
<1>12. CASE Close
  BY <1>12 DEF Close
<1>13. CASE NotifyClosed
  BY <1>13 DEF NotifyClosed
<1>14. CASE Join
  BY <1>14 DEF Join
<1>15. CASE Stop
  BY <1>15 DEF Stop
<1>16. CASE ConsumerPanics
  BY <1>16 DEF ConsumerPanics
<1>17. CASE WakeUp
  BY <1>17 DEF WakeUp
<1>18. CASE UNCHANGED vars
  BY <1>18 DEF vars
<1> QED
  BY <1>1, <1>2, <1>3, <1>4, <1>5, <1>6, <1>7, <1>8, <1>9, <1>10, <1>11, <1>12, <1>13,
     <1>14, <1>15, <1>16, <1>17, <1>18 DEF Next, WorkerStep, ConsumerStep

\* Every step keeps the loop's rule.
LEMMA LoopStep ==
  ASSUME TypeOK, LoopRule, [Next]_vars
  PROVE  LoopRule'
<1> USE ItemsAssumption, AheadAssumption
    DEF TypeOK, LoopRule, WorkerGoto, ConsumerGoto, Calling, Threads
<1>1. ASSUME NEW w \in Workers, Wait(w) PROVE LoopRule'
  BY <1>1 DEF Wait
<1>2. ASSUME NEW w \in Workers, Claim(w) PROVE LoopRule'
  BY <1>2 DEF Claim
<1>3. ASSUME NEW w \in Workers, Return(w) PROVE LoopRule'
  BY <1>3 DEF Return
<1>4. ASSUME NEW w \in Workers, Insert(w) PROVE LoopRule'
  BY <1>4 DEF Insert
<1>5. ASSUME NEW w \in Workers, Notify(w) PROVE LoopRule'
  BY <1>5 DEF Notify
<1>6. ASSUME NEW w \in Workers, CloseOnPanic(w) PROVE LoopRule'
  BY <1>6 DEF CloseOnPanic
<1>7. ASSUME NEW w \in Workers, Panic(w) PROVE LoopRule'
  BY <1>7 DEF Panic
<1>8. CASE WaitForResult
  BY <1>8 DEF WaitForResult
<1>9. CASE Take
  BY <1>9 DEF Take
<1>10. CASE NotifyClaimable
  BY <1>10 DEF NotifyClaimable
<1>11. CASE Consume
  BY <1>11 DEF Consume
<1>12. CASE Close
  BY <1>12 DEF Close
<1>13. CASE NotifyClosed
  BY <1>13 DEF NotifyClosed
<1>14. CASE Join
  BY <1>14 DEF Join
<1>15. CASE Stop
  BY <1>15 DEF Stop
<1>16. CASE ConsumerPanics
  BY <1>16 DEF ConsumerPanics
<1>17. CASE WakeUp
  BY <1>17 DEF WakeUp
<1>18. CASE UNCHANGED vars
  BY <1>18 DEF vars
<1> QED
  BY <1>1, <1>2, <1>3, <1>4, <1>5, <1>6, <1>7, <1>8, <1>9, <1>10, <1>11, <1>12, <1>13,
     <1>14, <1>15, <1>16, <1>17, <1>18 DEF Next, WorkerStep, ConsumerStep

\* Every step keeps the rule of the owners.
LEMMA OwnerStep ==
  ASSUME TypeOK, LoopRule, OwnerRule, [Next]_vars
  PROVE  OwnerRule'
<1> USE ItemsAssumption, AheadAssumption
    DEF TypeOK, LoopRule, OwnerRule, Looping, HasResult, WorkerGoto, ConsumerGoto,
       Calling, Threads
<1>1. ASSUME NEW w \in Workers, Wait(w) PROVE OwnerRule'
  BY <1>1 DEF Wait
<1>2. ASSUME NEW w \in Workers, Claim(w) PROVE OwnerRule'
  <2>1. /\ nextClaim' = nextClaim + 1 /\ item' = [item EXCEPT ![w] = nextClaim]
        /\ worker' = [worker EXCEPT ![w] = "prepare"] /\ worker[w] = "claim"
        /\ UNCHANGED <<nextConsume, ready, consumer, index>>
    BY <1>2 DEF Claim
  <2>2. \A i \in ready' : i < nextClaim'
    BY <2>1
  <2>3. \A v \in Workers : worker'[v] = "prepare" =>
          item'[v] < nextClaim' /\ (v # w => worker[v] = "prepare" /\ item'[v] = item[v])
    BY <2>1
  <2>4. consumer' \in Looping => nextConsume <= nextClaim /\ nextConsume' <= nextClaim'
    BY <2>1
  <2>5. ASSUME consumer' \in Looping PROVE \A i \in ready' : nextConsume' <= i
    BY <2>1, <2>5
  <2>6. ASSUME consumer' \in Looping
        PROVE  \A v \in Workers : worker'[v] = "prepare" =>
                 item'[v] \notin ready' /\ nextConsume' <= item'[v]
    BY <2>1, <2>3, <2>4, <2>6
  <2>7. ASSUME consumer' \in Looping
        PROVE  \A u, v \in Workers :
                 worker'[u] = "prepare" /\ worker'[v] = "prepare" /\ item'[u] = item'[v] => u = v
    <3>1. item'[w] = nextClaim /\ consumer \in Looping
      BY <2>1, <2>7
    <3>2. \A v \in Workers : v # w /\ worker'[v] = "prepare" => item'[v] # nextClaim
      BY <2>3
    <3>3. \A u, v \in Workers :
            worker[u] = "prepare" /\ worker[v] = "prepare" /\ item[u] = item[v] => u = v
      BY <3>1
    <3>4. ASSUME NEW u \in Workers, NEW v \in Workers, worker'[u] = "prepare",
                 worker'[v] = "prepare", item'[u] = item'[v], u # w, v # w
          PROVE  u = v
      BY <2>3, <3>3, <3>4
    <3> QED
      BY <3>1, <3>2, <3>4
  <2> QED
    BY <2>2, <2>3, <2>4, <2>5, <2>6, <2>7
<1>3. ASSUME NEW w \in Workers, Return(w) PROVE OwnerRule'
  BY <1>3 DEF Return
<1>4. ASSUME NEW w \in Workers, Insert(w) PROVE OwnerRule'
  BY <1>4 DEF Insert
<1>5. ASSUME NEW w \in Workers, Notify(w) PROVE OwnerRule'
  BY <1>5 DEF Notify
<1>6. ASSUME NEW w \in Workers, CloseOnPanic(w) PROVE OwnerRule'
  BY <1>6 DEF CloseOnPanic
<1>7. ASSUME NEW w \in Workers, Panic(w) PROVE OwnerRule'
  BY <1>7 DEF Panic
<1>8. CASE WaitForResult
  BY <1>8 DEF WaitForResult
<1>9. CASE Take
  BY <1>9 DEF Take
<1>10. CASE NotifyClaimable
  BY <1>10 DEF NotifyClaimable
<1>11. CASE Consume
  BY <1>11 DEF Consume
<1>12. CASE Close
  BY <1>12 DEF Close
<1>13. CASE NotifyClosed
  BY <1>13 DEF NotifyClosed
<1>14. CASE Join
  BY <1>14 DEF Join
<1>15. CASE Stop
  BY <1>15 DEF Stop
<1>16. CASE ConsumerPanics
  BY <1>16 DEF ConsumerPanics
<1>17. CASE WakeUp
  BY <1>17 DEF WakeUp
<1>18. CASE UNCHANGED vars
  BY <1>18 DEF vars
<1> QED
  BY <1>1, <1>2, <1>3, <1>4, <1>5, <1>6, <1>7, <1>8, <1>9, <1>10, <1>11, <1>12, <1>13,
     <1>14, <1>15, <1>16, <1>17, <1>18 DEF Next, WorkerStep, ConsumerStep

\* Every step keeps the reason for which the queue is closed.
LEMMA ClosedStep ==
  ASSUME TypeOK, ClosedRule, [Next]_vars
  PROVE  ClosedRule'
<1> USE ItemsAssumption, AheadAssumption
    DEF TypeOK, ClosedRule, WorkerGoto, ConsumerGoto, Calling, Threads
<1>1. ASSUME NEW w \in Workers, Wait(w) PROVE ClosedRule'
  BY <1>1 DEF Wait
<1>2. ASSUME NEW w \in Workers, Claim(w) PROVE ClosedRule'
  BY <1>2 DEF Claim
<1>3. ASSUME NEW w \in Workers, Return(w) PROVE ClosedRule'
  BY <1>3 DEF Return
<1>4. ASSUME NEW w \in Workers, Insert(w) PROVE ClosedRule'
  BY <1>4 DEF Insert
<1>5. ASSUME NEW w \in Workers, Notify(w) PROVE ClosedRule'
  BY <1>5 DEF Notify
<1>6. ASSUME NEW w \in Workers, CloseOnPanic(w) PROVE ClosedRule'
  BY <1>6 DEF CloseOnPanic
<1>7. ASSUME NEW w \in Workers, Panic(w) PROVE ClosedRule'
  BY <1>7 DEF Panic
<1>8. CASE WaitForResult
  BY <1>8 DEF WaitForResult
<1>9. CASE Take
  BY <1>9 DEF Take
<1>10. CASE NotifyClaimable
  BY <1>10 DEF NotifyClaimable
<1>11. CASE Consume
  BY <1>11 DEF Consume
<1>12. CASE Close
  BY <1>12 DEF Close
<1>13. CASE NotifyClosed
  BY <1>13 DEF NotifyClosed
<1>14. CASE Join
  BY <1>14 DEF Join
<1>15. CASE Stop
  BY <1>15 DEF Stop
<1>16. CASE ConsumerPanics
  BY <1>16 DEF ConsumerPanics
<1>17. CASE WakeUp
  BY <1>17 DEF WakeUp
<1>18. CASE UNCHANGED vars
  BY <1>18 DEF vars
<1> QED
  BY <1>1, <1>2, <1>3, <1>4, <1>5, <1>6, <1>7, <1>8, <1>9, <1>10, <1>11, <1>12, <1>13,
     <1>14, <1>15, <1>16, <1>17, <1>18 DEF Next, WorkerStep, ConsumerStep

\* Every step keeps the distance.
LEMMA DistanceStep ==
  ASSUME TypeOK, LoopRule, nextClaim <= nextConsume + Ahead, [Next]_vars
  PROVE  (nextClaim <= nextConsume + Ahead)'
<1> USE ItemsAssumption, AheadAssumption
    DEF TypeOK, LoopRule, MustWait, WorkerGoto, ConsumerGoto, Calling, Threads
<1>1. ASSUME NEW w \in Workers, Wait(w) PROVE (nextClaim <= nextConsume + Ahead)'
  BY <1>1 DEF Wait
<1>2. ASSUME NEW w \in Workers, Claim(w) PROVE (nextClaim <= nextConsume + Ahead)'
  BY <1>2 DEF Claim
<1>3. ASSUME NEW w \in Workers, Return(w) PROVE (nextClaim <= nextConsume + Ahead)'
  BY <1>3 DEF Return
<1>4. ASSUME NEW w \in Workers, Insert(w) PROVE (nextClaim <= nextConsume + Ahead)'
  BY <1>4 DEF Insert
<1>5. ASSUME NEW w \in Workers, Notify(w) PROVE (nextClaim <= nextConsume + Ahead)'
  BY <1>5 DEF Notify
<1>6. ASSUME NEW w \in Workers, CloseOnPanic(w) PROVE (nextClaim <= nextConsume + Ahead)'
  BY <1>6 DEF CloseOnPanic
<1>7. ASSUME NEW w \in Workers, Panic(w) PROVE (nextClaim <= nextConsume + Ahead)'
  BY <1>7 DEF Panic
<1>8. CASE WaitForResult
  BY <1>8 DEF WaitForResult
<1>9. CASE Take
  BY <1>9 DEF Take
<1>10. CASE NotifyClaimable
  BY <1>10 DEF NotifyClaimable
<1>11. CASE Consume
  BY <1>11 DEF Consume
<1>12. CASE Close
  BY <1>12 DEF Close
<1>13. CASE NotifyClosed
  BY <1>13 DEF NotifyClosed
<1>14. CASE Join
  BY <1>14 DEF Join
<1>15. CASE Stop
  BY <1>15 DEF Stop
<1>16. CASE ConsumerPanics
  BY <1>16 DEF ConsumerPanics
<1>17. CASE WakeUp
  BY <1>17 DEF WakeUp
<1>18. CASE UNCHANGED vars
  BY <1>18 DEF vars
<1> QED
  BY <1>1, <1>2, <1>3, <1>4, <1>5, <1>6, <1>7, <1>8, <1>9, <1>10, <1>11, <1>12, <1>13,
     <1>14, <1>15, <1>16, <1>17, <1>18 DEF Next, WorkerStep, ConsumerStep

\* No step loses a claimed item.
LEMMA LostStep ==
  ASSUME TypeOK, LoopRule, NothingLost, [Next]_vars
  PROVE  NothingLost'
<1> USE ItemsAssumption, AheadAssumption
    DEF TypeOK, LoopRule, NothingLost, HasResult, WorkerGoto, ConsumerGoto, Calling, Threads
<1>1. ASSUME NEW w \in Workers, Wait(w) PROVE NothingLost'
  BY <1>1 DEF Wait
<1>2. ASSUME NEW w \in Workers, Claim(w) PROVE NothingLost'
  BY <1>2 DEF Claim
<1>3. ASSUME NEW w \in Workers, Return(w) PROVE NothingLost'
  BY <1>3 DEF Return
<1>4. ASSUME NEW w \in Workers, Insert(w) PROVE NothingLost'
  BY <1>4 DEF Insert
<1>5. ASSUME NEW w \in Workers, Notify(w) PROVE NothingLost'
  BY <1>5 DEF Notify
<1>6. ASSUME NEW w \in Workers, CloseOnPanic(w) PROVE NothingLost'
  BY <1>6 DEF CloseOnPanic
<1>7. ASSUME NEW w \in Workers, Panic(w) PROVE NothingLost'
  BY <1>7 DEF Panic
<1>8. CASE WaitForResult
  BY <1>8 DEF WaitForResult
<1>9. CASE Take
  BY <1>9 DEF Take
<1>10. CASE NotifyClaimable
  BY <1>10 DEF NotifyClaimable
<1>11. CASE Consume
  BY <1>11 DEF Consume
<1>12. CASE Close
  BY <1>12 DEF Close
<1>13. CASE NotifyClosed
  BY <1>13 DEF NotifyClosed
<1>14. CASE Join
  BY <1>14 DEF Join
<1>15. CASE Stop
  BY <1>15 DEF Stop
<1>16. CASE ConsumerPanics
  BY <1>16 DEF ConsumerPanics
<1>17. CASE WakeUp
  BY <1>17 DEF WakeUp
<1>18. CASE UNCHANGED vars
  BY <1>18 DEF vars
<1> QED
  BY <1>1, <1>2, <1>3, <1>4, <1>5, <1>6, <1>7, <1>8, <1>9, <1>10, <1>11, <1>12, <1>13,
     <1>14, <1>15, <1>16, <1>17, <1>18 DEF Next, WorkerStep, ConsumerStep

\* No step ends the loop early without a reason.
LEMMA ReasonStep ==
  ASSUME TypeOK, LoopRule, ClosedRule, EarlyEndHasReason, [Next]_vars
  PROVE  EarlyEndHasReason'
<1> USE ItemsAssumption, AheadAssumption
    DEF TypeOK, LoopRule, ClosedRule, EarlyEndHasReason, HasResult, WorkerGoto,
       ConsumerGoto, Calling, Threads
<1>1. ASSUME NEW w \in Workers, Wait(w) PROVE EarlyEndHasReason'
  BY <1>1 DEF Wait
<1>2. ASSUME NEW w \in Workers, Claim(w) PROVE EarlyEndHasReason'
  BY <1>2 DEF Claim
<1>3. ASSUME NEW w \in Workers, Return(w) PROVE EarlyEndHasReason'
  BY <1>3 DEF Return
<1>4. ASSUME NEW w \in Workers, Insert(w) PROVE EarlyEndHasReason'
  BY <1>4 DEF Insert
<1>5. ASSUME NEW w \in Workers, Notify(w) PROVE EarlyEndHasReason'
  BY <1>5 DEF Notify
<1>6. ASSUME NEW w \in Workers, CloseOnPanic(w) PROVE EarlyEndHasReason'
  BY <1>6 DEF CloseOnPanic
<1>7. ASSUME NEW w \in Workers, Panic(w) PROVE EarlyEndHasReason'
  BY <1>7 DEF Panic
<1>8. CASE WaitForResult
  BY <1>8 DEF WaitForResult
<1>9. CASE Take
  BY <1>9 DEF Take
<1>10. CASE NotifyClaimable
  BY <1>10 DEF NotifyClaimable
<1>11. CASE Consume
  BY <1>11 DEF Consume
<1>12. CASE Close
  BY <1>12 DEF Close
<1>13. CASE NotifyClosed
  BY <1>13 DEF NotifyClosed
<1>14. CASE Join
  BY <1>14 DEF Join
<1>15. CASE Stop
  BY <1>15 DEF Stop
<1>16. CASE ConsumerPanics
  BY <1>16 DEF ConsumerPanics
<1>17. CASE WakeUp
  BY <1>17 DEF WakeUp
<1>18. CASE UNCHANGED vars
  BY <1>18 DEF vars
<1> QED
  BY <1>1, <1>2, <1>3, <1>4, <1>5, <1>6, <1>7, <1>8, <1>9, <1>10, <1>11, <1>12, <1>13,
     <1>14, <1>15, <1>16, <1>17, <1>18 DEF Next, WorkerStep, ConsumerStep

\* Every step keeps the invariant.
LEMMA QueueStep == QueueInv /\ [Next]_vars => QueueInv'
<1> SUFFICES ASSUME QueueInv, [Next]_vars PROVE QueueInv'
  OBVIOUS
<1>1. TypeOK' /\ LoopRule' /\ OwnerRule' /\ ClosedRule'
  BY TypeStep, LoopStep, OwnerStep, ClosedStep DEF QueueInv
<1>2. (nextClaim <= nextConsume + Ahead)' /\ NothingLost' /\ EarlyEndHasReason'
  BY DistanceStep, LostStep, ReasonStep DEF QueueInv
<1> QED
  BY <1>1, <1>2 DEF QueueInv

\* The types, for any number of workers and items.
THEOREM QueueTypeCorrect == Spec => []TypeOK
<1>1. QueueInv => TypeOK
  BY DEF QueueInv
<1> QED
  BY QueueInit, QueueStep, <1>1, PTL DEF Spec

\* The workers never hold more results than PREPARED_AHEAD_PER_WORKER allows
\* (search_index.rs:396).
THEOREM DistanceIsKept == Spec => []DistanceKept
<1>1. QueueInv => DistanceKept
  BY DEF QueueInv, OwnerRule, Looping, DistanceKept
<1> QED
  BY QueueInit, QueueStep, <1>1, PTL DEF Spec

\* Every claimed item reaches the consumer or belongs to a worker (search_index.rs:413).
THEOREM ClaimsAreKept == Spec => []NothingLost
<1>1. QueueInv => NothingLost
  BY DEF QueueInv
<1> QED
  BY QueueInit, QueueStep, <1>1, PTL DEF Spec

\* The consumer skips no item unless it was stopped or a worker panicked
\* (search_index.rs:432).
THEOREM EarlyEndIsExplained == Spec => []EarlyEndHasReason
<1>1. QueueInv => EarlyEndHasReason
  BY DEF QueueInv
<1> QED
  BY QueueInit, QueueStep, <1>1, PTL DEF Spec


-----------------------------------------------------------------------------
(* The interrupt guard                                                          *)

GuardTyped ==
  /\ requested \in BOOLEAN /\ defaultAction \in BOOLEAN /\ round \in Nat
  /\ handler \in [Presses -> {"none", "arm", "request", "done"}]
  /\ began \in [Presses -> Nat] /\ answered \subseteq Presses

\* The default action is put off only while the command works under a guard, and a guard
\* is put up only after every press that met an earlier one.
ArmedRule ==
  /\ command \notin Armed => defaultAction
  /\ \A c \in Presses : began[c] <= round
  /\ command = "arming" => \A c \in Presses : began[c] < round

\* A press that restored the default action under this guard leaves it restored; one that
\* was answered has left its request.
AnswerRule ==
  /\ \A c \in Presses :
       began[c] = round /\ (handler[c] = "request" \/ c \in answered) => defaultAction
  /\ answered # {} => requested
  /\ \A c \in answered : handler[c] = "done"

GuardInv == GuardTyped /\ ArmedRule /\ AnswerRule

\* The invariant of the guard holds initially and every step preserves it.
LEMMA GuardInvariant == GuardSpec => []GuardInv
<1>1. GuardInit => GuardInv
  <2> SUFFICES ASSUME GuardInit PROVE GuardInv
    OBVIOUS
  <2>1. GuardTyped
    BY DEF GuardInit, GuardTyped
  <2>2. ArmedRule
    BY DEF GuardInit, ArmedRule, Armed
  <2>3. AnswerRule
    BY DEF GuardInit, AnswerRule
  <2> QED
    BY <2>1, <2>2, <2>3 DEF GuardInv
<1>2. ASSUME GuardInv, [GuardNext]_guardVars PROVE GuardInv'
  <2> USE DEF GuardInv, GuardTyped, ArmedRule, AnswerRule, Armed
  <2>1. CASE UNCHANGED guardVars
    BY <1>2, <2>1 DEF guardVars
  <2>2. CASE ClearRequest
    <3>0. GuardTyped /\ ClearRequest
      BY <1>2, <2>2
    <3>1. GuardTyped'
      <4>1. requested' = FALSE /\ answered' = {} /\ round' = round + 1
        BY <3>0 DEF ClearRequest
      <4>2. defaultAction' = defaultAction /\ handler' = handler /\ began' = began
        BY <3>0 DEF ClearRequest
      <4> HIDE DEF GuardInv, ArmedRule, AnswerRule
      <4>3. round' \in Nat /\ answered' \subseteq Presses
        BY <3>0, <4>1
      <4>4. requested' \in BOOLEAN
        BY <4>1
      <4> QED
        BY <3>0, <4>2, <4>3, <4>4
    <3>2. ArmedRule'
      BY <1>2, <2>2 DEF ClearRequest
    <3>3. AnswerRule'
      BY <1>2, <2>2 DEF ClearRequest
    <3> QED
      BY <3>1, <3>2, <3>3
  <2>3. CASE Arm
    <3>1. GuardTyped'
      BY <1>2, <2>3 DEF Arm
    <3>2. ArmedRule'
      BY <1>2, <2>3 DEF Arm
    <3>3. AnswerRule'
      BY <1>2, <2>3 DEF Arm
    <3> QED
      BY <3>1, <3>2, <3>3
  <2>4. CASE StopWorking \/ ReadRequest \/ GoOn
    BY <1>2, <2>4 DEF StopWorking, ReadRequest, GoOn
  <2>5. CASE Rearm
    BY <1>2, <2>5 DEF Rearm
  <2>6. ASSUME NEW c \in Presses, Arrive(c) PROVE GuardInv'
    BY <1>2, <2>6 DEF Arrive, Running
  <2>7. ASSUME NEW c \in Presses, ArmDefault(c) PROVE GuardInv'
    BY <1>2, <2>7 DEF ArmDefault, Running
  <2>8. ASSUME NEW c \in Presses, Request(c) PROVE GuardInv'
    BY <1>2, <2>8 DEF Request, Running
  <2> QED
    BY <1>2, <2>1, <2>2, <2>3, <2>4, <2>5, <2>6, <2>7, <2>8 DEF GuardNext
<1> QED
  BY <1>1, <1>2, PTL DEF GuardSpec

\* A Ctrl+C is never swallowed, however the steps of its handler and of the command
\* interleave.
THEOREM NoInterruptIsSwallowed == GuardSpec => InterruptsAreSeen
<1> DEFINE Seen ==
      /\ \A c \in Presses :
           handler[c] = "none" /\ handler'[c] # "none"
             /\ \/ command \notin Armed
                \/ \E earlier \in answered : began[earlier] = round
           => command' = "killed"
      /\ command = "rearmed" /\ command' = "unguarded" => answered = {}
<1>1. ASSUME GuardInv, [GuardNext]_guardVars PROVE Seen
  <2>1. ASSUME NEW c \in Presses, handler[c] = "none", handler'[c] # "none",
               \/ command \notin Armed
               \/ \E earlier \in answered : began[earlier] = round
        PROVE  command' = "killed"
    <3>1. defaultAction
      BY <1>1, <2>1 DEF GuardInv, GuardTyped, ArmedRule, AnswerRule
    <3>2. Arrive(c)
      BY <1>1, <2>1 DEF GuardInv, GuardTyped, GuardNext, guardVars, ClearRequest, Arm,
         StopWorking, Rearm, ReadRequest, GoOn, Arrive, ArmDefault, Request
    <3> QED
      BY <3>1, <3>2 DEF Arrive
  <2>2. ASSUME command = "rearmed", command' = "unguarded" PROVE answered = {}
    <3>1. ReadRequest
      BY <1>1, <2>2 DEF GuardNext, guardVars, ClearRequest, Arm, StopWorking, Rearm, GoOn,
         Arrive, ArmDefault, Request
    <3> QED
      BY <1>1, <2>2, <3>1 DEF ReadRequest, GuardInv, AnswerRule
  <2> QED
    BY <2>1, <2>2
<1>2. GuardInv /\ [GuardNext]_guardVars => [Seen]_guardVars
  BY <1>1
<1> QED
  BY <1>2, GuardInvariant, PTL DEF GuardSpec, InterruptsAreSeen

-----------------------------------------------------------------------------
(* The published files                                                          *)

\* Places at which a process holds self-update.lock, and at which it has a release chosen.
Holding == {"download", "stage", "sync", "verify", "backup", "publish", "sync_directory",
            "check", "restore"}
Updating == Holding \cup {"lock"}
Restorable == {"publish", "sync_directory", "check", "restore"}
Replaced == {"sync_directory", "check", "restore"}
Probing == {"lookup", "help", "remember", "answered"}

Binaries == [of : Releases, whole : {TRUE}, durable : {TRUE}]
Exports == [of : Users, whole : {TRUE}, durable : {TRUE}]

\* A cache whose entries were asked of an agent that was there by then.
GoodCache(cache) ==
  \A stamp \in DOMAIN cache : stamp \in Nat /\ cache[stamp] \in stamp..agent

CacheFile(file) ==
  \/ file = Missing
  \/ /\ file = [of |-> file.of, whole |-> file.whole, durable |-> file.durable]
     /\ GoodCache(file.of)

\* What a path names, now and after a power loss.
Named(path) == older[path] \cup {entry[path]}

\* The binary is a whole synchronised release, an export whole and synchronised or not
\* there, whatever a power loss brings back.
NamedRule ==
  /\ Named("binary") \subseteq Binaries
  /\ Named("export") \subseteq Exports \cup {Missing}
  /\ \A file \in Named("modes") : CacheFile(file)

FilesTyped ==
  /\ entry = [path \in Paths |-> entry[path]] /\ older = [path \in Paths |-> older[path]]
  /\ agent \in Nat
  /\ at = [p \in Users |-> at[p]]
  /\ staged = [p \in Users |-> staged[p]] /\ backup = [p \in Users |-> backup[p]]
  /\ task = [p \in Users |-> task[p]] /\ moments = [p \in Users |-> moments[p]]

\* Who publishes or restores a binary holds the lock since before it downloaded it, what it
\* publishes has reported its version, and what it published is still there.
UpdateRule(p) ==
  /\ at[p] \in Updating =>
       task[p] \in [version : Releases, candidate : Releases \cup {Broken}]
  /\ at[p] \in Holding => locked = p
  /\ at[p] = "sync" => staged[p] = Whole(task[p].candidate)
  /\ at[p] = "verify" => staged[p] = Durable(Whole(task[p].candidate))
  /\ at[p] \in {"backup", "publish"} => staged[p] = Durable(Whole(task[p].version))
  /\ at[p] \in Restorable => backup[p] \in Binaries
  /\ at[p] \in Replaced => entry["binary"] = Durable(Whole(task[p].version))
  /\ at[p] = "check" => older["binary"] = {}

\* What an export publishes is written and synchronised; so is a handoff that is named.
DocumentRule(p) ==
  /\ at[p] = "export_sync" => staged[p] = Whole(p)
  /\ at[p] = "export_publish" => staged[p] = Durable(Whole(p))
  /\ at[p] = "handoff_keep" => entry[p] = Durable(Whole(p))

\* A probe knows the stamp the agent had when it began, and answers with what an agent
\* lists that was there since.
ProbeRule(p) ==
  /\ at[p] \in Probing =>
       /\ task[p] = [stamp |-> task[p].stamp, cache |-> task[p].cache,
                     lists |-> task[p].lists]
       /\ task[p].stamp \in 0..agent /\ moments[p] = task[p].stamp..agent
  /\ at[p] \in {"lookup", "help"} => task[p].lists = Missing
  /\ at[p] \in {"help", "remember"} => GoodCache(task[p].cache)
  /\ at[p] = "remember" => task[p].lists \in task[p].stamp..agent
  /\ at[p] = "answered" => task[p].lists \in (task[p].stamp..agent) \cup {Missing}

Stands(p) == UpdateRule(p) /\ DocumentRule(p) /\ ProbeRule(p)

FilesInv == FilesTyped /\ NamedRule /\ \A p \in Users : Stands(p)

\* A function after an assignment at one argument.
LEMMA Assigned ==
  ASSUME NEW S, NEW f, f = [x \in S |-> f[x]], NEW a \in S, NEW v,
         NEW g, g = [f EXCEPT ![a] = v]
  PROVE  /\ g = [x \in S |-> g[x]] /\ g[a] = v
         /\ \A x \in S \ {a} : g[x] = f[x]
OBVIOUS

\* A file that is written, and one that is synchronised.
LEMMA Marks ==
  /\ \A of : Durable(Whole(of)) = [of |-> of, whole |-> TRUE, durable |-> TRUE]
  /\ \A file \in Binaries : Durable(file) = file /\ file = Durable(Whole(file.of))
<1>1. ASSUME NEW of PROVE Durable(Whole(of)) = [of |-> of, whole |-> TRUE, durable |-> TRUE]
  <2>1. DOMAIN Whole(of) = {"of", "whole", "durable"}
    BY DEF Whole
  <2>2. Durable(Whole(of)) = [field \in {"of", "whole", "durable"} |->
                                IF field = "durable" THEN TRUE ELSE Whole(of)[field]]
    BY <2>1 DEF Durable
  <2>3. Whole(of).of = of /\ Whole(of).whole = TRUE
    BY DEF Whole
  <2> QED
    BY <2>2, <2>3
<1>2. ASSUME NEW file \in Binaries
      PROVE  Durable(file) = file /\ file = Durable(Whole(file.of))
  <2>1. file = [of |-> file.of, whole |-> TRUE, durable |-> TRUE]
    BY DEF Binaries
  <2> QED
    BY <1>1, <2>1 DEF Durable
<1> QED
  BY <1>1, <1>2

\* What a step of p leaves to the other processes.
Alone(p) ==
  /\ agent' = agent
  /\ \A q \in Users \ {p} :
       /\ at'[q] = at[q] /\ staged'[q] = staged[q] /\ backup'[q] = backup[q]
       /\ task'[q] = task[q] /\ moments'[q] = moments[q] /\ entry'[q] = entry[q]
       /\ locked = q => /\ locked' = q /\ entry'["binary"] = entry["binary"]
                        /\ older'["binary"] = older["binary"]

\* The others stand where they stood.
LEMMA OthersStand ==
  ASSUME FilesInv, NEW p \in Users, Alone(p), FilesTyped', NamedRule', Stands(p)'
  PROVE  FilesInv'
<1>1. ASSUME NEW q \in Users, q # p PROVE Stands(q)'
  <2>1. /\ agent' = agent
        /\ at'[q] = at[q] /\ staged'[q] = staged[q] /\ backup'[q] = backup[q]
        /\ task'[q] = task[q] /\ moments'[q] = moments[q] /\ entry'[q] = entry[q]
        /\ locked = q => /\ locked' = q /\ entry'["binary"] = entry["binary"]
                         /\ older'["binary"] = older["binary"]
    BY <1>1 DEF Alone
  <2>2. UpdateRule(q)'
    BY <2>1 DEF FilesInv, Stands, UpdateRule, Holding, Updating, Restorable, Replaced
  <2>3. DocumentRule(q)'
    BY <2>1 DEF FilesInv, Stands, DocumentRule
  <2>4. ProbeRule(q)'
    BY <2>1 DEF FilesInv, Stands, ProbeRule, GoodCache
  <2> QED
    BY <2>2, <2>3, <2>4 DEF Stands
<1> QED
  BY <1>1 DEF FilesInv

\* A step that publishes nothing changes what no path names.
LEMMA NothingPublished ==
  ASSUME FilesInv, UNCHANGED published, agent' = agent
  PROVE  NamedRule'
<1>1. entry' = entry /\ older' = older
  BY DEF published
<1>2. ASSUME NEW file \in Named("modes") PROVE CacheFile(file)'
  BY <1>2 DEF FilesInv, NamedRule, CacheFile, GoodCache
<1> QED
  BY <1>1, <1>2 DEF FilesInv, NamedRule, Named

\* f changes at p, or not at all.
Changed(f, p) == f' = f \/ \E v : f' = [f EXCEPT ![p] = v]

\* A step of p that publishes nothing: it changes what p holds and its lock.
Quiet(p) ==
  /\ UNCHANGED <<published, agent>>
  /\ locked' = locked \/ locked' = Free(p) \/ (locked = Missing /\ locked' = p)
  /\ Changed(at, p) /\ Changed(staged, p) /\ Changed(backup, p) /\ Changed(task, p)
  /\ Changed(moments, p)

LEMMA QuietStep ==
  ASSUME FilesInv, NEW p \in Users, Quiet(p)
  PROVE  FilesTyped' /\ NamedRule' /\ Alone(p)
<1>1. FilesTyped
  BY DEF FilesInv
<1>2. /\ at' = [q \in Users |-> at'[q]] /\ \A q \in Users \ {p} : at'[q] = at[q]
      /\ staged' = [q \in Users |-> staged'[q]]
      /\ \A q \in Users \ {p} : staged'[q] = staged[q]
      /\ backup' = [q \in Users |-> backup'[q]]
      /\ \A q \in Users \ {p} : backup'[q] = backup[q]
      /\ task' = [q \in Users |-> task'[q]] /\ \A q \in Users \ {p} : task'[q] = task[q]
      /\ moments' = [q \in Users |-> moments'[q]]
      /\ \A q \in Users \ {p} : moments'[q] = moments[q]
  BY <1>1, Assigned DEF FilesTyped, Quiet, Changed
<1>3. FilesTyped'
  BY <1>1, <1>2 DEF FilesTyped, Quiet, published
<1>4. \A q \in Users \ {p} : locked = q => locked' = q
  BY MissingAssumption DEF Quiet, Free
<1>5. Alone(p)
  BY <1>2, <1>4 DEF Alone, Quiet, published
<1> QED
  BY <1>3, <1>5, NothingPublished DEF Quiet

\* The rules of a process after a quiet step are enough.
LEMMA QuietEnough ==
  ASSUME FilesInv, NEW p \in Users, Quiet(p), Stands(p)'
  PROVE  FilesInv'
BY QuietStep, OthersStand

\* A failed or killed command, and one that is over, has no rule to keep.
LEMMA OverStands ==
  ASSUME NEW p \in Users, at'[p] \in Over
  PROVE  Stands(p)'
BY DEF Over, Stands, UpdateRule, DocumentRule, ProbeRule, Holding, Updating, Restorable,
   Replaced, Probing

LEMMA FailStep ==
  ASSUME FilesInv, NEW p \in Users, NEW here, Fail(p, here)
  PROVE  FilesInv'
<1>1. Quiet(p)
  BY DEF Fail, Follow, Quiet, Changed, others
<1>2. at'[p] = "failed"
  BY DEF Fail, Follow, FilesInv, FilesTyped
<1> QED
  BY <1>1, <1>2, QuietEnough, OverStands DEF Over

\* What may be published at a path, and by whom.
Publishable(p, path, file) ==
  \/ path = "binary" /\ locked = p /\ file \in Binaries
  \/ path = "export" /\ file \in Exports
  \/ path = "modes" /\ CacheFile(file)

\* A rename or link keeps what the paths name, and touches no other process.
LEMMA PublishStep ==
  ASSUME FilesInv, NEW p \in Users, NEW path, NEW file, Publishable(p, path, file),
         Publish(path, file), UNCHANGED <<staged, backup, task, others>>,
         Changed(at, p), locked' \in {locked, Free(p)}
  PROVE  FilesTyped' /\ NamedRule' /\ Alone(p)
<1>1. FilesTyped /\ NamedRule
  BY DEF FilesInv
<1>2. path \in Paths /\ path \notin Users
  BY UsersAssumption DEF Publishable, Paths
<1>3. /\ entry' = [x \in Paths |-> entry'[x]] /\ entry'[path] = file
      /\ \A x \in Paths \ {path} : entry'[x] = entry[x]
      /\ older' = [x \in Paths |-> older'[x]]
      /\ older'[path] = older[path] \cup {entry[path]}
      /\ \A x \in Paths \ {path} : older'[x] = older[x]
  BY <1>1, <1>2, Assigned DEF FilesTyped, Publish
<1>4. at' = [q \in Users |-> at'[q]] /\ \A q \in Users \ {p} : at'[q] = at[q]
  BY <1>1, Assigned DEF FilesTyped, Changed
<1>5. FilesTyped'
  BY <1>1, <1>3, <1>4 DEF FilesTyped, others
<1>6. NamedRule'
  <2>1. agent' = agent
    BY DEF others
  <2>2. \A x \in Paths \ {path} : Named(x)' = Named(x)
    BY <1>3 DEF Named
  <2>3. Named(path)' = Named(path) \cup {file}
    BY <1>3 DEF Named
  <2>4. \A other : CacheFile(other)' <=> CacheFile(other)
    BY <2>1 DEF CacheFile, GoodCache
  <2> QED
    BY <1>1, <1>2, <2>2, <2>3, <2>4 DEF NamedRule, Publishable, Paths
<1>7. Alone(p)
  <2>1. \A q \in Users \ {p} : locked = q => locked' = q /\ path # "binary"
    BY MissingAssumption DEF Free, Publishable
  <2>2. "binary" \in Paths /\ Users \subseteq Paths
    BY DEF Paths
  <2> QED
    BY <1>2, <1>3, <1>4, <2>1, <2>2 DEF Alone, others
<1> QED
  BY <1>5, <1>6, <1>7

\* An update that downloads, verifies and keeps its copy of the current binary.
LEMMA UpdateStep ==
  ASSUME FilesInv, NEW p \in Users, Update(p)
  PROVE  FilesInv'
<1>0. FilesTyped /\ NamedRule /\ UpdateRule(p)
  BY DEF FilesInv, Stands
<1>1. CASE BeginUpdate(p)
  <2>1. Quiet(p)
    BY <1>1 DEF BeginUpdate, Follow, Quiet, Changed, others, published
  <2>2. at[p] = "idle" /\ at'[p] = "lock"
    BY <1>0, <1>1 DEF BeginUpdate, Follow, FilesTyped
  <2>3. task'[p] \in [version : Releases, candidate : Releases \cup {Broken}]
    BY <1>0, <1>1, <2>2 DEF BeginUpdate, FilesTyped, UpdateRule, Updating, Holding
  <2>4. Stands(p)'
    BY <1>0, <2>2, <2>3, Marks DEF Stands, UpdateRule, DocumentRule, ProbeRule, Holding,
       Updating,
       Restorable, Replaced, Probing, NamedRule, Named
  <2> QED
    BY <2>1, <2>4, QuietEnough
<1>2. CASE Lock(p)
  <2>1. Quiet(p)
    BY <1>2 DEF Lock, Unlocked, Follow, Quiet, Changed, others, published
  <2>2. at[p] = "lock" /\ at'[p] = "download"
    BY <1>0, <1>2 DEF Lock, Unlocked, Follow, FilesTyped
  <2>3. task' = task /\ locked' = p
    BY <1>0, <1>2, <2>2 DEF Lock, Unlocked, FilesTyped, UpdateRule, Updating, Holding
  <2>4. Stands(p)'
    BY <1>0, <2>2, <2>3, Marks DEF Stands, UpdateRule, DocumentRule, ProbeRule, Holding,
       Updating,
       Restorable, Replaced, Probing, NamedRule, Named
  <2> QED
    BY <2>1, <2>4, QuietEnough
<1>3. CASE Download(p)
  <2>1. Quiet(p)
    BY <1>3 DEF Download, Extracted, Follow, Quiet, Changed, others, published
  <2>2. at[p] = "download" /\ at'[p] = "stage"
    BY <1>0, <1>3 DEF Download, Extracted, Follow, FilesTyped
  <2>3. /\ task'[p] \in [version : Releases, candidate : Releases \cup {Broken}]
          /\ locked' = locked
    BY <1>0, <1>3, <2>2 DEF Download, Extracted, FilesTyped, UpdateRule, Updating, Holding
  <2>4. Stands(p)'
    BY <1>0, <2>2, <2>3, Marks DEF Stands, UpdateRule, DocumentRule, ProbeRule, Holding,
       Updating,
       Restorable, Replaced, Probing, NamedRule, Named
  <2> QED
    BY <2>1, <2>4, QuietEnough
<1>4. CASE Stage(p, "stage", "sync", task[p].candidate)
  <2>1. Quiet(p)
    BY <1>4 DEF Stage, Follow, Quiet, Changed, others, published
  <2>2. at[p] = "stage" /\ at'[p] = "sync"
    BY <1>0, <1>4 DEF Stage, Follow, FilesTyped
  <2>3. /\ task' = task /\ locked' = locked
          /\ staged'[p] = Whole(task[p].candidate)
    BY <1>0, <1>4, <2>2 DEF Stage, FilesTyped, UpdateRule, Updating, Holding
  <2>4. Stands(p)'
    BY <1>0, <2>2, <2>3, Marks DEF Stands, UpdateRule, DocumentRule, ProbeRule, Holding,
       Updating,
       Restorable, Replaced, Probing, NamedRule, Named
  <2> QED
    BY <2>1, <2>4, QuietEnough
<1>5. CASE Sync(p, "sync", "verify")
  <2>1. Quiet(p)
    BY <1>5 DEF Sync, Synced, Follow, Quiet, Changed, others, published
  <2>2. at[p] = "sync" /\ at'[p] = "verify"
    BY <1>0, <1>5 DEF Sync, Synced, Follow, FilesTyped
  <2>3. /\ task' = task /\ locked' = locked
          /\ staged'[p] = Durable(staged[p])
    BY <1>0, <1>5, <2>2 DEF Sync, Synced, FilesTyped, UpdateRule, Updating, Holding
  <2>4. Stands(p)'
    BY <1>0, <2>2, <2>3, Marks DEF Stands, UpdateRule, DocumentRule, ProbeRule, Holding,
       Updating,
       Restorable, Replaced, Probing, NamedRule, Named
  <2> QED
    BY <2>1, <2>4, QuietEnough
<1>6. CASE VerifyStaged(p)
  <2>1. Quiet(p)
    BY <1>6 DEF VerifyStaged, Follow, Quiet, Changed, others, published
  <2>2. at[p] = "verify" /\ at'[p] = "backup"
    BY <1>0, <1>6 DEF VerifyStaged, Follow, FilesTyped
  <2>3. /\ task' = task /\ locked' = locked /\ staged' = staged
          /\ staged[p].of = task[p].version
    BY <1>0, <1>6, <2>2 DEF VerifyStaged, Reports, FilesTyped, UpdateRule, Updating, Holding
  <2>4. Stands(p)'
    BY <1>0, <2>2, <2>3, Marks DEF Stands, UpdateRule, DocumentRule, ProbeRule, Holding,
       Updating,
       Restorable, Replaced, Probing, NamedRule, Named
  <2> QED
    BY <2>1, <2>4, QuietEnough
<1>7. CASE Backup(p)
  <2>1. Quiet(p)
    BY <1>7 DEF Backup, Synced, Follow, Quiet, Changed, others, published
  <2>2. at[p] = "backup" /\ at'[p] = "publish"
    BY <1>0, <1>7 DEF Backup, Synced, Follow, FilesTyped
  <2>3. /\ task' = task /\ locked' = locked /\ staged' = staged
          /\ backup'[p] = Durable(entry["binary"])
    BY <1>0, <1>7, <2>2 DEF Backup, Synced, FilesTyped, UpdateRule, Updating, Holding
  <2>4. Stands(p)'
    BY <1>0, <2>2, <2>3, Marks DEF Stands, UpdateRule, DocumentRule, ProbeRule, Holding,
       Updating,
       Restorable, Replaced, Probing, NamedRule, Named
  <2> QED
    BY <2>1, <2>4, QuietEnough
<1>8. CASE CheckPublished(p)
  <2>1. Quiet(p)
    BY <1>8 DEF CheckPublished, Follow, Quiet, Changed, others, published
  <2>2. at'[p] = "done"
    BY <1>0, <1>8 DEF CheckPublished, Follow, FilesTyped
  <2> QED
    BY <2>1, <2>2, QuietEnough, OverStands DEF Over
<1>9. CASE Distrust(p)
  <2>1. Quiet(p)
    BY <1>9 DEF Distrust, Follow, Quiet, Changed, others, published
  <2>2. at[p] \in {"sync_directory", "check"} /\ at'[p] = "restore"
    BY <1>0, <1>9 DEF Distrust, Follow, FilesTyped
  <2>3. UNCHANGED <<entry, task, locked, backup>>
    BY <1>9 DEF Distrust, published
  <2>4. Stands(p)'
    BY <1>0, <2>2, <2>3, Marks DEF Stands, UpdateRule, DocumentRule, ProbeRule, Holding,
       Updating,
       Restorable, Replaced, Probing, NamedRule, Named
  <2> QED
    BY <2>1, <2>4, QuietEnough
<1>10. CASE PublishBinary(p)
  <2>1. at[p] = "publish" /\ at'[p] = "sync_directory"
    BY <1>0, <1>10 DEF PublishBinary, Follow, FilesTyped
  <2>2. /\ staged[p] = Durable(Whole(task[p].version)) /\ locked = p
        /\ backup[p] \in Binaries
        /\ task[p] \in [version : Releases, candidate : Releases \cup {Broken}]
    BY <1>0, <2>1 DEF UpdateRule, Updating, Holding, Restorable
  <2>3. staged[p] \in Binaries
    BY <2>2 DEF Binaries, Durable, Whole
  <2>4. /\ Publish("binary", staged[p]) /\ UNCHANGED <<staged, backup, task, others>>
        /\ Changed(at, p) /\ locked' = locked
    BY <1>10 DEF PublishBinary, Changed, Follow
  <2>5. FilesTyped' /\ NamedRule' /\ Alone(p)
    BY <2>2, <2>3, <2>4, PublishStep DEF Publishable
  <2>6. entry'["binary"] = staged[p]
    BY <1>0, <2>4 DEF Publish, FilesTyped, Paths
  <2>7. Stands(p)'
    BY <2>1, <2>2, <2>4, <2>6 DEF Stands, UpdateRule, DocumentRule, ProbeRule, Holding,
       Updating,
       Restorable, Replaced, Probing
  <2> QED
    BY <2>5, <2>7, OthersStand
<1>11. CASE SyncDirectory(p)
  <2>1. at[p] = "sync_directory" /\ at'[p] = "check"
    BY <1>0, <1>11 DEF SyncDirectory, Follow, FilesTyped
  <2>2. /\ entry["binary"] = Durable(Whole(task[p].version)) /\ locked = p
        /\ backup[p] \in Binaries
        /\ task[p] \in [version : Releases, candidate : Releases \cup {Broken}]
    BY <1>0, <2>1 DEF UpdateRule, Updating, Holding, Restorable, Replaced
  <2>3. /\ UNCHANGED <<entry, locked, staged, backup, task, others>>
        /\ older' = [older EXCEPT !["binary"] = {}] /\ Changed(at, p)
    BY <1>11 DEF SyncDirectory, Changed, Follow
  <2>4. /\ older' = [x \in Paths |-> older'[x]] /\ older'["binary"] = {}
        /\ \A x \in Paths \ {"binary"} : older'[x] = older[x]
    BY <1>0, <2>3, Assigned DEF FilesTyped, Paths
  <2>5. at' = [q \in Users |-> at'[q]] /\ \A q \in Users \ {p} : at'[q] = at[q]
    BY <1>0, <2>3, Assigned DEF FilesTyped, Changed
  <2>6. FilesTyped'
    BY <1>0, <2>3, <2>4, <2>5 DEF FilesTyped, others
  <2>7. NamedRule'
    <3>1. \A file : CacheFile(file)' <=> CacheFile(file)
      BY <2>3 DEF CacheFile, GoodCache, others
    <3> QED
      BY <1>0, <2>3, <2>4, <3>1 DEF NamedRule, Named, Paths
  <2>8. Alone(p)
    BY <2>2, <2>3, <2>5 DEF Alone, others
  <2>9. Stands(p)'
    BY <2>1, <2>2, <2>3, <2>4 DEF Stands, UpdateRule, DocumentRule, ProbeRule, Holding,
       Updating,
       Restorable, Replaced, Probing
  <2> QED
    BY <2>6, <2>7, <2>8, <2>9, OthersStand
<1>12. CASE RestoreBackup(p)
  <2>1. at[p] = "restore" /\ at'[p] = "failed"
    BY <1>0, <1>12 DEF RestoreBackup, Follow, FilesTyped
  <2>2. locked = p /\ backup[p] \in Binaries
    BY <1>0, <2>1 DEF UpdateRule, Updating, Holding, Restorable
  <2>3. /\ Publish("binary", backup[p]) /\ UNCHANGED <<staged, backup, task, others>>
        /\ Changed(at, p) /\ locked' = Free(p)
    BY <1>12 DEF RestoreBackup, Changed, Follow
  <2>4. FilesTyped' /\ NamedRule' /\ Alone(p)
    BY <2>2, <2>3, PublishStep DEF Publishable
  <2> QED
    BY <2>1, <2>4, OverStands, OthersStand DEF Over
<1> QED
  BY <1>1, <1>2, <1>3, <1>4, <1>5, <1>6, <1>7, <1>8, <1>9, <1>10, <1>11, <1>12, FailStep
  DEF Update

\* An export that is published was written and synchronised.
LEMMA ExportStep ==
  ASSUME FilesInv, NEW p \in Users, Export(p)
  PROVE  FilesInv'
<1>0. FilesTyped /\ DocumentRule(p)
  BY DEF FilesInv, Stands
<1>1. CASE RefuseExport(p) \/ BeginExport(p)
  <2>1. Quiet(p)
    BY <1>1 DEF RefuseExport, BeginExport, Follow, Quiet, Changed, others
  <2>2. at'[p] \in {"failed", "export_stage"}
    BY <1>0, <1>1 DEF RefuseExport, BeginExport, Follow, FilesTyped
  <2>3. Stands(p)'
    BY <2>2 DEF Stands, UpdateRule, DocumentRule, ProbeRule, Holding, Updating, Restorable,
       Replaced, Probing
  <2> QED
    BY <2>1, <2>3, QuietEnough
<1>2. CASE Stage(p, "export_stage", "export_sync", p)
  <2>1. Quiet(p)
    BY <1>2 DEF Stage, Follow, Quiet, Changed, others
  <2>2. at'[p] = "export_sync" /\ staged'[p] = Whole(p)
    BY <1>0, <1>2 DEF Stage, Follow, FilesTyped
  <2>3. Stands(p)'
    BY <2>2 DEF Stands, UpdateRule, DocumentRule, ProbeRule, Holding, Updating, Restorable,
       Replaced, Probing
  <2> QED
    BY <2>1, <2>3, QuietEnough
<1>3. CASE Sync(p, "export_sync", "export_publish")
  <2>1. Quiet(p)
    BY <1>3 DEF Sync, Follow, Quiet, Changed, others
  <2>2. at'[p] = "export_publish" /\ staged'[p] = Durable(Whole(p))
    BY <1>0, <1>3 DEF Sync, Synced, Follow, FilesTyped, DocumentRule
  <2>3. Stands(p)'
    BY <2>2 DEF Stands, UpdateRule, DocumentRule, ProbeRule, Holding, Updating, Restorable,
       Replaced, Probing
  <2> QED
    BY <2>1, <2>3, QuietEnough
<1>4. CASE PublishExport(p)
  <2>1. at[p] = "export_publish" /\ at'[p] = "done"
    BY <1>0, <1>4 DEF PublishExport, Follow, FilesTyped
  <2>2. staged[p] \in Exports
    BY <1>0, <2>1 DEF DocumentRule, Exports, Durable, Whole
  <2>3. /\ Publish("export", staged[p]) /\ UNCHANGED <<staged, backup, task, others>>
        /\ Changed(at, p) /\ locked' = locked
    BY <1>4 DEF PublishExport, Changed, Follow
  <2>4. FilesTyped' /\ NamedRule' /\ Alone(p)
    BY <2>2, <2>3, PublishStep DEF Publishable
  <2> QED
    BY <2>1, <2>4, OverStands, OthersStand DEF Over
<1> QED
  BY <1>1, <1>2, <1>3, <1>4, FailStep DEF Export

\* A handoff document is whole when it is named to the user.
LEMMA HandoffStep ==
  ASSUME FilesInv, NEW p \in Users, KeepHandoff(p) \/ FillClipboard(p)
  PROVE  FilesInv'
<1>0. FilesTyped /\ NamedRule
  BY DEF FilesInv
<1>1. ASSUME NEW here, NEW there, NEW file, Handoff(p, here, there, file),
             there = "handoff_keep" => file = Durable(Whole(p)),
             there \in Over \cup {"handoff_write", "handoff_sync", "handoff_keep"}
      PROVE  FilesInv'
  <2>1. /\ entry' = [x \in Paths |-> entry'[x]] /\ entry'[p] = file
        /\ \A x \in Paths \ {p} : entry'[x] = entry[x]
    BY <1>0, <1>1, Assigned DEF Handoff, FilesTyped, Paths
  <2>2. /\ at' = [q \in Users |-> at'[q]] /\ at'[p] = there
        /\ \A q \in Users \ {p} : at'[q] = at[q]
    BY <1>0, <1>1, Assigned DEF Handoff, Follow, FilesTyped
  <2>3. UNCHANGED <<older, locked, staged, backup, task, others>>
    BY <1>1 DEF Handoff
  <2>4. FilesTyped'
    BY <1>0, <2>1, <2>2, <2>3 DEF FilesTyped, others
  <2>5. \A x \in {"binary", "export", "modes"} : entry'[x] = entry[x]
    BY <2>1, UsersAssumption DEF Paths
  <2>6. NamedRule'
    <3>1. \A other : CacheFile(other)' <=> CacheFile(other)
      BY <2>3 DEF CacheFile, GoodCache, others
    <3> QED
      BY <1>0, <2>3, <2>5, <3>1 DEF NamedRule, Named
  <2>7. Alone(p)
    BY <2>1, <2>2, <2>3, <2>5 DEF Alone, others, Paths
  <2>8. Stands(p)'
    BY <1>1, <2>1, <2>2 DEF Stands, UpdateRule, DocumentRule, ProbeRule, Holding, Updating,
       Restorable, Replaced, Probing, Over
  <2> QED
    BY <2>4, <2>6, <2>7, <2>8, OthersStand
<1>2. CASE KeepHandoff(p)
  BY <1>1, <1>2 DEF KeepHandoff, Synced, Over
<1>3. CASE FillClipboard(p)
  <2>1. Quiet(p)
    BY <1>3 DEF FillClipboard, Follow, Quiet, Changed, others
  <2>2. at'[p] = "done"
    BY <1>0, <1>3 DEF FillClipboard, Follow, FilesTyped
  <2> QED
    BY <2>1, <2>2, QuietEnough, OverStands DEF Over
<1> QED
  BY <1>2, <1>3

\* A probe answers with what an agent lists that was there since it began.
LEMMA ProbeStep ==
  ASSUME FilesInv, NEW p \in Users, Probe(p)
  PROVE  FilesInv'
<1>0. FilesTyped /\ NamedRule /\ ProbeRule(p)
  BY DEF FilesInv, Stands
<1> DEFINE begun == task[p].stamp
<1>1. CASE Identify(p)
  <2>1. Quiet(p)
    BY <1>1 DEF Identify, Follow, Quiet, Changed
  <2>2. /\ at'[p] = "lookup" /\ agent' = agent /\ agent \in Nat /\ moments'[p] = {agent}
        /\ task'[p] = [stamp |-> agent, cache |-> NoEntries, lists |-> Missing]
    BY <1>0, <1>1 DEF Identify, Follow, FilesTyped
  <2>3. {agent} = agent..agent
    BY <2>2
  <2>4. ProbeRule(p)'
    BY <2>2, <2>3 DEF ProbeRule, Probing
  <2>5. Stands(p)'
    BY <2>2, <2>4 DEF Stands, UpdateRule, DocumentRule, Holding, Updating, Restorable,
       Replaced
  <2> QED
    BY <2>1, <2>5, QuietEnough
<1>2. ASSUME LookUp(p) \/ AskHelp(p) PROVE FilesInv'
  <2>1. Quiet(p)
    BY <1>2 DEF LookUp, AskHelp, Follow, Quiet, Changed, others
  <2>2. /\ at[p] \in {"lookup", "help"} /\ agent' = agent /\ moments' = moments
        /\ at'[p] \in {"answered", "help", "remember"}
    BY <1>0, <1>2 DEF LookUp, AskHelp, Follow, FilesTyped, others
  <2>3. /\ task[p] = [stamp |-> begun, cache |-> task[p].cache, lists |-> task[p].lists]
        /\ begun \in 0..agent /\ moments[p] = begun..agent /\ task[p].lists = Missing
        /\ agent \in Nat
    BY <1>0, <2>2 DEF ProbeRule, Probing, FilesTyped
  <2>4. ProbeRule(p)'
    <3>1. CASE LookUp(p)
      <4>1. GoodCache(ReadCache)
        BY <1>0 DEF ReadCache, NoEntries, GoodCache, NamedRule, Named, CacheFile
      <4>2. CASE /\ at'[p] = "answered"
                 /\ \E stamp \in DOMAIN ReadCache \cap {begun} :
                      task'[p] = [task[p] EXCEPT !.lists = ReadCache[stamp]]
        <5>1. ReadCache[begun] \in begun..agent
          BY <4>1, <4>2 DEF GoodCache
        <5>2. task'[p] = [stamp |-> begun, cache |-> task[p].cache,
                          lists |-> ReadCache[begun]]
          BY <2>3, <4>2
        <5> HIDE DEF begun
        <5> QED
          BY <2>2, <2>3, <4>2, <5>1, <5>2 DEF ProbeRule, Probing
      <4>3. CASE at'[p] = "help" /\ task'[p] = [task[p] EXCEPT !.cache = ReadCache]
        <5>1. task'[p] = [stamp |-> begun, cache |-> ReadCache, lists |-> Missing]
          BY <2>3, <4>3
        <5>2. GoodCache(ReadCache)'
          BY <2>1, <4>1 DEF Quiet, published, ReadCache, GoodCache
        <5>3. GoodCache(task[p].cache)'
          BY <2>2, <4>1, <5>1 DEF GoodCache
        <5> HIDE DEF begun
        <5> QED
          BY <2>2, <2>3, <4>3, <5>1, <5>3 DEF ProbeRule, Probing
      <4> QED
        BY <1>0, <3>1, <4>2, <4>3 DEF LookUp, Follow, Cached, FilesTyped
    <3>2. CASE AskHelp(p)
      <4>1. CASE at'[p] = "remember" /\ task'[p] = [task[p] EXCEPT !.lists = agent]
        <5>1. task'[p] = [stamp |-> begun, cache |-> task[p].cache, lists |-> agent]
          BY <2>3, <4>1
        <5>2. at[p] = "help"
          BY <1>0, <3>2, <4>1 DEF AskHelp, Follow, FilesTyped
        <5>3. GoodCache(task[p].cache)'
          BY <1>0, <2>2, <5>1, <5>2 DEF GoodCache, ProbeRule
        <5> HIDE DEF begun
        <5> QED
          BY <2>2, <2>3, <4>1, <5>1, <5>3 DEF ProbeRule, Probing
      <4>2. CASE at'[p] = "answered" /\ task' = task
        BY <2>2, <2>3, <4>2 DEF ProbeRule, Probing
      <4> QED
        BY <1>0, <3>2, <4>1, <4>2 DEF AskHelp, Follow, FilesTyped
    <3> QED
      BY <1>2, <3>1, <3>2
  <2>5. Stands(p)'
    BY <2>2, <2>4 DEF Stands, UpdateRule, DocumentRule, Holding, Updating, Restorable,
       Replaced
  <2> QED
    BY <2>1, <2>5, QuietEnough
<1>3. CASE Remember(p)
  <2>1. /\ at[p] = "remember" /\ at'[p] = "answered" /\ Changed(at, p)
        /\ UNCHANGED <<locked, staged, backup, task, others>>
    BY <1>0, <1>3 DEF Remember, Follow, FilesTyped, Changed
  <2>2. /\ begun \in 0..agent /\ moments[p] = begun..agent /\ task[p].lists \in begun..agent
        /\ GoodCache(task[p].cache) /\ agent \in Nat
        /\ task[p] = [stamp |-> begun, cache |-> task[p].cache, lists |-> task[p].lists]
    BY <1>0, <2>1 DEF ProbeRule, Probing, FilesTyped
  <2>3. Stands(p)'
    <3>1. ProbeRule(p)'
      BY <2>1, <2>2 DEF ProbeRule, Probing, others
    <3> QED
      BY <2>1, <3>1 DEF Stands, UpdateRule, DocumentRule, Holding, Updating, Restorable,
         Replaced
  <2>4. CASE UNCHANGED published
    <3>1. Quiet(p)
      BY <2>1, <2>4 DEF Quiet, Changed, others
    <3> QED
      BY <2>3, <3>1, QuietEnough
  <2>5. ASSUME NEW kept, kept = NoEntries \/ kept = task[p].cache,
               Publish("modes", Whole([s \in DOMAIN kept \cup {begun} |->
                                         IF s = begun THEN task[p].lists ELSE kept[s]]))
        PROVE  FilesInv'
    <3> DEFINE cache == [s \in DOMAIN kept \cup {begun} |->
                           IF s = begun THEN task[p].lists ELSE kept[s]]
    <3>1. GoodCache(kept)
      BY <2>2, <2>5 DEF GoodCache, NoEntries
    <3>2. GoodCache(cache)
      BY <2>2, <3>1 DEF GoodCache
    <3> HIDE DEF cache
    <3>3. CacheFile(Whole(cache))
      BY <3>2 DEF CacheFile, Whole
    <3>4. FilesTyped' /\ NamedRule' /\ Alone(p)
      BY <2>1, <2>5, <3>3, PublishStep DEF Publishable, cache
    <3> QED
      BY <2>3, <3>4, OthersStand
  <2> QED
    BY <1>3, <2>4, <2>5 DEF Remember
<1>4. CASE Launch(p)
  <2>1. Quiet(p)
    BY <1>4 DEF Launch, Follow, Quiet, Changed, others
  <2>2. at'[p] = "done"
    BY <1>0, <1>4 DEF Launch, Follow, FilesTyped
  <2> QED
    BY <2>1, <2>2, QuietEnough, OverStands DEF Over
<1> QED
  BY <1>1, <1>2, <1>3, <1>4 DEF Probe

\* An agent that is replaced makes no answer wrong.
LEMMA ReplaceStep ==
  ASSUME FilesInv, ReplaceAgent
  PROVE  FilesInv'
<1>1. /\ agent \in Nat /\ agent' = agent + 1
      /\ UNCHANGED <<entry, older, locked, at, staged, backup, task>>
      /\ moments' = [p \in Users |-> IF moments[p] = {} THEN {}
                                     ELSE moments[p] \cup {agent + 1}]
  BY DEF ReplaceAgent, FilesInv, FilesTyped, published
<1>2. \A cache : GoodCache(cache) => GoodCache(cache)'
  BY <1>1 DEF GoodCache
<1>3. FilesTyped'
  BY <1>1 DEF FilesInv, FilesTyped
<1>4. NamedRule'
  <2>1. \A file : CacheFile(file) => CacheFile(file)'
    BY <1>2 DEF CacheFile
  <2> QED
    BY <1>1, <2>1 DEF FilesInv, NamedRule, Named
<1>5. ASSUME NEW p \in Users PROVE Stands(p)'
  <2>1. ProbeRule(p)
    BY DEF FilesInv, Stands
  <2>2. ProbeRule(p)'
    <3>1. CASE at[p] \in Probing
      <4> DEFINE begun == task[p].stamp
      <4>1. begun \in 0..agent /\ moments[p] = begun..agent
        BY <2>1, <3>1 DEF ProbeRule
      <4>2. moments[p] # {} /\ begun..(agent + 1) = (begun..agent) \cup {agent + 1}
        BY <1>1, <4>1
      <4>3. moments'[p] = moments[p] \cup {agent + 1}
        BY <1>1, <4>2
      <4> HIDE DEF begun
      <4>4. moments'[p] = begun..(agent + 1)
        BY <4>1, <4>2, <4>3
      <4>5. begun \in 0..(agent + 1)
        <5>1. agent \in Nat
          BY <1>1
        <5> QED
          BY <4>1, <5>1
      <4> USE DEF begun
      <4> QED
        BY <1>1, <1>2, <2>1, <4>4, <4>5 DEF ProbeRule
    <3>2. CASE at[p] \notin Probing
      BY <1>1, <3>2 DEF ProbeRule, Probing
    <3> QED
      BY <3>1, <3>2
  <2> QED
    BY <1>1, <2>2 DEF FilesInv, Stands, UpdateRule, DocumentRule
<1> QED
  BY <1>3, <1>4, <1>5 DEF FilesInv

\* A power loss brings back only what a path named, whole if it was synchronised.
LEMMA LossStep ==
  ASSUME FilesInv, LosePower
  PROVE  FilesInv'
<1>0. FilesTyped /\ NamedRule
  BY DEF FilesInv
<1>1. /\ UNCHANGED <<agent, staged, backup, task, moments>> /\ locked' = Missing
      /\ older' = [path \in Paths |-> {}]
      /\ at' = [p \in Users |-> IF at[p] = "idle" THEN "idle" ELSE "killed"]
  BY DEF LosePower
<1>2. PICK binary \in AfterLoss("binary"), export \in AfterLoss("export"),
           modes \in AfterLoss("modes") :
        entry' = [path \in Paths |->
                    CASE path = "binary" -> binary
                      [] path = "export" -> export
                      [] path = "modes" -> modes
                      [] path \in Users -> Missing]
  BY DEF LosePower
<1>3. entry'["binary"] = binary /\ entry'["export"] = export /\ entry'["modes"] = modes
  BY <1>2, UsersAssumption DEF Paths
<1>4. binary \in Binaries
  BY <1>0 DEF AfterLoss, Survivors, NamedRule, Named, Binaries
<1>5. export \in Exports \cup {Missing}
  <2>1. PICK file \in Named("export") : export \in Survivors(file)
    BY DEF AfterLoss, Named
  <2>2. file = Missing \/ (file # Missing /\ file.durable)
    BY <1>0 DEF NamedRule, Exports
  <2>3. export = file
    BY <2>1, <2>2 DEF Survivors
  <2> QED
    BY <1>0, <2>3 DEF NamedRule
<1>6. CacheFile(modes)
  <2>1. PICK file \in Named("modes") : modes \in Survivors(file)
    BY DEF AfterLoss, Named
  <2>2. CacheFile(file)
    BY <1>0 DEF NamedRule
  <2>3. CASE modes = file
    BY <2>2, <2>3
  <2>4. CASE /\ file = [of |-> file.of, whole |-> file.whole, durable |-> file.durable]
             /\ GoodCache(file.of)
             /\ modes \in {Durable(file), Durable([file EXCEPT !.whole = FALSE])}
    BY <2>4 DEF CacheFile, Durable
  <2> QED
    BY <2>1, <2>2, <2>3, <2>4 DEF Survivors, CacheFile
<1>7. NamedRule'
  <2>1. /\ Named("binary")' = {binary} /\ Named("export")' = {export}
        /\ Named("modes")' = {modes}
    BY <1>1, <1>3 DEF Named, Paths
  <2>2. CacheFile(modes)'
    BY <1>1, <1>6 DEF CacheFile, GoodCache
  <2> QED
    BY <1>4, <1>5, <2>1, <2>2 DEF NamedRule
<1>8. FilesTyped'
  <2>1. entry' = [path \in Paths |-> entry'[path]]
    <3> DEFINE found(path) == CASE path = "binary" -> binary
                                [] path = "export" -> export
                                [] path = "modes" -> modes
                                [] path \in Users -> Missing
    <3>1. entry' = [path \in Paths |-> found(path)]
      BY <1>2
    <3> HIDE DEF found
    <3> QED
      BY <3>1
  <2>2. older' = [path \in Paths |-> older'[path]] /\ at' = [p \in Users |-> at'[p]]
    BY <1>1
  <2> QED
    BY <1>0, <1>1, <2>1, <2>2 DEF FilesTyped
<1>9. ASSUME NEW p \in Users PROVE Stands(p)'
  <2>1. at'[p] \in {"idle", "killed"}
    BY <1>1
  <2> QED
    BY <2>1 DEF Stands, UpdateRule, DocumentRule, ProbeRule, Holding, Updating, Restorable,
       Replaced, Probing
<1> QED
  BY <1>7, <1>8, <1>9 DEF FilesInv

\* The invariant holds initially and every step preserves it.
LEMMA FilesInvariant == FilesSpec => []FilesInv
<1>1. FilesInit => FilesInv
  <2> SUFFICES ASSUME FilesInit PROVE FilesInv
    OBVIOUS
  <2> USE DEF FilesInit, FilesFrom
  <2>1. Durable(Whole(Installed)) \in Binaries
    BY ReleasesAssumption DEF Durable, Whole, Binaries
  <2>2. NamedRule
    BY <2>1 DEF NamedRule, Named, CacheFile, Paths
  <2>3. FilesTyped
    BY DEF FilesTyped
  <2>4. \A p \in Users : Stands(p)
    BY DEF Stands, UpdateRule, DocumentRule, ProbeRule, Holding, Updating, Restorable,
       Replaced, Probing
  <2> QED
    BY <2>2, <2>3, <2>4 DEF FilesInv
<1>2. ASSUME FilesInv, [FilesNext]_fileVars PROVE FilesInv'
  <2>1. CASE UNCHANGED fileVars
    <3>1. NamedRule'
      BY <1>2, <2>1, NothingPublished DEF fileVars, published
    <3>2. FilesTyped'
      BY <1>2, <2>1 DEF fileVars, FilesInv, FilesTyped, published, others
    <3>3. \A p \in Users : Stands(p)'
      BY <1>2, <2>1 DEF fileVars, FilesInv, Stands, UpdateRule, DocumentRule, ProbeRule,
         GoodCache, published, others
    <3> QED
      BY <3>1, <3>2, <3>3 DEF FilesInv
  <2>2. ASSUME NEW p \in Users, KillUser(p) PROVE FilesInv'
    <3>1. Quiet(p)
      BY <2>2 DEF KillUser, Quiet, Changed, others
    <3>2. at'[p] = "killed"
      BY <1>2, <2>2 DEF KillUser, FilesInv, FilesTyped
    <3> QED
      BY <1>2, <3>1, <3>2, QuietEnough, OverStands DEF Over
  <2> QED
    BY <1>2, <2>1, <2>2, UpdateStep, ExportStep, HandoffStep, ProbeStep, ReplaceStep,
       LossStep
    DEF FilesNext
<1> QED
  BY <1>1, <1>2, PTL DEF FilesSpec

\* Whatever is killed and whenever the power goes, omni's path names a binary that ran, an
\* export is whole or not there, and a handoff that was named is whole.
THEOREM NothingPartialIsPublished == FilesSpec => []PublishedFilesAreWhole
<1>1. FilesInv => PublishedFilesAreWhole
  BY DEF FilesInv, NamedRule, Named, Binaries, Exports, Stands, DocumentRule, Durable,
     Whole,
     PublishedFilesAreWhole
<1> QED
  BY <1>1, FilesInvariant, PTL

\* A step moves only the process that takes it.
LEMMA Movers ==
  ASSUME NEW p \in Users, Update(p) \/ Export(p) \/ KeepHandoff(p) \/ FillClipboard(p)
                            \/ Probe(p) \/ KillUser(p)
  PROVE  Changed(at, p)
<1>1. CASE Update(p)
  BY <1>1 DEF Update, BeginUpdate, Lock, Download, Stage, Sync, VerifyStaged, Backup,
     PublishBinary, SyncDirectory, CheckPublished, Distrust, RestoreBackup, Fail, Follow,
     Changed
<1>2. CASE Export(p)
  BY <1>2 DEF Export, RefuseExport, BeginExport, Stage, Sync, PublishExport, Fail, Follow,
     Changed
<1>3. CASE KeepHandoff(p) \/ FillClipboard(p)
  BY <1>3 DEF KeepHandoff, Handoff, FillClipboard, Follow, Changed
<1>4. CASE Probe(p)
  BY <1>4 DEF Probe, Identify, LookUp, AskHelp, Remember, Launch, Follow, Changed
<1>5. CASE KillUser(p)
  BY <1>5 DEF KillUser, Changed
<1> QED
  BY <1>1, <1>2, <1>3, <1>4, <1>5

\* The steps by which an update and an export succeed.
LEMMA LastSteps ==
  ASSUME FilesTyped, [FilesNext]_fileVars, NEW p \in Users,
         at[p] \in {"check", "export_publish"}, at'[p] = "done"
  PROVE  CheckPublished(p) \/ PublishExport(p)
<1>1. ~ UNCHANGED at
  OBVIOUS
<1>2. ~ ReplaceAgent /\ ~ LosePower
  BY <1>1 DEF ReplaceAgent, LosePower
<1>3. PICK q \in Users : \/ Update(q) \/ Export(q) \/ KeepHandoff(q) \/ FillClipboard(q)
                         \/ Probe(q) \/ KillUser(q)
  BY <1>1, <1>2 DEF FilesNext, fileVars
<1>4. q = p
  BY <1>3, Movers DEF Changed, FilesTyped
<1>5. ASSUME NEW here, NEW there, Follow(p, here, there)
      PROVE  here = at[p] /\ there = "done"
  BY <1>5 DEF Follow, FilesTyped
<1>6. CASE Update(p)
  BY <1>5, <1>6 DEF Update, BeginUpdate, Lock, Download, Stage, Sync, VerifyStaged, Backup,
     PublishBinary, SyncDirectory, Distrust, RestoreBackup, Fail
<1>7. CASE Export(p)
  BY <1>5, <1>7 DEF Export, RefuseExport, BeginExport, Stage, Sync, Fail
<1>8. CASE KeepHandoff(p) \/ FillClipboard(p)
  BY <1>5, <1>8 DEF KeepHandoff, Handoff, FillClipboard
<1>9. CASE Probe(p)
  BY <1>5, <1>9 DEF Probe, Identify, LookUp, AskHelp, Remember, Launch
<1>10. CASE KillUser(p)
  BY <1>10 DEF KillUser, FilesTyped
<1> QED
  BY <1>3, <1>4, <1>6, <1>7, <1>8, <1>9, <1>10

\* An undone update takes back only its own binary, one that succeeds survives a power loss,
\* an export replaces nothing, and a launch uses modes that the agent lists.
THEOREM UpdatesKeepTheirs == FilesSpec => PublishingIsExact
<1>1. ASSUME FilesInv, [FilesNext]_fileVars, NEW p \in Users PROVE PublishesExactly(p)
  <2>0. FilesTyped /\ NamedRule /\ UpdateRule(p) /\ ProbeRule(p)
    BY <1>1 DEF FilesInv, Stands
  <2>1. at[p] = "restore" => entry["binary"].of = task[p].version
    BY <2>0 DEF UpdateRule, Replaced, Durable, Whole
  <2>2. at[p] = "answered" => task[p].lists \in moments[p] \cup {Missing}
    BY <2>0 DEF ProbeRule, Probing
  <2>3. ASSUME at[p] \in {"check", "export_publish"}, at'[p] = "done"
        PROVE  CheckPublished(p) \/ PublishExport(p)
    BY <1>1, <2>0, <2>3, LastSteps
  <2>4. ASSUME at[p] = "check", at'[p] = "done"
        PROVE  AfterLoss("binary")' = {Durable(Whole(task[p].version))}
    <3>1. /\ entry' = entry /\ older' = older
          /\ entry["binary"] = Durable(Whole(task[p].version)) /\ older["binary"] = {}
      BY <2>0, <2>3, <2>4 DEF UpdateRule, Replaced, CheckPublished, PublishExport, Follow,
         published
    <3>2. entry["binary"].durable
      BY <3>1 DEF Durable, Whole
    <3> QED
      BY <3>1, <3>2 DEF AfterLoss, Survivors
  <2>5. ASSUME at[p] = "export_publish", at'[p] = "done" PROVE entry["export"] = Missing
    BY <2>3, <2>5 DEF CheckPublished, PublishExport, Follow, MayPublish
  <2> QED
    BY <2>1, <2>2, <2>4, <2>5 DEF PublishesExactly
<1>2. FilesInv /\ [FilesNext]_fileVars => [\A p \in Users : PublishesExactly(p)]_fileVars
  BY <1>1
<1> QED
  BY <1>2, FilesInvariant, PTL DEF FilesSpec, PublishingIsExact
==============================================================================
