---------------------------- MODULE PrepareQueue -----------------------------
(***************************************************************************)
(* prepare_in_order of search_index.rs: worker threads read sessions ahead *)
(* of the calling thread, which takes their results in item order and      *)
(* writes the search index.                                                *)
(*                                                                         *)
(* The queue's mutex makes what a thread does while it holds it one step;  *)
(* a wait on a condition variable joins its set of waiters in that step,   *)
(* and every notification is a step of its own after the mutex is          *)
(* released.  Threads may wake up without one.                             *)
(***************************************************************************)
EXTENDS Naturals

CONSTANTS
  Workers,  \* the scoped threads
  Items,    \* the number of sessions to read
  Ahead     \* workers * PREPARED_AHEAD_PER_WORKER, a multiple of the workers

ASSUME WorkersAssumption == Workers # {}
ASSUME ItemsAssumption == Items \in Nat \ {0}
ASSUME AheadAssumption == Ahead \in Nat \ {0}

VARIABLES
  nextClaim,    \* next item a worker takes
  nextConsume,  \* next item the consumer handles
  ready,        \* the items whose results wait for the consumer
  closed,
  claimable,    \* the workers that wait on the condition variable claimable
  prepared,     \* the consumer waits on the condition variable prepared
  worker,       \* where each worker is
  item,         \* the item a worker took last
  consumer,     \* where the consumer is
  index,        \* the item of its loop
  stopped       \* history: consume returned false

vars == <<nextClaim, nextConsume, ready, closed, claimable, prepared, worker, item,
          consumer, index, stopped>>

WorkerSteps == {"claim", "prepare", "notify", "unwind", "unwound", "panicked", "done"}

ConsumerSteps ==
  {"take", "notify", "consume", "missing", "close", "closed", "join", "done", "panicked"}

\* A mutant of MustWait: the comparison is off by one.
MayOvertake ==
  ~closed /\ nextClaim < Items /\ nextClaim > nextConsume + Ahead

\* The predicate a worker waits while.
MustWait ==
  ~closed /\ nextClaim < Items /\ nextClaim >= nextConsume + Ahead

\* A mutant of HasResult: any result wakes the consumer for good.
HasAnyResult == ready # {}

HasResult == index \in ready

Init ==
  /\ nextClaim = 0 /\ nextConsume = 0 /\ ready = {} /\ closed = FALSE
  /\ claimable = {} /\ prepared = FALSE
  /\ worker = [w \in Workers |-> "claim"] /\ item = [w \in Workers |-> 0]
  /\ consumer = "take" /\ index = 0 /\ stopped = FALSE

WorkerGoto(w, here, there) == worker[w] = here /\ worker' = [worker EXCEPT ![w] = there]

ConsumerGoto(here, there) == consumer = here /\ consumer' = there

Calling == <<consumer, index, stopped>>

-----------------------------------------------------------------------------
(* A worker *)

Wait(w) ==
  /\ worker[w] = "claim" /\ w \notin claimable /\ MustWait
  /\ claimable' = claimable \cup {w}
  /\ UNCHANGED <<nextClaim, nextConsume, ready, closed, prepared, worker, item, Calling>>

\* A mutant of Claim: the end of the items is checked only before waiting.
ClaimBeyond(w) ==
  /\ w \notin claimable /\ ~MustWait /\ ~closed
  /\ WorkerGoto(w, "claim", "prepare")
  /\ nextClaim' = nextClaim + 1
  /\ item' = [item EXCEPT ![w] = nextClaim]
  /\ nextClaim <= Items
  /\ UNCHANGED <<nextConsume, ready, closed, claimable, prepared, Calling>>

Claim(w) ==
  /\ w \notin claimable /\ ~MustWait /\ ~closed /\ nextClaim # Items
  /\ WorkerGoto(w, "claim", "prepare")
  /\ nextClaim' = nextClaim + 1
  /\ item' = [item EXCEPT ![w] = nextClaim]
  /\ UNCHANGED <<nextConsume, ready, closed, claimable, prepared, Calling>>

Return(w) ==
  /\ w \notin claimable /\ (closed \/ nextClaim = Items)
  /\ WorkerGoto(w, "claim", "done")
  /\ UNCHANGED <<nextClaim, nextConsume, ready, closed, claimable, prepared, item, Calling>>

\* A mutant of Insert: only the result the consumer waits for is kept.
InsertUnlessEarly(w) ==
  /\ WorkerGoto(w, "prepare", "notify")
  /\ ready' = IF item[w] = index THEN ready \cup {item[w]} ELSE ready
  /\ UNCHANGED <<nextClaim, nextConsume, closed, claimable, prepared, item, Calling>>

Insert(w) ==
  /\ WorkerGoto(w, "prepare", "notify")
  /\ ready' = ready \cup {item[w]}
  /\ UNCHANGED <<nextClaim, nextConsume, closed, claimable, prepared, item, Calling>>

Notify(w) ==
  /\ WorkerGoto(w, "notify", "claim") \/ WorkerGoto(w, "unwound", "panicked")
  /\ prepared' = FALSE
  /\ UNCHANGED <<nextClaim, nextConsume, ready, closed, claimable, item, Calling>>

\* Reading a session panics, and CloseOnPanic closes the queue before it notifies.
Panic(w) ==
  /\ WorkerGoto(w, "prepare", "unwind")
  /\ UNCHANGED <<nextClaim, nextConsume, ready, closed, claimable, prepared, item, Calling>>

CloseOnPanic(w) ==
  /\ WorkerGoto(w, "unwind", "unwound")
  /\ closed' = TRUE
  /\ UNCHANGED <<nextClaim, nextConsume, ready, claimable, prepared, item, Calling>>

-----------------------------------------------------------------------------
(* The consumer: the calling thread *)

Threads == <<worker, item>>

WaitForResult ==
  /\ consumer = "take" /\ ~prepared /\ ~closed /\ ~HasResult
  /\ prepared' = TRUE
  /\ UNCHANGED <<nextClaim, nextConsume, ready, closed, claimable, Threads, Calling>>

Take ==
  /\ ~prepared /\ (closed \/ HasResult)
  /\ ConsumerGoto("take", IF index \in ready THEN "notify" ELSE "missing")
  /\ nextConsume' = index + 1
  /\ ready' = ready \ {index}
  /\ UNCHANGED <<nextClaim, closed, claimable, prepared, Threads, index, stopped>>

NotifyClaimable ==
  /\ ConsumerGoto("notify", "consume") \/ ConsumerGoto("missing", "close")
  /\ claimable' = {}
  /\ UNCHANGED <<nextClaim, nextConsume, ready, closed, prepared, Threads, index, stopped>>

Consume ==
  /\ ConsumerGoto("consume", IF index + 1 = Items THEN "close" ELSE "take")
  /\ index' = index + 1
  /\ UNCHANGED <<nextClaim, nextConsume, ready, closed, claimable, prepared, Threads, stopped>>

\* The stop callback asks to stop: consume returns false.
Stop ==
  /\ ConsumerGoto("consume", "close")
  /\ stopped' = TRUE
  /\ UNCHANGED <<nextClaim, nextConsume, ready, closed, claimable, prepared, Threads, index>>

\* Writing the index panics: the scope joins its threads without closing the queue.
ConsumerPanics ==
  /\ ConsumerGoto("consume", "panicked")
  /\ UNCHANGED <<nextClaim, nextConsume, ready, closed, claimable, prepared, Threads,
                 index, stopped>>

Close ==
  /\ ConsumerGoto("close", "closed")
  /\ closed' = TRUE
  /\ UNCHANGED <<nextClaim, nextConsume, ready, claimable, prepared, Threads, index, stopped>>

\* A mutant of NotifyClosed: the queue is closed without waking the workers up.
JoinSilently ==
  /\ ConsumerGoto("closed", "join")
  /\ UNCHANGED <<nextClaim, nextConsume, ready, closed, claimable, prepared, Threads,
                 index, stopped>>

NotifyClosed ==
  /\ ConsumerGoto("closed", "join")
  /\ claimable' = {}
  /\ UNCHANGED <<nextClaim, nextConsume, ready, closed, prepared, Threads, index, stopped>>

Ended(w) == worker[w] \in {"done", "panicked"}

Join ==
  /\ ConsumerGoto("join", "done") /\ \A w \in Workers : Ended(w)
  /\ UNCHANGED <<nextClaim, nextConsume, ready, closed, claimable, prepared, Threads,
                 index, stopped>>

\* A condition variable may wake a thread up without a notification.
WakeUp ==
  /\ \/ \E w \in claimable : claimable' = claimable \ {w} /\ UNCHANGED prepared
     \/ prepared /\ prepared' = FALSE /\ UNCHANGED claimable
  /\ UNCHANGED <<nextClaim, nextConsume, ready, closed, Threads, Calling>>

-----------------------------------------------------------------------------

WorkerStep(w) ==
  Wait(w) \/ Claim(w) \/ Return(w) \/ Insert(w) \/ Notify(w) \/ CloseOnPanic(w)

ConsumerStep ==
  \/ WaitForResult \/ Take \/ NotifyClaimable \/ Consume \/ Close \/ NotifyClosed \/ Join

Next ==
  \/ \E w \in Workers : WorkerStep(w) \/ Panic(w)
  \/ ConsumerStep \/ Stop \/ ConsumerPanics \/ WakeUp

\* A thread that is not waiting runs on; panics, stops and spurious wake-ups need not happen.
Fairness == WF_vars(ConsumerStep) /\ \A w \in Workers : WF_vars(WorkerStep(w))

Spec == Init /\ [][Next]_vars /\ Fairness

-----------------------------------------------------------------------------
(* Properties *)

\* The types: in particular no item beyond the last is taken.
TypeOK ==
  /\ nextClaim \in 0..Items /\ nextConsume \in 0..Items /\ index \in 0..Items
  /\ ready \subseteq 0..(Items - 1) /\ item \in [Workers -> 0..(Items - 1)]
  /\ closed \in BOOLEAN /\ prepared \in BOOLEAN /\ stopped \in BOOLEAN
  /\ claimable \subseteq Workers
  /\ worker \in [Workers -> WorkerSteps] /\ consumer \in ConsumerSteps

\* Workers stay within a fixed distance of the consumer, so the results that are held
\* or being prepared never number more than Ahead (PREPARED_AHEAD_PER_WORKER).
DistanceKept ==
  /\ nextClaim <= nextConsume + Ahead
  /\ \A i \in ready : i < nextClaim /\ (consumer = "take" => nextConsume <= i)

\* No claimed item is lost: until the consumer takes it, its result is ready, or one
\* worker is preparing it, or the worker that was has panicked.
NothingLost ==
  \A i \in nextConsume..(nextClaim - 1) :
    i \in ready \/ \E w \in Workers :
                     item[w] = i /\ worker[w] \in {"prepare", "unwind", "unwound", "panicked"}

\* The consumer leaves its loop early only when it was asked to or a worker panicked;
\* otherwise every item was consumed, in order.
EarlyEndHasReason ==
  consumer \in {"missing", "close", "closed", "join", "done"} =>
    \/ index = Items \/ stopped
    \/ \E w \in Workers : worker[w] \in {"unwound", "panicked"}

\* The scope ends, whatever panics or stops when, unless the consumer itself panics:
\* no notification is missed and nobody waits for a thread that is gone.
ScopeEnds == <>(consumer \in {"done", "panicked"})
==============================================================================
