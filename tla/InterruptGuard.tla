---------------------------- MODULE InterruptGuard ----------------------------
(* The guard that turns Ctrl+C into a request (interrupt.rs), with the actions  *)
(* of the signal handler as steps of their own: the handler may run on another  *)
(* thread than the command, which works in rounds (the attempts of an import,   *)
(* or one indexing pass), each under a guard.                                   *)
EXTENDS Naturals

CONSTANTS
  Presses,  \* the Ctrl+C there are
  Rounds    \* how often the command installs a guard (a bound)

VARIABLES
  requested,      \* the flag the command reads
  defaultAction,  \* the flag that makes a Ctrl+C end the process
  command,        \* where the command is
  round,          \* the guards installed so far
  handler,        \* [press -> the next action of its handler]
  began,          \* history: [press -> the round whose guard was armed when it arrived]
  answered        \* history: the presses whose handlers ran to their end in this round

guardVars == <<requested, defaultAction, command, round, handler, began, answered>>

Armed == {"working", "finishing"}

GuardInit ==
  /\ requested = FALSE /\ defaultAction = TRUE
  /\ command = "starting" /\ round = 0
  /\ handler = [c \in Presses |-> "none"]
  /\ began = [c \in Presses |-> 0] /\ answered = {}

GuardIdle ==
  /\ requested = FALSE /\ defaultAction = TRUE /\ command = "ended" /\ round = Rounds
  /\ handler = [c \in Presses |-> "done"] /\ began = [c \in Presses |-> 0] /\ answered = {}

Running == command \notin {"ended", "interrupted", "killed"}

\* begin: the request is cleared, then the default action is put off.
ClearRequest ==
  /\ command = "starting" /\ round < Rounds
  /\ command' = "arming" /\ round' = round + 1
  /\ requested' = FALSE /\ answered' = {}
  /\ UNCHANGED <<defaultAction, handler, began>>

Arm ==
  /\ command = "arming" /\ command' = "working"
  /\ defaultAction' = FALSE
  /\ UNCHANGED <<requested, round, handler, began, answered>>

\* The work ends, or a checkpoint finds the request.
StopWorking ==
  /\ command = "working" /\ command' = "finishing"
  /\ UNCHANGED <<requested, defaultAction, round, handler, began, answered>>

\* A mutant of Rearm: finish reads the request and leaves the flag as it is.
Disregard ==
  /\ command = "finishing" /\ command' = "rearmed"
  /\ UNCHANGED <<requested, defaultAction, round, handler, began, answered>>

\* finish: the default action is restored, then the request is read.
Rearm ==
  /\ command = "finishing" /\ command' = "rearmed"
  /\ defaultAction' = TRUE
  /\ UNCHANGED <<requested, round, handler, began, answered>>

ReadRequest ==
  /\ command = "rearmed"
  /\ command' = IF requested THEN "interrupted" ELSE "unguarded"
  /\ UNCHANGED <<requested, defaultAction, round, handler, began, answered>>

\* The agent is launched or the outcome reported, or another attempt begins.
GoOn ==
  /\ command = "unguarded" /\ command' \in {"starting", "ended"}
  /\ UNCHANGED <<requested, defaultAction, round, handler, began, answered>>

\* register: the handler's three actions, in the order of their registration.
Arrive(c) ==
  /\ Running /\ handler[c] = "none"
  /\ \/ defaultAction /\ command' = "killed" /\ handler' = [handler EXCEPT ![c] = "done"]
     \/ ~defaultAction /\ handler' = [handler EXCEPT ![c] = "arm"] /\ UNCHANGED command
  /\ began' = [began EXCEPT ![c] = round]
  /\ UNCHANGED <<requested, defaultAction, round, answered>>

ArmDefault(c) ==
  /\ Running /\ handler[c] = "arm"
  /\ handler' = [handler EXCEPT ![c] = "request"]
  /\ defaultAction' = TRUE
  /\ UNCHANGED <<requested, command, round, began, answered>>

Request(c) ==
  /\ Running /\ handler[c] = "request"
  /\ handler' = [handler EXCEPT ![c] = "done"]
  /\ requested' = TRUE /\ answered' = answered \cup {c}
  /\ UNCHANGED <<defaultAction, command, round, began>>

GuardNext ==
  \/ ClearRequest \/ Arm \/ StopWorking \/ Rearm \/ ReadRequest \/ GoOn
  \/ \E c \in Presses : Arrive(c) \/ ArmDefault(c) \/ Request(c)

GuardSpec == GuardInit /\ [][GuardNext]_guardVars

\* A Ctrl+C is never swallowed: one that arrives after the default action was restored, or
\* after another of the same guard was answered, ends the process; and finish reports one
\* whose handler ran to its end under its guard.  (One whose handler is on another thread
\* and still running when finish reads the flag may be lost.)
InterruptsAreSeen ==
  [][/\ \A c \in Presses :
          handler[c] = "none" /\ handler'[c] # "none"
            /\ \/ command \notin Armed
               \/ \E earlier \in answered : began[earlier] = round
          => command' = "killed"
     /\ command = "rearmed" /\ command' = "unguarded" => answered = {}]_guardVars
==============================================================================
