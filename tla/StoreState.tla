----------------------------- MODULE StoreState -----------------------------
(* The files and rows one session has in a provider's private store, and the one *)
(* omni command that works on them under the lock of the provider root.          *)
EXTENDS Naturals, Sequences, SequencesExt

CONSTANTS
  Kinds,       \* the providers whose store is looked at
  MaxCommands  \* bound on the commands that run one after the other

Parts ==
  [claude |-> <<"transcript", "sidecar">>, pi |-> <<"file">>,
   cursor_cli |-> <<"database", "metadata">>,
   antigravity |-> <<"conversation", "brain", "row">>,
   cursor_ide |-> <<"records">>, codex |-> <<"thread">>, grok |-> <<"thread">>,
   opencode |-> <<"thread">>, hermes |-> <<"thread">>]

ASSUME StoresAssumption == Kinds \subseteq DOMAIN Parts /\ MaxCommands \in Nat

VARIABLES
  kind,
  disk,      \* what is stored under each name
  aside,     \* what is stored under the staging name that belongs to it
  agent,     \* whether the provider's own program runs
  knows,     \* it has opened this session
  command,   \* the last command omni began
  pc,        \* its next step, "idle" when it has ended
  locals,    \* its local variables, and whether an error told of missing parts (owed)
  outcome,   \* how it ended
  count

vars == <<kind, disk, aside, agent, knows, command, pc, locals, outcome, count>>
store == <<disk, aside>>
around == <<kind, agent, knows, command, count>>

Names == {"transcript", "sidecar", "file", "database", "metadata", "conversation",
          "brain", "row", "records", "thread", "blob", "selection", "elsewhere"}

\* "made": as omni generated it; "grown": with a turn of the agent; "new": only a turn of
\* the agent, under a name that omni had emptied.
Generated == {"made", "grown"}
Contents == Generated \cup {"none", "new"}

Mine == ToSet(Parts[kind])

\* The provider lists the session by this part.
Listing ==
  [claude |-> "transcript", pi |-> "file", cursor_cli |-> "metadata",
   antigravity |-> "row", cursor_ide |-> "records", codex |-> "thread",
   grok |-> "thread", opencode |-> "thread", hermes |-> "thread"]

Listed == disk[Listing[kind]] \in Generated

\* What the session cannot be read without.
Needed ==
  [k \in DOMAIN Parts |->
     IF k = "cursor_cli" THEN {"database"}
     ELSE IF k = "antigravity" THEN {"conversation"} ELSE {}]

Empty == [plan |-> <<>>, moved |-> 0, bad |-> FALSE, goal |-> "none", found |-> "none",
          created |-> FALSE, owed |-> FALSE]

StoreInit ==
  /\ kind \in Kinds
  /\ \E blob \in IF kind = "cursor_ide" THEN {"none", "theirs"} ELSE {"none"} :
       disk = [n \in Names |->
                 IF n = "blob" THEN blob
                 ELSE IF n \in {"selection", "elsewhere"} THEN "before" ELSE "none"]
  /\ aside = [n \in Names |-> "none"]
  /\ agent = "closed" /\ knows = FALSE
  /\ command = "none" /\ pc = "idle" /\ outcome = "none"
  /\ locals = Empty /\ count = 0

-----------------------------------------------------------------------------

\* The entries of a deletion plan that are there, in its order.
Only(n, there) == IF n \in there THEN <<n>> ELSE <<>>
InOrder(first, second, there) == Only(first, there) \o Only(second, there)

Existing == {n \in Names : disk[n] # "none"}

Put(n, content) == disk' = [disk EXCEPT ![n] = content]

\* rename(2) to the staging name, and back.
SetAside(n) ==
  /\ disk[n] # "none"
  /\ aside' = [aside EXCEPT ![n] = disk[n]] /\ Put(n, "none")

PutBack(n) ==
  /\ aside[n] # "none"
  /\ Put(n, aside[n]) /\ aside' = [aside EXCEPT ![n] = "none"]

Goto(here, there) == pc = here /\ pc' = there /\ UNCHANGED <<around, outcome>>

Step(here, there) == Goto(here, there) /\ UNCHANGED locals

End(here, result) ==
  /\ pc = here /\ pc' = "idle" /\ outcome' = result
  /\ UNCHANGED <<around, locals>>

\* The error says that something could not be put back (RollbackFailed, or its text).
EndBadly(here) ==
  /\ pc = here /\ pc' = "idle" /\ outcome' = "not_restored"
  /\ locals' = [locals EXCEPT !.owed = TRUE]
  /\ UNCHANGED around

\* What a rollback is for: an import that failed, or one the flow takes back.
AimAt(goal) == locals' = [locals EXCEPT !.goal = goal]

\* The provider's program must be closed: otherwise an import or a deletion is refused,
\* and the session of an import that was to be taken back stays.
Checked ==
  \/ agent = "closed" /\ Step("check", command)
  \/ agent = "open" /\ command # "undo" /\ End("check", "failed")
  \/ agent = "open" /\ command = "undo" /\ EndBadly("check")

Begin(what, first) ==
  /\ pc = "idle" /\ count < MaxCommands
  /\ command' = what /\ pc' = first /\ count' = count + 1
  /\ outcome' = "running"
  /\ UNCHANGED <<kind, agent, knows, store>>
==============================================================================
