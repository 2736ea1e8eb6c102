--------------------------- MODULE AtomicSessions ----------------------------
(* What the commands that write a provider's private store promise of one session,  *)
(* however many files and databases it is made of: to everybody who lists sessions  *)
(* it is there as a whole or not at all, at every moment and wherever omni stops.   *)
VARIABLES
  view,   \* the session as its provider shows it: "none", "whole" or "damaged"
  owed,   \* somebody knows, or will be told, that something is not in its place
  answer  \* what the last command said: the session is "there", "gone", or neither

vars == <<view, owed, answer>>

Init == view = "none" /\ ~owed /\ answer = "open"

TypeOK ==
  /\ view \in {"none", "whole", "damaged"}
  /\ owed \in BOOLEAN
  /\ answer \in {"there", "gone", "open"}

Appear == view # "whole" /\ view' = "whole"
Disappear == view # "none" /\ view' = "none"
Damage == view # "damaged" /\ view' = "damaged"

\* A session is in pieces only as long as that is owed.
Excused == view' = "damaged" => owed'

\* An answer is true when it is given.
Truthful ==
  /\ answer' # answer /\ answer' = "there" => view' = "whole"
  /\ answer' # answer /\ answer' = "gone" => view' = "none"

Next ==
  /\ Appear \/ Disappear \/ Damage \/ view' = view
  /\ owed' \in BOOLEAN
  /\ answer' \in {"there", "gone", "open"}
  /\ Excused /\ Truthful

Spec == Init /\ [][Next]_vars
==============================================================================
