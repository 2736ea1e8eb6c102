---------------------------- MODULE MCSearchStore ----------------------------
(* SearchStore with one native session, one bundle of it, an old and a new binary. *)
EXTENDS SearchStore

CONSTANTS p1, p2, s1, b1

OneSource == b1 :> s1
OldAndNew == p1 :> 1 @@ p2 :> 2

Pair(first, second, faults) ==
  [runs |-> p1 :> first @@ p2 :> second, faults |-> faults]

\* Every pair of commands that meet, with the failures that concern them.
Meetings ==
  {Pair({"discover"}, {"index"}, {"crash"}),
   Pair({}, {"index"}, {"crash", "busy", "damage", "unreadable"}),
   Pair({"open"}, {"index"}, {"damage"}),
   Pair({"import"}, {"index"}, {"crash"}),
   Pair({"delete"}, {"index"}, {}),
   Pair({"index"}, {"index"}, {}),
   Pair({}, {"index"}, {"legacy"})}
==============================================================================
