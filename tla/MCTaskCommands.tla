--------------------------- MODULE MCTaskCommands ----------------------------
(* TaskCommands on a small instance: the processes, and the sessions that exist *)
(* at the start, are interchangeable.                                           *)
EXTENDS TaskCommands, TLC

AllCommands == CommandNames
UndoCommands == {"start", "switch"}
MovingCommands == {"start", "bind", "switch"}

Symmetry == Permutations(Procs) \cup Permutations(Natives)
==============================================================================
