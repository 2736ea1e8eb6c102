\* Commands that read a head, work, and then replace it.
SPECIFICATION Spec
CONSTANTS
  Procs = {p1, p2, p3}
  Natives = {s1, s2}
  Tasks = {t1}
  Branches = {b1}
  NoTask = NoTask
  NoSession = NoSession
  Commands <- MovingCommands
SYMMETRY Symmetry
PROPERTY
  MovedHeadNeverReplaced
CHECK_DEADLOCK FALSE
