\* Two interrupted imports of one branch, their undos in either order.
SPECIFICATION Spec
CONSTANTS
  Procs = {p1, p2, p3}
  Natives = {s1, s2}
  Tasks = {t1}
  Branches = {b1}
  NoTask = NoTask
  NoSession = NoSession
  Commands <- UndoCommands
SYMMETRY Symmetry
PROPERTY
  UndoAsDocumented
CHECK_DEADLOCK FALSE
