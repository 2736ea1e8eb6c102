\* Four commands at once over one task with two branches.
SPECIFICATION Spec
CONSTANTS
  Procs = {p1, p2, p3, p4}
  Natives = {s1}
  Tasks = {t1}
  Branches = {b1, b2}
  NoTask = NoTask
  NoSession = NoSession
  Commands <- AllCommands
SYMMETRY Symmetry
INVARIANTS
  TypeOK
  HeadIsNewestRow
  ReplacedIsPrevious
PROPERTIES
  WritesAreExact
  UndoRestoresReplacedHead
CHECK_DEADLOCK FALSE
