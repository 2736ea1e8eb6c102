\* A command of every kind with its retry, and two commands that import into one
\* locked provider root at once.
SPECIFICATION RunSpec
CONSTANTS
  Procs = {p1, p2}
  Kinds <- EveryKind
  MaxAttempts = 2
  NoProc = NoProc
INVARIANTS
  TypeOK
  LockedTargetSurvives
  NothingLeftBeforeSecondTransfer
  
  
PROPERTIES
  InterruptStops
  EndsOrAsks
CHECK_DEADLOCK FALSE
