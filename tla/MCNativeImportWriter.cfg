\* One import by a writer that holds the lock of its provider root.
SPECIFICATION Spec
CONSTANTS
  Procs = {p1}
  Kinds <- OneLockedKind
  MaxAttempts = 1
  NoProc = NoProc
INVARIANT
  LockedWriterErrsClean
CHECK_DEADLOCK FALSE
