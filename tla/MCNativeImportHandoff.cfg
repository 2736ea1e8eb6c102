\* One import through a provider helper, from a script.
SPECIFICATION Spec
CONSTANTS
  Procs = {p1}
  Kinds <- OneHelpedKind
  MaxAttempts = 1
  NoProc = NoProc
INVARIANT
  NoHandoffWhileSessionRemains
CHECK_DEADLOCK FALSE
