\* A guarded deletion in Codex, verified by the same registry that found the session.
SPECIFICATION RunSpec
CONSTANTS
  Kinds = {"pi"}
  MaxCommands = 4
  Providers = {"codex"}
  Readers = {1}
  Limits = {4}
  Tries = 1
  MaxChanges <- Bounds
INVARIANT
  DeletionIsVerified
CHECK_DEADLOCK FALSE
