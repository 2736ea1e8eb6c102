\* What omni writes in the private stores, and how it lists eleven kinds of stores.
SPECIFICATION RunSpec
CONSTANTS
  Kinds = {"claude", "pi", "cursor_cli", "antigravity", "cursor_ide",
           "codex", "grok", "opencode", "hermes"}
  MaxCommands = 4
  Providers = {"codex", "claude", "pi", "cursor_cli", "grok", "antigravity_ide",
               "antigravity_desktop", "opencode", "antigravity", "cursor_ide", "hermes"}
  Readers = {1, 2}
  Limits = {1, 4}
  Tries = 2
  MaxChanges <- Bounds
INVARIANTS
  
  CacheIsFresh
  AnswersAreTrue
PROPERTIES
  ListedIsWhole
  NothingLost
  ListingIsTrue
CHECK_DEADLOCK FALSE
