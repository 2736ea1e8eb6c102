\* Three workers, more items than they may read ahead; two commands and two agent updates
\* around a power loss; three Ctrl+C over two guards.
SPECIFICATION WorkSpec
CONSTANTS
  Workers = {w1, w2, w3}
  Items = 5
  Ahead = 3
  Users = {p1, p2}
  Releases = {1, 2, 3}
  Installed = 1
  AgentUpdates = 2
  PowerLosses = 1
  MaxCached = 1
  Missing = Missing
  Presses = {c1, c2, c3}
  Rounds = 2
INVARIANTS
  DistanceKept
  NothingLost
  EarlyEndHasReason
  PublishedFilesAreWhole
PROPERTIES
  ScopeEnds
  PublishingIsExact
  InterruptsAreSeen
CHECK_DEADLOCK FALSE
