\* An older and a newer binary, one session that changes once, and a bundle of it.
SPECIFICATION Spec
CONSTANTS
  p1 = p1
  p2 = p2
  s1 = s1
  b1 = b1
  Procs = {p1, p2}
  Native = {s1}
  Bundles = {b1}
  SourceOf <- OneSource
  VersionOf <- OldAndNew
  Scenarios <- Meetings
  Versions = {1, 2}
  MaxTime = 2
  BundleTime = 1
  PageLimit = 2
  ChunkIds = {1, 2, 3}
INVARIANTS
  SearchFindsOwnText
PROPERTIES
  NewerTextStays
  OmissionProvesDeletion
  ProtectedSurvives
  SearchCatchesUp
CHECK_DEADLOCK FALSE
