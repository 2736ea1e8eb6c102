\* Nine meetings of keys and threads; three sessions need more rows and previews than there are.
SPECIFICATION Spec
CONSTANTS
  a = a
  b = b
  c = c
  claude = claude
  codex = codex
  q = q
  r = r
  f = f
  g = g
  claude1 = claude1
  codex1 = codex1
  Session = {a, b, c}
  Name <- Names3
  Provider = {claude, codex}
  ProviderOf <- Providers3
  Here = {a, b}
  Query = {q, r}
  NameMatches <- ByName
  TitleMatches <- ByTitle
  TextMatches <- ByText
  MaxTime = 5
  Target = {claude1, codex1}
  Targets <- Targets2
  AgentOf <- Agents2
  CanStart = {claude, codex}
  CanResume = {claude, codex}
  CanImport = {codex}
  Materialized = {}
  ModesOf <- Modes2
  Standing = 3
  Requested = 1
  Filter = {f, g}
  Score <- Scores2
  PageRows = 2
  NoTarget = NoTarget
  Clipboard = Clipboard
  NewSession = NewSession
  NoFilter = NoFilter
  Homeless = {b}
  RecordedBy <- Recorded
  Generations = {0, 1, 2, 3, 4, 5, 6, 7, 8}
  ListRows = 2
  PreviewCapacity = 2
  Blank = Blank
  Nobody = Nobody
  AnyProvider = AnyProvider
  Deletable = {claude}
  MaxUpdates = 2
  Scenarios <- Cases
INVARIANTS
  ListIsCurrent
  ParentsFirst
  DeletedStaysGone
  LaunchIsAsShown
PROPERTIES
  SelectionKept
  WorkCatchesUp
CHECK_DEADLOCK FALSE
