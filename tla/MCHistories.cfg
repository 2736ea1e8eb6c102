\* Every conversation of at most four entries (and a fifth that answers a call), in which the
\* user goes back at most once, through two transfers.  A message is one character
\* and a tool record two: the smaller limits leave out tool records, and messages, of
\* the longer conversations.
CONSTANTS
  Agents <- Sources
  Targets <- Writable
  MaxEntries <- Lengths
  LateAnswers = {"claude"}
  MaxRewinds = 1
  MaxHops = 2
  Limits <- Rooms
  PreviewRooms <- Samples
  CodexToolLimit = 1
  CodexInterval = 3
  DocumentEdge = 5
  ToolEdge = 2
  NoticeSize = 2
  RecentMessages = 2
  RecentOutcomes = 1
  ExportTools = 2
  ExportRoom = 3
  CompactFirst = 2
  CompactLast = 1
  CompactRooms = {3, 5}
SPECIFICATION Spec
INVARIANTS
  ReadShowsThread
  ToolsAnswerTheirCalls
  NothingLostSilently
  ReadBackVerifies
\* The model stops after the last transfer, and where Pi cannot be read.
CHECK_DEADLOCK FALSE
