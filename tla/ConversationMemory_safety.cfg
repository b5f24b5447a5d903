CONSTANTS
  MaxRuns = 3
  MaxSessions = 2
  MaxDrafts = 1
  MaxFaults = 1
  MaxAtWork = 2
  LoadLimit = 3
  HistoryLimit = 3
  Trigger = 2
  KeepRecent = 1
SPECIFICATION Spec
\* The bounded runs come to an end.
CHECK_DEADLOCK FALSE
INVARIANTS
  TypeOK
  SummariesAreWhole
  ForksAreClean
  DraftsAreKept
PROPERTIES
  ConversationIsSeen
  AbortedFlushIsSilent
