SPECIFICATION FairSpec
CONSTANTS
  SummaryThreshold = 4
  KeepLast = 2
  MaxSteps = 2
  MaxErrors = 2
  StuckLimit = 2
  RepeatLimit = 1
  MaxNudges = 1
  MaxPivots = 1
  MaxBatch = 2
  MaxPast = 1
  MaxUser = 2
  MaxUnread = 3
  MaxRuns = 2
INVARIANTS
  EveryCallAnswered
  QuestionsAnsweredByUser
  Resumable
  VerdictMatchesDisk
  
PROPERTIES
  RunsEnd
CHECK_DEADLOCK FALSE
