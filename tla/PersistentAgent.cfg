SPECIFICATION FairSpec
CONSTANTS
  normal1 = normal1
  normal2 = normal2
  urgent = urgent
  None = None
  Requests <- MCRequests
  Priority <- MCPriority
  MaxSize = 1
CHECK_DEADLOCK FALSE
INVARIANTS
  Accounting
  NoLostWakeup
  NoLimbo
  SavedAtRest
PROPERTIES
  ImplementsLifecycle
  EverySubmitterAnswered
  StopEndsOrCancelLost
