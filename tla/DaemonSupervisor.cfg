SPECIFICATION FairSpec
CONSTANTS
  Sources <- TwoSources
  MaxDaemons = 3
  MaxBackoff = 3
  Factor = 2
  Cancellable = TRUE
INVARIANTS
  LeftoversExplained
  LostOnlyAtTheEdges
PROPERTIES
  ShutdownWins
  ShutdownEnds
CHECK_DEADLOCK FALSE
