SPECIFICATION FairSpec
CONSTANTS
  N = 4
  Unknown = 0
  Graphs <- MCGraphs
INVARIANTS
  VerdictIsRight
  DependenciesFirst
PROPERTIES
  RunsEnd
CHECK_DEADLOCK FALSE
