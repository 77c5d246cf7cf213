SPECIFICATION AskFairSpec
CONSTANTS
  Sessions = {s1, s2}
  People = {p1, p2}
  Answers = {yes, no}
  MaxPolls = 2
  MaxAsks = 2
  None = None
  Torn = Torn
INVARIANTS NoStaleQuestion AnsweredByTheOneAsked
PROPERTIES CapturedReachesAgent EveryAskEnds
CHECK_DEADLOCK FALSE
