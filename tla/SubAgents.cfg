SPECIFICATION FairSpec
CONSTANTS
  Root = Root
  first = first
  second = second
  nested = nested
  coder = coder
  tester = tester
  Spawns <- MCSpawns
  Parent <- MCParent
  Specialist <- MCSpecialist
  MaxSteps = 1
  MaxTurns = 2
  MaxInterrupts = 1
INVARIANTS
  FlagReachesChildren
PROPERTIES
  ReplayNeedsSibling
  EveryDelegationReturns
CHECK_DEADLOCK FALSE
