SPECIFICATION Spec
CONSTANTS
  x = x
  y = y
  None = None
  Files = {x, y}
  Key <- MCKey
  Batches <- MCBatches
  MaxLen = 3
  MaxParallel = 2
  MaxChanges = 1
  Slots = {s1, s2}
SYMMETRY SlotsAlike
INVARIANTS
  CacheTrustworthy
  ReadYourWrites
CHECK_DEADLOCK FALSE
