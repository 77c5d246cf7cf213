SPECIFICATION Spec
CONSTANTS
  pair = pair
  Pairs = {pair}
  Convs = {c1, c2}
  PairOf <- OnePair
  Msgs = {m1}
  Callers = {p1, p2}
  MaxOps = 4
  MayCrash = TRUE
  Index = Index
  Missing = Missing
  Blank = Blank
  Garbled = Garbled
SYMMETRY Symmetry
INVARIANTS
  OneActive
  LogKept
  IndexKept
CHECK_DEADLOCK FALSE
