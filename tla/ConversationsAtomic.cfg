SPECIFICATION Spec
CONSTANTS
  pair = pair
  Pairs = {pair}
  Convs = {c1, c2}
  PairOf <- OnePair
  Msgs = {m1}
  Callers = {p1, p2}
  MaxOps = 4
  MayCrash = FALSE
  Index = Index
  Missing = Missing
  Blank = Blank
  Garbled = Garbled
INVARIANT WritesAreAtomic
CHECK_DEADLOCK FALSE
