SPECIFICATION Spec
CONSTANTS
  OneShot = TRUE
  Callers = {c1, c2}
  Ops = {"add", "remove", "pause"}
  Tasks = {t1}
  Objects = {o1}
  Threads = {h1, h2, h3}
  MaxStarts = 3
  Absorbs = TRUE
  Faults = TRUE
  None = None
SYMMETRY Symmetry
INVARIANTS FiresAtMostOnce NeverForgotten
CHECK_DEADLOCK FALSE
