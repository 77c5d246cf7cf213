SPECIFICATION Spec
CONSTANTS
  OneShot = FALSE
  Callers = {c1, c2}
  Ops = {"add", "remove", "pause", "resume"}
  Tasks = {t1, t2}
  Objects = {o1, o2}
  Threads = {h1, h2}
  MaxStarts = 2
  Absorbs = TRUE
  Faults = TRUE
  None = None
SYMMETRY Symmetry
INVARIANTS OnlyRegisteredRuns ScheduledIffEnabled
CHECK_DEADLOCK FALSE
