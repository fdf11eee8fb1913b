CONSTANTS
  i1 = i1
  i2 = i2
  c1 = c1
  c2 = c2
  c3 = c3
  Instances = {i1, i2}
  Callers = {c1, c2, c3}
  Home <- MCHome
  PruneTenth = 2
  EvalTenth = 1
  Steps <- MCSteps
  MaxClock = 45
SPECIFICATION ScheduleSpec
SYMMETRY Symmetry
INVARIANTS WinsSpaced SkipsOnlyFresh
CHECK_DEADLOCK FALSE
