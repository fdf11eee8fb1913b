CONSTANTS
  Nodes = {n1}
  Requests = {r1, r2}
  Slack = 1
  HistoryInterval = 2
  MaxClock = 3
  MaxEpoch = 2
  MaxRaw = 1
  MaxInc = 2
SPECIFICATION Spec
SYMMETRY Symmetry
CONSTRAINT Budget
INVARIANTS NeverInflated HistorySpaced DeletionSticks
CHECK_DEADLOCK FALSE
