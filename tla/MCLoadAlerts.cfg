CONSTANTS
  Rules = {a, b}
  Nodes = {n1}
  Broken = {b}
  Evaluators = {e1, e2}
  Loop = e1
  Renotify = 2
  MaxClock = 4
  MaxFlips = 2
  MaxEdits = 1
  MaxFaults = 1
  MaxOverlaps = 1
SPECIFICATION FairSpec
INVARIANTS RemindersSpaced NoOrphanState
PROPERTIES ImplementsPager Settles
CONSTRAINT Budget
