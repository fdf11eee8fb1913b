CONSTANTS
  Nodes = {n1, n2}
  Evaluators = {e1, e2}
  Loop = e1
  MaxFlips = 3
  MaxEdits = 1
  MaxFaults = 1
  MaxOverlaps = 2
SPECIFICATION FairSpec
INVARIANT RepeatsOnlyFromFaultsAndOverlaps
PROPERTIES ImplementsPager Settles
