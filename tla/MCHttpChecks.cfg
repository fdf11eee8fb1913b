CONSTANTS
  Urls = {u1}
  Evaluators = {e1, e2}
  Loop = e1
  Threshold = 2
  Interval = 1
  MaxFlips = 2
  MaxBlips = 1
  MaxEdits = 1
  MaxFaults = 1
  MaxOverlaps = 1
SPECIFICATION ChecksFairSpec
INVARIANT RepeatsOnlyFromLostWrites
PROPERTIES PagesEarned ImplementsPager Settles
