CONSTANTS
  Nodes = {n1}
  Tasks = {t1, t2}
  Valid = {t1}
  Handlers = {h1, h2}
  TaskCap = 1
  BatchMax = 2
  MaxSamples = 3
  MaxEdits = 1
  MaxFaults = 1
SPECIFICATION FairSpec
INVARIANTS AccountedFor DuplicatesOnlyFromRetries
PROPERTIES SamplesSettle TasksConverge
