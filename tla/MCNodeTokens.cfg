CONSTANTS
  r1 = r1
  r2 = r2
  h1 = h1
  h2 = h2
  Requests = {r1, r2}
  Ids = {h1, h2}
  MaxTokens = 4
  MaxRedeploys = 1
SPECIFICATION Spec
INVARIANT DeletedAreAnnounced
PROPERTY BindingIsFinal
SYMMETRY Symmetry
CHECK_DEADLOCK FALSE
