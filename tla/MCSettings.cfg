SPECIFICATION Spec
CONSTANTS
  r1 = r1
  r2 = r2
  p1 = p1
  p2 = p2
  Requests <- MCRequests
  Procs <- MCProcs
  Routes <- MCRoutes
  MaxPosts = 1
  MaxFaults = 1
  Radix = 3
INVARIANTS
  IdsSettled
  ShownTokenStored
  IdsLeadBack
PROPERTY SchemaRecovers
