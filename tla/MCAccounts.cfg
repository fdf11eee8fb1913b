CONSTANTS
  r1 = r1
  r2 = r2
  a1 = a1
  a2 = a2
  Requests = {r1, r2}
  Emails = {a1, a2}
  MaxSessions = 1
  MaxClock = 6
  MaxRows = 3
  SessionTtl = 4
  SessionIdle = 3
  SessionRefresh = 2
  Window = 1
  MaxPerEmail = 1
  MaxPerIp = 2
SPECIFICATION Spec
INVARIANTS OneAdministrator GuessesBounded LoggedOutStaysOut ActiveSessionsLive
SYMMETRY Symmetry
CHECK_DEADLOCK FALSE
