SPECIFICATION Spec
CONSTANTS
  Rules = {"rule"}
  Urls = {"u1", "u2"}
  Ranges = {"realtime", "7d"}
  Realtime = "realtime"
  Scopes = {{"login", "servers", "dashboard"}, {"login", "servers", "alerts"}, {"login", "http", "detail"}}
  MaxCalls = 2
  MaxFaults = 1
INVARIANTS ShownIsStored DeletedStaysDeleted AddedStaysAdded ChartMatchesRange
