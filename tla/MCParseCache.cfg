SPECIFICATION FairSpec
CONSTANTS
  Log = {"log"}
  Proc = {p1, p2}
  Args = {"daily", "online"}
  Online = {"online"}
  Record = {"a", "b", "c", "d"}
  None = None
  Gone = Gone
  Torn = Torn
  Report = "report"
  MaxVersions = 2
  MaxFaults = 1
  Content <- MCContent
PROPERTIES
  Fresh
  CacheHeals
