SPECIFICATION ResidentSpec
CONSTANTS
  Message = {"m"}
  Request = {"r"}
  Date = {"d1", "d2"}
  Project = {"p1", "p2"}
  Model = {"sonnet", "opus"}
  Session = {"s1", "s2"}
  NumFiles = 2
  NL = "nl"
  MaxClock = 2
  None = None
  Gone = Gone
  Line <- MCLine
  RecordsOf <- MCRecordsOf
  ProjectOf <- MCProjectOf
  SessionOf <- MCSessionOf
  Rewrites <- MCRewrites
  InitialDisks <- MCInitialDisks
INVARIANTS
  RowsMatchIndex
PROPERTIES
  RowsCatchUp
