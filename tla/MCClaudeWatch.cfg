SPECIFICATION Spec
CONSTANTS
  Message = {"m", "m:advisor:0"}
  Request = {"r", "s"}
  Date = {"d1"}
  Project = {"p1", "p2"}
  Model = {"sonnet"}
  Session = {"s1", "s2"}
  NumFiles = 2
  NL = "nl"
  MaxClock = 2
  None = None
  Gone = Gone
  Line <- MCLine
  RecordsOf <- MCRecordsOf
  ProjectOf <- MCProjectOf
  SessionOf <- MCSessionOf
  Rewrites <- MCRewrites
  InitialDisks <- MCInitialDisks
PROPERTIES
  CatchesUp
INVARIANTS
  OneEntryPerResponse
  IndexMatchesCursors
  IndexMatchesDisk
