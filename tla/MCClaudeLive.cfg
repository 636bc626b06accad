SPECIFICATION LiveSpec
CONSTANTS
  Message = {"m"}
  Request = {"r", "s"}
  Date = {"d1", "d2"}
  Project = {"p1"}
  Model = {"sonnet"}
  Session = {"s1", "s2"}
  NumFiles = 2
  NL = "nl"
  MaxClock = 2
  None = None
  Gone = Gone
  Line <- MCLine
  RecordsOf <- MCRecordsOf
  ProjectOf <- MCProjectOf
  SessionOf <- MCSessionOf
  Rewrites <- MCRewrites
  InitialDisks <- MCInitialDisks
  Calendar <- MCCalendar
  Threshold <- MCThreshold
INVARIANTS
  BookMatchesIndex
  StreamedAtMostHeld
  GrowthIsStreamed
PROPERTIES
  AlertsFire
