SPECIFICATION ViewsSpec
CONSTANTS
  File = {"log"}
  Model = {"gpt-a", "gpt-b", "gpt-5"}
  Fallback = "gpt-5"
  Days = {1, 2}
  MaxChanges = 3
  NL = NL
  None = None
  Gone = Gone
  Line <- MCLine
  Careers <- MCCareers
  Cut <- MCCut
  ReusedAt <- MCReusedAt
  DayOf <- MCDayOf
  Session = {"a", "b"}
  Log = "log"
  Unknown = "unknown"
  MaxCuts = 1
  Script <- GrokScript
  GrokLine <- MCGrokLine
INVARIANTS SpentOnce TotalMatchesStream ModelInTime StreamedAgainOnNews
PROPERTY ViewsCatchUp
