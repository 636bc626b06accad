SPECIFICATION Spec
CONSTANTS
  File = {"log"}
  Model = {"gpt-a", "gpt-b", "gpt-5"}
  Fallback = "gpt-5"
  Days = {1, 2}
  MaxChanges = 4
  NL = NL
  None = None
  Gone = Gone
  Line <- MCLine
  Careers <- ForkCareers
  Cut <- ForkCut
  ReusedAt <- MCReusedAt
  DayOf <- MCDayOf
INVARIANT SpentOnce
