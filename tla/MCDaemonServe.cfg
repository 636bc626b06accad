SPECIFICATION Spec
CONSTANTS
  Client = {"c1", "c2"}
  Wake = "wake"
  None = None
  Zone = {"utc", "opaque1", "opaque2"}
  Opaque = {"opaque1", "opaque2"}
  Options = {"options"}
  MaxFaults = 1
INVARIANTS TakesOwnRows FailedStopsNothing
PROPERTIES StopIsKept NobodyHangs PollsWhenQuiet
CHECK_DEADLOCK FALSE
