SPECIFICATION Spec
CONSTANTS
    Duration = 3
    Hour = 2
    Timelines <- SmallTimelines
    Clock = {0, 4, 7, 8}
    NoStart = NoStart
    Run = {run1, run2}
    Refresh = 2
    MaxVersion = 1
    MaxFaults = 1
    NoRun = NoRun
    NoCache = NoCache
    NoOutput = NoOutput
    Agents = 3
    RowsOfAgent <- MCRows
    Fetching = {1}
    MainThread = 0
    Worker = {1, 2}
    Kinds = {"daily", "session"}
    Pause = 1
    LongContext = 8
    BadTime = BadTime
    None = None
    Message <- Messages
    Request = {"q1", "q2", "q3", "q4"}
    Date = {1, 2, 9}
    Project = {"p1", "p2"}
    Model = {}
    Threads = 2
    Reports = {"daily", "instances", "weekly", "session"}
    Since = 2
    Until = 9
    Unset = Unset
    Unusable = Unusable
INVARIANT UntilIsInclusive
CHECK_DEADLOCK FALSE
