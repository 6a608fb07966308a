SPECIFICATION Spec
CONSTANTS
    Count = 2
    Sessions = {"v1", "v2"}
    Warmers = {"v1"}
    Slots = 1
    MaxRuns = 2
    MaxRequests = 2
    MaxTrouble = 1
    MaxSweeps = 1
INVARIANTS DoneIsClosedOnce OneWriter WantedIsNotDoomed QueueMoves
CHECK_DEADLOCK FALSE
