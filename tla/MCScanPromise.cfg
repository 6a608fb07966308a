SPECIFICATION FairSpec
CONSTANTS
    y = y
    z = z
    NoRequest = NoRequest
    MediaRoot = {y, z}
    Request <- mcRequests
    ResumeRequest <- mcResume
    MaxRequests = 3
    MaxStops = 1
    MaxPauses = 1
    Depth = 2
INVARIANTS NoLostWakeUp
PROPERTIES KeepsPromise PendingMoves
CHECK_DEADLOCK FALSE
