SPECIFICATION FairSpec
CONSTANTS
    a1 = a1
    a2 = a2
    control = control
    img1 = img1
    img2 = img2
    story = story
    ai = ai
    c1 = c1
    NoTask = NoTask
    TaskType <- mcGateTypes
    Subject = {a1}
    Worker = {img1, story, ai}
    Caller = {c1}
    Serves <- mcServes
    BlockedBy <- mcBlockedBy
    Request <- mcGateRequests
    Signals = {"playback"}
    StopGroups <- mcStopAI
    Capacity = 1
    MaxAutomaticRetries = 1
    MaxSubmits = 2
    MaxStops = 1
    MaxRestarts = 0
INVARIANTS SomeoneMoves
PROPERTIES Drains
