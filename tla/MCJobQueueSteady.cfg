SPECIFICATION Spec
CONSTANTS
    a1 = a1
    a2 = a2
    control = control
    img1 = img1
    img2 = img2
    story = story
    ai = ai
    c1 = c1
    NoTask = NoTask
    TaskType <- mcSteadyTypes
    Subject = {a1, a2}
    Worker = {img1, img2}
    Caller = {c1}
    Serves <- mcServes
    BlockedBy <- mcBlockedBy
    Request <- mcSteadyRequests
    Signals = {"playback", "pause"}
    StopGroups = {}
    Capacity = 1
    MaxAutomaticRetries = 1
    MaxSubmits = 3
    MaxStops = 0
    MaxRestarts = 1
SYMMETRY mcSymmetry
INVARIANTS HeldOnce  UrgentFirst
PROPERTIES KeepsWork
