SPECIFICATION Spec
CONSTANTS
    start = start
    v1 = v1
    v2 = v2
    Keys = {start}
    Viewers = {v1, v2}
    Slots = 1
    MaxRuns = 2
    MaxSweeps = 1
    MaxTrouble = 1
SYMMETRY mcSymmetry
INVARIANTS  ProxyIsWhole DoneClosesOnce
CHECK_DEADLOCK FALSE
