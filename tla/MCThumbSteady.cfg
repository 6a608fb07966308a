SPECIFICATION Spec
CONSTANTS
    w1 = w1
    w2 = w2
    Asset = {a1}
    Worker = {w1, w2}
    MaxVersion = 2
    MaxAutomaticRetries = 1
    MaxScans = 2
    MaxFetches = 1
    MaxStops = 0
    MaxRestarts = 1
    MaxOutages = 0
SYMMETRY mcSymmetry
INVARIANTS ServedThumbIsWhole ReadyHasThumbUnlessRaced
CHECK_DEADLOCK FALSE
