SPECIFICATION FairSpec
CONSTANTS
    w1 = w1
    w2 = w2
    Asset = {a1}
    Worker = {w1}
    MaxVersion = 2
    MaxAutomaticRetries = 1
    MaxScans = 1
    MaxFetches = 0
    MaxStops = 1
    MaxRestarts = 0
    MaxOutages = 1
PROPERTIES Settles
CHECK_DEADLOCK FALSE
