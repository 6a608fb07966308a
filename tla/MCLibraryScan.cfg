SPECIFICATION Spec
CONSTANTS
    r1 = r1
    below = below
    direct = direct
    Root = {r1}
    Path = {below, direct}
    RootOf <- mcOneRoot
    Direct = {direct}
    MaxVersion = 2
    MaxChanges = 1
    MaxRuns = 2
    MaxMishaps = 2
INVARIANTS  OnlyStopsDropWork
PROPERTIES CleanRunFindsAll
CHECK_DEADLOCK FALSE
