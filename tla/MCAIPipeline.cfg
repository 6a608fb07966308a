SPECIFICATION Spec
CONSTANTS
    Assets = {a}
    Workers = {w1, w2}
    Nodes = {n1, n2}
    None = None
    MaxKey = 2
    AIMaxAttempts = 2
    MaxRetries = 0
    Menu = {"stop", "reanalyze"}
    MaxTriggers = 2
    MaxTrouble = 0
  
PROPERTIES OnlyStopHaltsOthers
SYMMETRY mcSymmetry
CHECK_DEADLOCK FALSE
