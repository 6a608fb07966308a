SPECIFICATION Spec
CONSTANTS
    Assets = {a}
    Workers = {w1}
    Nodes = {n}
    None = None
    MaxKey = 1
    AIMaxAttempts = 2
    MaxRetries = 1
    Menu = {"stop", "start", "reanalyze", "reindex", "retry", "restart"}
    MaxTriggers = 1
    MaxTrouble = 1
PROPERTIES  Rests
CHECK_DEADLOCK FALSE
