SPECIFICATION Spec
CONSTANTS
    Episodes = {e1}
    Processes = {p1}
    Writers = {w1}
    Paths = {"remember"}
    None = None
    MaxFaults = 0
    MaxRecoveryFaults = 1
    MaxCrashes = 1
INVARIANT FailedIsImpossible
CHECK_DEADLOCK FALSE
