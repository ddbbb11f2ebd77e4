SPECIFICATION Spec
CONSTANTS
    Episodes = {e1, e2, e3}
    Processes = {p1}
    Writers = {w1, w2}
    Paths = {"remember"}
    None = None
    MaxFaults = 2
    MaxRecoveryFaults = 0
    MaxCrashes = 2
INVARIANTS IntentCovers FailedIsImpossible TemporalChain
SYMMETRY EpisodeSymmetry
CHECK_DEADLOCK FALSE
