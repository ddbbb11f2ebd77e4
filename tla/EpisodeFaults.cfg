SPECIFICATION FairSpec
CONSTANTS
    Episodes = {e1, e2}
    Processes = {p1}
    Writers = {w1, w2}
    Paths = {"remember", "batch_remember"}
    None = None
    MaxFaults = 1
    MaxRecoveryFaults = 1
    MaxCrashes = 2
INVARIANTS WriteInvariant AcceptedSurvives EventOnceAndBacked AppliedIsComplete
PROPERTIES OpenLeavesNothingPending OpenCompletes CallsEnd
CHECK_DEADLOCK FALSE
