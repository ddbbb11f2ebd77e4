SPECIFICATION FairSpec
CONSTANTS
    Events = {e1, e2, e3}
    Processes = {p1}
    Writers = {w1, w2}
    Signed = TRUE
    Policies = {"SnapshotBased", "MaxEvents", "TimeBased"}
    Max = 1
    None = None
    MaxFaults = 1
    MaxLost = 1
    MaxCrashes = 1
    MaxRestores = 0
INVARIANT NeverRefused
PROPERTY CallsEnd
CHECK_DEADLOCK FALSE
