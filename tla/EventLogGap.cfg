SPECIFICATION Spec
CONSTANTS
    Events = {e1, e2, e3}
    Processes = {p1}
    Writers = {w1}
    Signed = TRUE
    Policies = {}
    Max = 1
    None = None
    MaxFaults = 1
    MaxLost = 0
    MaxCrashes = 0
    MaxRestores = 0
INVARIANT UntouchedLogVerifies
CHECK_DEADLOCK FALSE
