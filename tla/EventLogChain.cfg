SPECIFICATION Spec
CONSTANTS
    Events = {e1, e2, e3, e4}
    Processes = {p1}
    Writers = {w1, w2}
    Signed = TRUE
    Policies = {"SnapshotBased", "MaxEvents", "TimeBased"}
    Max = 1
    None = None
    MaxFaults = 1
    MaxLost = 0
    MaxCrashes = 1
    MaxRestores = 1
INVARIANTS CheckpointedLogVerifies RestIsOneChain AcknowledgedIsKept
PROPERTY StoredInOrder
SYMMETRY EventSymmetry
CHECK_DEADLOCK FALSE
