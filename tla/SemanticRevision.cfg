SPECIFICATION Spec
CONSTANTS
    m1 = m1
    m2 = m2
    c1 = c1
    c2 = c2
    None = None
    Memories = {m1, m2}
    Founded <- OneMemory
    Callers = {c1, c2}
    Operations = {"Create", "Correct", "Supersede", "Merge", "Retract", "Purge", "Repair"}
    Times = {0, 1}
    MaxEnvelopes = 2
    MaxFaults = 2
    MaxCrashes = 1
SYMMETRY Symmetry
INVARIANTS TypeOK    ChainsValidate
 
CHECK_DEADLOCK FALSE
