CONSTANTS
  Nodes = {n1, n2}
  Realms = {r1}
  None = None
  Duration = 2
  Skew = 1
  MaxClock = 3
  MaxLog = 3
  MaxLate = 0
  MaxDepartures = 0
SPECIFICATION Spec
INVARIANTS InductiveInvariant LeaseExclusive
CHECK_DEADLOCK FALSE
SYMMETRY NodeSymmetry
