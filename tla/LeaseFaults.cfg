CONSTANTS
  Nodes = {n1, n2}
  Realms = {r1}
  None = None
  Duration = 1
  Skew = 1
  MaxClock = 1
  MaxLog = 3
  MaxLate = 1
  MaxDepartures = 1
SPECIFICATION Spec
INVARIANT FenceNamesHolder
PROPERTY ReplicasFollowLog
CHECK_DEADLOCK FALSE
SYMMETRY NodeSymmetry
CONSTRAINT OneMishap
