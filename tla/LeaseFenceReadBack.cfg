CONSTANTS
  Nodes = {n1, n2}
  Realms = {r1}
  None = None
  Duration = 2
  Skew = 1
  MaxClock = 2
  MaxLog = 3
  MaxLate = 0
  MaxDepartures = 0
SPECIFICATION Spec
INVARIANTS ReportedFenceIsIssued
CHECK_DEADLOCK FALSE

