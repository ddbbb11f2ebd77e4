CONSTANTS
  Kinds = {"Normal", "Membership"}
  MaxLog = 3
  MaxVote = 1
  MaxFaults = 1
  MaxCrashes = 2
SPECIFICATION Spec
INVARIANTS AnsweredIsDurable RestartResumes SnapshotsAreTrue NodeInv
PROPERTIES ImplementsReplica
CHECK_DEADLOCK FALSE
