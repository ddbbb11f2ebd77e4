CONSTANTS
  MaxJobs = 3
  Callers = {c1, c2}
  None = None
  Priority <- LaterFirst
  MaxConcurrent = 1
  MaxQueueDepth = 1
  MaxRetry = 1
  Modes = {"requeue", "fail", "disabled"}
  Endings = {"outcome", "timeout"}
  MaxCalls = 3
  MaxFaults = 1
  MaxLost = 1
  MaxCrashes = 1
SPECIFICATION FairSpec
INVARIANTS SchedulerInv OneRunAtATime ConcurrencyBound QueueBound MemoryIsLatest TicketPerQueuedJob StartsPerAttempt
PROPERTIES EndedStaysEnded ActiveEnds
CHECK_DEADLOCK FALSE
