SPECIFICATION OrchestratorSpec
CONSTANTS
  j1 = j1
  Jobs <- MCJobs
  NoJob = NoJob
  MaxProcesses = 2
  Pids <- TwoPids
  MaxFailures = 1
  MaxEvents = 2
INVARIANTS OrchestratorTypeOK
PROPERTIES OrphansOnlyOfEarlySpawns LoopDeletable ChildrenAreReaped ConfiguresAnswered
CHECK_DEADLOCK FALSE
