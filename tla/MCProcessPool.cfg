SPECIFICATION Spec
CONSTANTS
  j1 = j1
  j2 = j2
  Jobs <- MCJobs
  NoJob = NoJob
  MaxProcesses = 3
  Pids <- ThreePids
  MaxFailures = 2
INVARIANTS CountIsRight EveryChildHasItsSlot
PROPERTIES ArgvKept StrangerDiesOnlyByStalePid SlotsComeBack
CHECK_DEADLOCK FALSE
