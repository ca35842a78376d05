SPECIFICATION RuntimeSpec
CONSTANTS
  Threads = {"t1", "t2", "t3"}
  Procs = {"p", "q"}
  ProcOf <- MCProcOf
  Programs <- MCPrograms
  Stages <- MCStages
  Always = {FALSE, TRUE}
  None = None
  Failure = Failure
  Tunings <- MCTunings
  ArgNames = {"n", "m"}
  ArgValues = {1, 2}
  MaxTuned = 2
INVARIANTS
  LaunchedIsCurrent
  MeasuringLeavesNoTrace
  MeasuredForThisKey
PROPERTIES
  ImplementsStore
CHECK_DEADLOCK FALSE
