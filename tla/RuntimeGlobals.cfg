SPECIFICATION RuntimeSpec
CONSTANTS
  Threads = {"t1", "t2", "t3"}
  Procs = {"p", "q"}
  ProcOf <- MCProcOf
  Programs <- MCGlobal
  Stages <- MCStages
  Always = {FALSE}
  None = None
  Failure = Failure
  Tunings <- MCOneConfig
  ArgNames = {"n", "m"}
  ArgValues = {1}
  MaxTuned = 0
INVARIANTS
  LaunchedUnderItsGlobals
CHECK_DEADLOCK FALSE
