\* Launches and calls at once.
SPECIFICATION Spec
CONSTANTS
  Launchers = {t1, t2}
  Main = main
  Programs <- MCPrograms
  MaxLaunches = 2
  MaxCalls = 4
  MaxRetries = 1
  Free = Free
  Nothing = Nothing
INVARIANTS
  NoUseAfterFree
  MetricsAttributed
  ReturnedIsRecorded
PROPERTIES
  CallsReturn
CHECK_DEADLOCK FALSE
