\* A call of the bindings during a launch, with the python context source.
SPECIFICATION Spec
CONSTANTS
  Launchers = {t1, t2}
  Main = main
  Programs <- MCPython
  MaxLaunches = 2
  MaxCalls = 2
  MaxRetries = 1
  Free = Free
  Nothing = Nothing
PROPERTIES
  CallsReturn
CHECK_DEADLOCK FALSE
