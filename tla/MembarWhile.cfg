\* The worklist need not empty when a loop condition uses shared memory.
SPECIFICATION BothSpec
CONSTANTS
  Buffers = {"A", "B", "C"}
  Blocks = {1, 2, 3, 4, 5, 6, 7, 8, 9, 10}
  NoBlock = 0
  NoData = NoData
  Programs <- WhilePrograms
PROPERTIES
  Termination
CHECK_DEADLOCK FALSE
