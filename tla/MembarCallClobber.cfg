\* A callee overwrites a buffer its caller still reads.
SPECIFICATION BothSpec
CONSTANTS
  Buffers = {"A", "B", "C"}
  Blocks = {1, 2, 3, 4}
  NoBlock = 0
  NoData = NoData
  Programs <- MCLiveAcross
INVARIANTS
  CalleeSparesCaller

