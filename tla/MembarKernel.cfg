\* Race freedom and the summaries over for loops, conditionals and calls, entered or not.
SPECIFICATION BothSpec
CONSTANTS
  Buffers = {"A", "B", "C"}
  Blocks = {1, 2, 3, 4}
  NoBlock = 0
  NoData = NoData
  Programs <- MCPrograms
INVARIANTS
  MembarInv
  NoRace
  SummaryCoversReturn
  CallerViewSound
PROPERTIES
  Termination
