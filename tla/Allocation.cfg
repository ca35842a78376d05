\* Every placement of a few buffers, and every small call graph.
SPECIFICATION ModuleSpec
CONSTANTS
  Funcs = {1, 2, 3}
  Graphs <- MCGraphs
  MaxDepth = 4
  Sizes <- MCSizesOfMemory
  Modules <- MCModules
  NoFunction = 0
  ScratchAlign = 2
  Instances <- MCNothing
  MCLastOp = 3
  MCSizes = {1, 3}
  MCAligns = {1, 2}
  MCProfiles <- MCProfilesDef
INVARIANTS
  AllocationInv
  Placed
  RootsSuffice
PROPERTIES
  AllAllocated
  ImplementsWalk
CHECK_DEADLOCK FALSE
