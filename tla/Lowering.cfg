\* Tensors stored, reduced, scanned, converted and staged, layout by layout.
SPECIFICATION LoweringSpec
CONSTANTS
  Kernels <- MCKernels
INVARIANTS
  HoldsTheTensor
  MaskedOnce
  ReduceExact
  ScanExact
  ConvertExact
  InfoHolds
  AccessesOwnElements
