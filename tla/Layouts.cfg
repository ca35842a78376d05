CONSTANTS
    Programs <- KernelSet
    ElemsPerThread <- Elems
    NumThreads = 128
    PerThread = {2}
SPECIFICATION Spec
INVARIANT Verified
INVARIANT MeaningKept
INVARIANT AnchorsKeepLayouts
PROPERTY PassEnds
