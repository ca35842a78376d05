CONSTANTS
    Loops <- LoopSet
    StageCounts = {2, 3, 4}
    MaxTrip = 4
SPECIFICATION Spec
INVARIANT SchedulesAreSound
INVARIANT DotsKeepTheirBuffers
INVARIANT NothingBeyondTheLoop
INVARIANT LongLoopResultsAreLast
PROPERTY RefinesSequentialLoop
