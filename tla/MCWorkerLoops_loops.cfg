SPECIFICATION Spec
CONSTANTS
    NumThreads = 2
    resubmitAdjustChanSize = 3
    resultQueueSize = 2
    chainHeadChanSize = 2
    chainSideChanSize = 2
    staleThreshold = 3
    generations = 3
    miningLogAtDepth = 1
    Bounds <- MCBounds
INVARIANTS
    
    StandoffNeedsBacklog
    
    OneSeal
    UnclesAreValid
    MinedOnce
    MinesOnHead
PROPERTIES
    WatchedLongEnough
CHECK_DEADLOCK FALSE
