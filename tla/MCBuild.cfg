SPECIFICATION FairSpec
CONSTANTS
    MaxProcs = 2
    OtherPrograms <- MCOtherPrograms
    MaxEdits = 1
    MaxRuns = 3
INVARIANTS
    PoolBounded
    SuccessMeansDone
    FdsBalanced
    PipesEnd
    NoStrayWriter
PROPERTIES
    SuccessIsFresh
    DriverEnds
    ProcessesEnd
CHECK_DEADLOCK FALSE
