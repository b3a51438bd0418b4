SPECIFICATION LoopSpec
CONSTANTS
    WordBytes = 2
    DefaultCapacity = 4
    Sizes <- MCSizes
    MaxRegions = 11
    MaxLive = 3
    MaxMarks = 1
    NoTrace = NoTrace
INVARIANTS
    OnlyOwnBlocks
    FootprintBounded
PROPERTIES
    NoGrowthOnRepeat
CHECK_DEADLOCK FALSE
